---------------------------- MODULE Stores_proof ----------------------------
(***************************************************************************)
(* Proofs about what is kept on the disk: the remembered districts, the    *)
(* files of outcomes and the import of the places.                         *)
(*                                                                         *)
(* Remembered districts.  AliasInv needs nothing of the disk; from it      *)
(* follow that what is remembered is durable and that a reviewer's entry   *)
(* stands.  CopyInv says how far a writer has come with the copy; it needs *)
(* that a forget does not fail half-way: when DiskFails has "forget", TLC  *)
(* finds a row that the table still has and the copy has lost.             *)
(*                                                                         *)
(* Files of outcomes.  Saves are numbered, so what was saved after a room  *)
(* is a set of rooms; a file that is doomed has MaxFiles newer ones, and   *)
(* each of those was saved later (FilesInv).  That the directory is        *)
(* bounded is a matter of counting: files that are left have different     *)
(* numbers of newer ones.                                                  *)
(*                                                                         *)
(* Import.  Two records of the same thing are compared: what an import has *)
(* read, and what the workbooks say of the companies it has passed         *)
(* (ReadRight).  An edit either makes a file older than a workbook, which  *)
(* the server sees, or is one it cannot see, and then the file is blind.   *)
(* All of it is under Alone: two importers share the temporary name, and   *)
(* then the database need not be whole.                                    *)
(***************************************************************************)
EXTENDS RequestsAndStores, FiniteSetTheorems, TLAPS

-----------------------------------------------------------------------------
(* The remembered districts. *)


\* The lock has the one client that is at work; rows and deleted keys are those of its write.
LockInv ==
  \A c \in Clients :
    /\ pc[c] # "idle" <=> lock = c
    /\ pc[c] \in {"idle", "forget"} => DOMAIN rows[c] = {}
    /\ pc[c] # "forget" => gone[c] = {}

\* Rows may replace what they will replace; the table has what is about to be copied; what is
\* deleted has left the copy.
RowsInv ==
  \A c \in Clients :
    /\ \A k \in DOMAIN rows[c] :
         /\ src[c] = "auto" => ~ByReviewer(mem[k])
         /\ pc[c] = "copy" => file[k] # NoEntry
    /\ \A k \in gone[c] : mem[k] = NoEntry

AliasInv == TypeOK /\ LockInv /\ RowsInv /\ RememberedIsDurable

\* The copy is the table but for the rows still to be copied and the keys not yet committed.
CopyInv ==
  /\ MemoryIsFile
  /\ \A c \in Clients : lock = c =>
       /\ \A k \in Keys \ (DOMAIN rows[c] \cup gone[c]) : mem[k] = file[k]
       /\ pc[c] = "upsert" => mem = file
       /\ pc[c] = "copy" =>
            \A k \in DOMAIN rows[c] : file[k] = [name |-> rows[c][k], source |-> src[c]]

-----------------------------------------------------------------------------
LEMMA RowsType ==
  ASSUME NEW ks \in SUBSET Keys, NEW f, f \in [ks -> Names]
  PROVE  f \in AllRows /\ DOMAIN f = ks
  BY DEF AllRows

LEMMA NoRowsType == NoRows \in AllRows /\ DOMAIN NoRows = {}
<1>1. NoRows \in [{} -> Names]
  BY DEF NoRows
<1>2. {} \in SUBSET Keys
  OBVIOUS
<1> QED BY <1>1, <1>2, RowsType

LEMMA RowsDomain ==
  ASSUME NEW r \in AllRows
  PROVE  /\ DOMAIN r \subseteq Keys
         /\ r \in [DOMAIN r -> Names]
         /\ \A k \in DOMAIN r : r[k] \in Names
  BY DEF AllRows

LEMMA AliasInit == Init => AliasInv /\ CopyInv
  BY NoRowsType, AliasAssumption
  DEF Init, AliasInv, TypeOK, LockInv, RowsInv, RememberedIsDurable, CopyInv, MemoryIsFile, Places, Sources

\* Type correctness of each action.
LEMMA TypeStep == TypeOK /\ [Next]_vars => TypeOK'
<1> SUFFICES ASSUME TypeOK, [Next]_vars
             PROVE  TypeOK'
  OBVIOUS
<1> USE DEF TypeOK, Places
<1>1. ASSUME NEW c \in Clients, NEW s \in Sources,
             NEW new \in UNION {[ks -> catalog] : ks \in SUBSET Keys}, Learn(c, s, new)
      PROVE  TypeOK'
  <2>1. PICK ks \in SUBSET Keys : new \in [ks -> Names]
    BY <1>1
  <2> DEFINE kept == Writable(new, mem, s)
  <2>2. kept \in SUBSET Keys /\ [k \in kept |-> new[k]] \in [kept -> Names]
    BY <2>1 DEF Writable
  <2>3. [k \in kept |-> new[k]] \in AllRows
    BY <2>2, RowsType
  <2> QED BY <1>1, <2>3 DEF Learn
<1>2. ASSUME NEW c \in Clients, Upsert(c)
      PROVE  TypeOK'
  <2>1. \A k \in Writable(rows[c], file, src[c]) : rows[c][k] \in Names
    BY RowsDomain DEF Writable
  <2>2. Upserted(c) \in [Keys -> Entries \cup {NoEntry}]
    BY <2>1 DEF Upserted, Entries
  <2> QED BY <1>2, <2>2 DEF Upsert
<1>3. ASSUME NEW c \in Clients, Copy(c)
      PROVE  TypeOK'
  <2>1. CASE \E k \in DOMAIN rows[c] :
               /\ mem' = [mem EXCEPT ![k] = [name |-> rows[c][k], source |-> src[c]]]
               /\ rows' = [rows EXCEPT ![c] = [j \in DOMAIN rows[c] \ {k} |-> rows[c][j]]]
               /\ UNCHANGED <<lock, pc, gone>>
    <3>1. PICK k \in DOMAIN rows[c] :
            /\ mem' = [mem EXCEPT ![k] = [name |-> rows[c][k], source |-> src[c]]]
            /\ rows' = [rows EXCEPT ![c] = [j \in DOMAIN rows[c] \ {k} |-> rows[c][j]]]
            /\ UNCHANGED <<lock, pc, gone>>
      BY <2>1
    <3>2. /\ DOMAIN rows[c] \ {k} \in SUBSET Keys
          /\ [j \in DOMAIN rows[c] \ {k} |-> rows[c][j]] \in [DOMAIN rows[c] \ {k} -> Names]
          /\ rows[c][k] \in Names
      BY RowsDomain
    <3>3. [j \in DOMAIN rows[c] \ {k} |-> rows[c][j]] \in AllRows
      BY <3>2, RowsType
    <3>4. [name |-> rows[c][k], source |-> src[c]] \in Entries
      BY <3>2 DEF Entries
    <3> QED BY <1>3, <3>1, <3>3, <3>4 DEF Copy
  <2>2. CASE Release(c) /\ UNCHANGED mem
    BY <1>3, <2>2, NoRowsType DEF Copy, Release
  <2> QED BY <1>3, <2>1, <2>2 DEF Copy
<1>4. ASSUME NEW c \in Clients, ForgetStart(c) \/ \E k \in Keys : ForgetKey(c, k)
      PROVE  TypeOK'
  BY <1>4 DEF ForgetStart, ForgetKey
<1>5. ASSUME NEW c \in Clients, UpsertFails(c) \/ ForgetCommit(c) \/ ForgetFails(c)
      PROVE  TypeOK'
  BY <1>5, NoRowsType DEF UpsertFails, ForgetCommit, ForgetFails, Release
<1>6. CASE Restart
  BY <1>6, NoRowsType DEF Restart
<1>7. CASE UNCHANGED vars
  BY <1>7 DEF vars
<1> QED BY <1>1, <1>2, <1>3, <1>4, <1>5, <1>6, <1>7 DEF Next, Step

LEMMA AliasStep == AliasInv /\ [Next]_vars => AliasInv'
<1> SUFFICES ASSUME AliasInv, [Next]_vars
             PROVE  AliasInv'
  OBVIOUS
<1>t. TypeOK /\ TypeOK'
  BY TypeStep DEF AliasInv
<1> USE <1>t, AliasAssumption
    DEF AliasInv, LockInv, RowsInv, RememberedIsDurable
<1>d. \A c \in Clients : DOMAIN rows[c] \subseteq Keys /\ gone[c] \subseteq Keys
  BY RowsDomain DEF TypeOK
<1>1. ASSUME NEW c \in Clients, NEW s \in Sources,
             NEW new \in UNION {[ks -> catalog] : ks \in SUBSET Keys}, Learn(c, s, new)
      PROVE  AliasInv'
  BY <1>1 DEF Learn, Writable, ByReviewer, TypeOK
<1>2. ASSUME NEW c \in Clients, Upsert(c)
      PROVE  AliasInv'
  <2>1. /\ \A k \in Keys : file[k] # NoEntry => file'[k] # NoEntry
        /\ \A k \in DOMAIN rows[c] : file'[k] # NoEntry
    <3>1. \A k \in Keys : k \in Writable(rows[c], file, src[c])
                            => [name |-> rows[c][k], source |-> src[c]] \in Entries
      BY RowsDomain DEF TypeOK, Entries, Writable
    <3>2. \A k \in DOMAIN rows[c] : k \in Writable(rows[c], file, src[c]) \/ file[k] # NoEntry
      BY DEF Writable, ByReviewer
    <3> QED BY <1>2, <1>d, <3>1, <3>2 DEF Upsert, Upserted, TypeOK
  <2> QED BY <1>2, <1>d, <2>1 DEF Upsert, TypeOK, ByReviewer
<1>3. ASSUME NEW c \in Clients, Copy(c)
      PROVE  AliasInv'
  <2>1. CASE Release(c) /\ UNCHANGED mem
    BY <1>3, <2>1, NoRowsType DEF Copy, Release, TypeOK
  <2>2. ASSUME NEW k \in DOMAIN rows[c],
               mem' = [mem EXCEPT ![k] = [name |-> rows[c][k], source |-> src[c]]],
               rows' = [rows EXCEPT ![c] = [j \in DOMAIN rows[c] \ {k} |-> rows[c][j]]],
               UNCHANGED <<lock, pc, gone>>
        PROVE  AliasInv'
    <3>1. k \in Keys /\ lock = c /\ pc[c] = "copy" /\ gone[c] = {}
      BY <1>3, <1>d DEF Copy
    <3>2. \A b \in Clients \ {c} : DOMAIN rows[b] = {} /\ gone[b] = {} /\ rows'[b] = rows[b]
      BY <3>1, <2>2 DEF TypeOK, Places
    <3>3. /\ DOMAIN (rows'[c]) = DOMAIN rows[c] \ {k}
          /\ \A j \in Keys \ {k} : mem'[j] = mem[j]
      BY <2>2, <3>1 DEF TypeOK
    <3>4. file' = file /\ src' = src
      BY <1>3 DEF Copy
    <3>5. RowsInv'
      BY <2>2, <3>1, <3>2, <3>3, <3>4, <1>d DEF ByReviewer
    <3>6. LockInv'
      BY <2>2, <3>1, <3>2, <3>3
    <3>7. RememberedIsDurable'
      BY <2>2, <3>1, <3>3, <3>4 DEF TypeOK
    <3> QED BY <3>5, <3>6, <3>7
  <2> QED BY <1>3, <2>1, <2>2 DEF Copy
<1>4. ASSUME NEW c \in Clients, ForgetStart(c)
      PROVE  AliasInv'
  BY <1>4 DEF ForgetStart, TypeOK
<1>5. ASSUME NEW c \in Clients, NEW k \in Keys, ForgetKey(c, k)
      PROVE  AliasInv'
  BY <1>5, <1>d DEF ForgetKey, TypeOK, ByReviewer
<1>6. ASSUME NEW c \in Clients, ForgetCommit(c)
      PROVE  AliasInv'
  BY <1>6, <1>d, NoRowsType DEF ForgetCommit, Release, TypeOK
<1>7. ASSUME NEW c \in Clients, UpsertFails(c) \/ ForgetFails(c)
      PROVE  AliasInv'
  BY <1>7, <1>d, NoRowsType DEF UpsertFails, ForgetFails, Release, TypeOK
<1>8. CASE Restart
  BY <1>8, NoRowsType DEF Restart, TypeOK
<1>9. CASE UNCHANGED vars
  BY <1>9 DEF vars, ByReviewer
<1> QED BY <1>1, <1>2, <1>3, <1>4, <1>5, <1>6, <1>7, <1>8, <1>9 DEF Next, Step

-----------------------------------------------------------------------------
(* Theorems *)

\* The inductive invariant that needs nothing of the disk.
THEOREM AliasInvCorrect == Spec => []AliasInv
<1>1. Init => AliasInv
  BY AliasInit
<1> QED BY <1>1, AliasStep, PTL DEF Spec

\* Type correctness.
THEOREM TypeCorrect == Spec => []TypeOK
<1>1. AliasInv => TypeOK
  BY DEF AliasInv
<1> QED BY <1>1, AliasInvCorrect, PTL

\* Nothing is answered from memory that the table does not know.
THEOREM RememberedIsDurableCorrect == Spec => []RememberedIsDurable
<1>1. AliasInv => RememberedIsDurable
  BY DEF AliasInv
<1> QED BY <1>1, AliasInvCorrect, PTL

\* Automatic learning never takes away a reviewer's entry that it can see.
THEOREM ReviewerStandsCorrect == Spec => ReviewerStands
<1> DEFINE Stands ==
      \A k \in Keys, c \in Clients :
        lock = c /\ pc[c] \in {"upsert", "copy"} /\ src[c] = "auto" =>
          /\ ByReviewer(file[k]) => file'[k] = file[k]
          /\ ByReviewer(mem[k]) => mem'[k] \in {mem[k], file[k]}
<1>1. ASSUME AliasInv, Next
      PROVE  Stands
  <2> SUFFICES ASSUME NEW k \in Keys, NEW c \in Clients,
                      lock = c, pc[c] \in {"upsert", "copy"}, src[c] = "auto"
               PROVE  /\ ByReviewer(file[k]) => file'[k] = file[k]
                      /\ ByReviewer(mem[k]) => mem'[k] \in {mem[k], file[k]}
    OBVIOUS
  <2> USE <1>1 DEF AliasInv, LockInv
  <2>1. CASE Restart
    BY <2>1 DEF Restart
  <2>2. ASSUME NEW b \in Clients, Step(b)
        PROVE  b = c
    BY <2>2, AliasAssumption
    DEF Step, Upsert, UpsertFails, Copy, ForgetKey, ForgetCommit, ForgetFails
  <2>3. CASE Upsert(c)
    BY <2>3 DEF Upsert, Upserted, Writable, TypeOK
  <2>4. CASE Copy(c)
    BY <2>4 DEF Copy, RowsInv, TypeOK
  <2>5. CASE UpsertFails(c)
    BY <2>5 DEF UpsertFails
  <2>6. ~ForgetCommit(c) /\ ~ForgetFails(c) /\ \A j \in Keys : ~ForgetKey(c, j)
    BY DEF ForgetCommit, ForgetFails, ForgetKey
  <2>7. ASSUME NEW b \in Clients
        PROVE  ~ForgetStart(b) /\ \A s, new : ~Learn(b, s, new)
    BY AliasAssumption DEF ForgetStart, Learn
  <2> QED BY <2>1, <2>2, <2>3, <2>4, <2>5, <2>6, <2>7 DEF Next, Step
<1>2. UNCHANGED vars => Stands
  BY DEF vars
<1>3. AliasInv /\ [Next]_vars => [Stands]_vars
  BY <1>1, <1>2
<1> QED BY <1>3, AliasInvCorrect, PTL DEF Spec, ReviewerStands

-----------------------------------------------------------------------------
(* With a disk that does not fail a forget, memory and table agree. *)

LEMMA CopyStep ==
  ASSUME "forget" \notin DiskFails
  PROVE  AliasInv /\ CopyInv /\ [Next]_vars => CopyInv'
<1> SUFFICES ASSUME AliasInv, CopyInv, [Next]_vars
             PROVE  CopyInv'
  OBVIOUS
<1>t. TypeOK
  BY DEF AliasInv
<1>d. \A c \in Clients : DOMAIN rows[c] \subseteq Keys /\ gone[c] \subseteq Keys
  BY <1>t, RowsDomain DEF TypeOK
<1> USE <1>t, <1>d, AliasAssumption DEF AliasInv, LockInv, CopyInv, MemoryIsFile
<1>1. ASSUME NEW c \in Clients, NEW s \in Sources,
             NEW new \in UNION {[ks -> catalog] : ks \in SUBSET Keys}, Learn(c, s, new)
      PROVE  CopyInv'
  BY <1>1 DEF Learn, TypeOK
<1>2. ASSUME NEW c \in Clients, Upsert(c)
      PROVE  CopyInv'
  <2>1. lock = c /\ mem = file /\ gone[c] = {}
    BY <1>2 DEF Upsert
  <2>2. \A k \in DOMAIN rows[c] : k \in Writable(rows[c], file, src[c])
    BY <2>1 DEF RowsInv, Writable, ByReviewer, TypeOK, Sources
  <2>3. /\ \A k \in DOMAIN rows[c] : file'[k] = [name |-> rows[c][k], source |-> src[c]]
        /\ \A k \in Keys \ DOMAIN rows[c] : file'[k] = file[k]
    BY <1>2, <2>2 DEF Upsert, Upserted, Writable
  <2> QED BY <1>2, <2>1, <2>3 DEF Upsert, TypeOK
<1>3. ASSUME NEW c \in Clients, Copy(c)
      PROVE  CopyInv'
  <2>1. lock = c /\ pc[c] = "copy" /\ gone[c] = {}
    BY <1>3 DEF Copy
  <2>2. CASE Release(c) /\ UNCHANGED mem /\ DOMAIN rows[c] = {}
    <3>1. \A k \in Keys : mem[k] = file[k]
      BY <2>1, <2>2
    <3>2. mem = file
      BY <3>1 DEF TypeOK
    <3> QED BY <1>3, <2>2, <3>2 DEF Copy, Release, TypeOK
  <2>3. ASSUME NEW k \in DOMAIN rows[c],
               mem' = [mem EXCEPT ![k] = [name |-> rows[c][k], source |-> src[c]]],
               rows' = [rows EXCEPT ![c] = [j \in DOMAIN rows[c] \ {k} |-> rows[c][j]]],
               UNCHANGED <<lock, pc, gone>>
        PROVE  CopyInv'
    <3>1. /\ k \in Keys /\ file[k] = [name |-> rows[c][k], source |-> src[c]]
          /\ file' = file /\ src' = src
      BY <1>3, <2>1 DEF Copy
    <3>2. /\ DOMAIN (rows'[c]) = DOMAIN rows[c] \ {k}
          /\ \A j \in DOMAIN rows[c] \ {k} : rows'[c][j] = rows[c][j]
          /\ mem'[k] = file[k] /\ \A j \in Keys \ {k} : mem'[j] = mem[j]
      BY <2>3, <3>1 DEF TypeOK
    <3> QED BY <2>1, <2>3, <3>1, <3>2
  <2> QED BY <1>3, <2>2, <2>3 DEF Copy
<1>4. ASSUME NEW c \in Clients, ForgetStart(c)
      PROVE  CopyInv'
  BY <1>4 DEF ForgetStart, TypeOK
<1>5. ASSUME NEW c \in Clients, NEW k \in Keys, ForgetKey(c, k)
      PROVE  CopyInv'
  BY <1>5 DEF ForgetKey, TypeOK
<1>6. ASSUME NEW c \in Clients, ForgetCommit(c)
      PROVE  CopyInv'
  <2>1. lock = c /\ DOMAIN rows[c] = {} /\ \A k \in gone[c] : mem[k] = NoEntry
    BY <1>6 DEF ForgetCommit, RowsInv
  <2>2. \A k \in Keys : mem[k] = file'[k]
    BY <1>6, <2>1 DEF ForgetCommit
  <2>3. mem = file'
    BY <1>6, <2>2 DEF ForgetCommit, TypeOK
  <2> QED BY <1>6, <2>3 DEF ForgetCommit, Release
<1>7. ASSUME NEW c \in Clients, UpsertFails(c)
      PROVE  CopyInv'
  BY <1>7 DEF UpsertFails, Release, TypeOK
<1>8. CASE Restart
  BY <1>8 DEF Restart
<1>9. CASE UNCHANGED vars
  BY <1>9 DEF vars
<1>10. \A c \in Clients : ~ForgetFails(c)
  BY DEF ForgetFails
<1> QED BY <1>1, <1>2, <1>3, <1>4, <1>5, <1>6, <1>7, <1>8, <1>9, <1>10 DEF Next, Step

\* Between writes the copy is the table.
THEOREM MemoryIsFileCorrect ==
  ASSUME "forget" \notin DiskFails
  PROVE  Spec => []MemoryIsFile
<1>1. Init => AliasInv /\ CopyInv
  BY AliasInit
<1>2. AliasInv /\ CopyInv /\ [Next]_vars => AliasInv' /\ CopyInv'
  BY AliasStep, CopyStep
<1>3. CopyInv => MemoryIsFile
  BY DEF CopyInv
<1> QED BY <1>1, <1>2, <1>3, PTL DEF Spec

\* A reviewer's answer is the answer of the next request.
THEOREM ReviewerHeardCorrect ==
  ASSUME "forget" \notin DiskFails
  PROVE  Spec => []ReviewerHeard
<1>1. MemoryIsFile => ReviewerHeard
  BY DEF MemoryIsFile, ReviewerHeard, Remembered, ByReviewer
<1>2. Spec => []MemoryIsFile
  BY MemoryIsFileCorrect
<1> QED BY <1>1, <1>2, PTL

\* With a disk that does not fail a forget the memory is safe, whatever learning meets.
THEOREM AliasesAreSafe ==
  ASSUME "forget" \notin DiskFails
  PROVE  Spec => []AliasesSafe
<1>1. AliasesSafe <=> RememberedIsDurable /\ MemoryIsFile /\ ReviewerHeard
  BY DEF AliasesSafe
<1>2. Spec => []MemoryIsFile
  BY MemoryIsFileCorrect
<1>3. Spec => []ReviewerHeard
  BY ReviewerHeardCorrect
<1> QED BY <1>1, <1>2, <1>3, RememberedIsDurableCorrect, PTL


-----------------------------------------------------------------------------
(* The files of outcomes. *)

\* Saves have growing numbers, and the one in progress has written its own.
SaveInv ==
  /\ save \in [pc : {"idle", "tmp", "written", "prune"}, room : Rooms \cup {None}]
  /\ \A r \in Rooms : saved[r] # None => saved[r] <= saves
  /\ save.pc # "idle" => saves > 0
  /\ save.pc \in {"tmp", "written"} => \A r \in Rooms : saved[r] # None => saved[r] < saves
  /\ save.pc = "written" => outcomeTmp[save.room] = saves

Newest(r) == saved[r] # None /\ age[r] <= Ttl /\ Cardinality(Files!SavedAfter(r)) < MaxFiles

NewestAreKept == \A r \in Rooms : Newest(r) => outcome[r] = saved[r]

FilesInv == Files!TypeOK /\ SaveInv /\ NewestAreKept

LEMMA SameCardinality == \A S : Files!Cardinality(S) = Cardinality(S)
  BY DEF Files!Cardinality, Cardinality

LEMMA FinitelyManyRooms == IsFiniteSet(Rooms) /\ MaxFiles \in Nat \ {0} /\ MaxSaves \in Nat /\ Ttl \in Nat /\ MaxEnds \in Nat
                    /\ None \notin Nat /\ Partial \notin Nat /\ Partial # None /\ None \notin Rooms
  BY RequestsAssumption DEF Files!OutcomeFilesAssumption, Files!IsFiniteSet, IsFiniteSet

LEMMA NewerRooms ==
  ASSUME NEW S \in SUBSET Rooms, NEW T \in SUBSET S
  PROVE  /\ Cardinality(S) \in Nat /\ Cardinality(T) \in Nat /\ Cardinality(T) <= Cardinality(S)
         /\ T # S => Cardinality(T) < Cardinality(S)
<1>1. IsFiniteSet(S) /\ IsFiniteSet(T)
  BY FinitelyManyRooms, FS_Subset
<1> QED BY <1>1, FS_Subset, FS_CardinalityType

\* No file of one of the newest is doomed.
LEMMA NewestNotDoomed ==
  ASSUME FilesInv, NEW r \in Rooms, Newest(r)
  PROVE  r \notin Files!Doomed
<1> DEFINE newer == {q \in Files!Alive : outcome[q] > outcome[r]}
<1>1. outcome[r] = saved[r]
  BY DEF FilesInv, NewestAreKept
<1>2. newer \subseteq Files!SavedAfter(r)
  BY <1>1 DEF Files!Alive, Files!SavedAfter, FilesInv, Files!TypeOK
<1>3. Files!SavedAfter(r) \subseteq Rooms
  BY DEF Files!SavedAfter
<1>4. Cardinality(newer) < MaxFiles
  <2>1. Cardinality(newer) <= Cardinality(Files!SavedAfter(r)) /\ Cardinality(newer) \in Nat
        /\ Cardinality(Files!SavedAfter(r)) \in Nat
    BY <1>2, <1>3, NewerRooms
  <2> QED BY <2>1, FinitelyManyRooms DEF Newest
<1>5. age[r] \in Nat
  BY FinitelyManyRooms DEF FilesInv, Files!TypeOK
<1>6. r \notin Files!PastTime
  BY <1>5, FinitelyManyRooms DEF Files!PastTime, Newest
<1> HIDE DEF newer
<1>7. ~(Cardinality(newer) >= MaxFiles)
  <2>1. Cardinality(newer) \in Nat BY <1>2, <1>3, NewerRooms
  <2> QED BY <1>4, <2>1, FinitelyManyRooms
<1> QED BY <1>6, <1>7, SameCardinality DEF Files!Doomed, newer

\* More saves after a room's only make it an older one.
LEMMA NewestWere ==
  ASSUME NEW r \in Rooms, Newest(r)', saved[r] # None, age[r] <= Ttl, Files!SavedAfter(r) \subseteq Files!SavedAfter(r)'
  PROVE  Newest(r)
<1>1. Files!SavedAfter(r)' \subseteq Rooms
  BY DEF Files!SavedAfter
<1>2. Cardinality(Files!SavedAfter(r)) <= Cardinality(Files!SavedAfter(r)')
      /\ Cardinality(Files!SavedAfter(r)) \in Nat /\ Cardinality(Files!SavedAfter(r)') \in Nat
  BY <1>1, NewerRooms
<1>3. Cardinality(Files!SavedAfter(r)') < MaxFiles
  BY DEF Newest
<1> QED BY <1>2, <1>3, FinitelyManyRooms DEF Newest

LEMMA FilesInit == Files!Init => FilesInv
<1> SUFFICES ASSUME Files!Init PROVE FilesInv
  OBVIOUS
<1> QED BY FinitelyManyRooms
        DEF Files!Init, FilesInv, Files!TypeOK, SaveInv, NewestAreKept, Newest, Files!Idle

LEMMA FilesStep == FilesInv /\ [Files!Next]_outcomeVars => FilesInv'
<1> SUFFICES ASSUME FilesInv, [Files!Next]_outcomeVars PROVE FilesInv'
  OBVIOUS
<1> USE FinitelyManyRooms
<1>1. CASE Files!Tick
  <2>0. saved' = saved /\ outcome' = outcome /\ UNCHANGED <<outcomeTmp, save, saves, ends>>
    BY <1>1 DEF Files!Tick
  <2>1. \A r \in Rooms : age[r] \in 0 .. (Ttl + 1) /\ age'[r] \in 0 .. (Ttl + 1) /\ age[r] <= age'[r]
    BY <1>1 DEF Files!Tick, FilesInv, Files!TypeOK
  <2>2. Files!TypeOK' /\ SaveInv'
    BY <1>1, <2>0 DEF Files!Tick, FilesInv, Files!TypeOK, SaveInv
  <2>3. NewestAreKept'
    <3> SUFFICES ASSUME NEW r \in Rooms, Newest(r)' PROVE outcome'[r] = saved'[r]
      BY DEF NewestAreKept
    <3>1. saved[r] # None /\ age[r] <= Ttl
      BY <2>0, <2>1 DEF Newest
    <3>2. Files!SavedAfter(r)' = Files!SavedAfter(r)
      BY <2>0 DEF Files!SavedAfter
    <3>3. Newest(r)
      BY <3>1, <3>2, NewestWere
    <3> QED BY <2>0, <3>3 DEF FilesInv, NewestAreKept
  <2> QED BY <2>2, <2>3 DEF FilesInv
<1>2. ASSUME NEW r \in Rooms, Files!Begin(r) PROVE FilesInv'
  <2>0. UNCHANGED <<outcome, age, saved, ends>> /\ saves' = saves + 1 /\ save.pc = "idle" /\ saves < MaxSaves
        /\ save' = [pc |-> "tmp", room |-> r] /\ outcomeTmp' = [outcomeTmp EXCEPT ![r] = Partial]
    BY <1>2 DEF Files!Begin
  <2>1. Files!TypeOK'
    BY <2>0 DEF FilesInv, Files!TypeOK
  <2>2. SaveInv'
    BY <2>0 DEF FilesInv, Files!TypeOK, SaveInv
  <2>3. NewestAreKept'
    BY <2>0 DEF FilesInv, NewestAreKept, Newest, Files!SavedAfter
  <2> QED BY <2>1, <2>2, <2>3 DEF FilesInv
<1>3. CASE Files!Write
  <2>0. UNCHANGED <<outcome, age, saved, saves, ends>> /\ save.pc = "tmp" /\ save' = [save EXCEPT !.pc = "written"]
        /\ outcomeTmp' = [outcomeTmp EXCEPT ![save.room] = saves] /\ save.room \in Rooms
    BY <1>3 DEF Files!Write, FilesInv, SaveInv, Files!TypeOK
  <2>1. Files!TypeOK'
    BY <2>0 DEF FilesInv, Files!TypeOK, SaveInv
  <2>2. SaveInv'
    BY <2>0 DEF FilesInv, Files!TypeOK, SaveInv
  <2>3. NewestAreKept'
    BY <2>0 DEF FilesInv, NewestAreKept, Newest, Files!SavedAfter
  <2> QED BY <2>1, <2>2, <2>3 DEF FilesInv
<1>4. CASE Files!Replace
  <2>0. /\ save.pc = "written" /\ save' = [save EXCEPT !.pc = "prune"] /\ save.room \in Rooms
        /\ outcome' = [outcome EXCEPT ![save.room] = saves] /\ saved' = [saved EXCEPT ![save.room] = saves]
        /\ outcomeTmp' = [outcomeTmp EXCEPT ![save.room] = None] /\ age' = [age EXCEPT ![save.room] = 0]
        /\ UNCHANGED <<saves, ends>>
        /\ \A r \in Rooms : saved[r] # None => saved[r] < saves
        /\ saves \in 1 .. MaxSaves /\ saves # None
    <3>1. save.pc = "written" /\ outcomeTmp[save.room] = saves
      BY <1>4 DEF Files!Replace, FilesInv, SaveInv
    <3>2. save.room \in Rooms /\ \A r \in Rooms : saved[r] # None => saved[r] < saves
      BY <3>1 DEF FilesInv, SaveInv, Files!TypeOK
    <3>3. saves \in 1 .. MaxSaves /\ saves # None
      BY <3>1 DEF FilesInv, SaveInv, Files!TypeOK
    <3> QED BY <1>4, <3>1, <3>2, <3>3 DEF Files!Replace
  <2>1. Files!TypeOK'
    BY <2>0 DEF FilesInv, Files!TypeOK, SaveInv
  <2>2. SaveInv'
    BY <2>0 DEF FilesInv, Files!TypeOK, SaveInv
  <2>3. NewestAreKept'
    <3> SUFFICES ASSUME NEW r \in Rooms, Newest(r)', r # save.room PROVE outcome'[r] = saved'[r]
      BY <2>0 DEF NewestAreKept, FilesInv, Files!TypeOK
    <3>0. saved'[r] = saved[r] /\ age'[r] = age[r] /\ outcome'[r] = outcome[r]
      BY <2>0 DEF FilesInv, Files!TypeOK
    <3>1. saved[r] # None /\ age[r] <= Ttl
      BY <3>0 DEF Newest
    <3>2. Files!SavedAfter(r) \subseteq Files!SavedAfter(r)'
      BY <2>0, <3>0, <3>1 DEF Files!SavedAfter, FilesInv, Files!TypeOK
    <3>3. Newest(r)
      BY <3>1, <3>2, NewestWere
    <3> QED BY <3>0, <3>3 DEF FilesInv, NewestAreKept
  <2> QED BY <2>1, <2>2, <2>3 DEF FilesInv
<1>5. ASSUME NEW lost \in SUBSET Files!Doomed,
             outcome' = [r \in Rooms |-> IF r \in lost THEN None ELSE outcome[r]], save' = Files!Idle,
             UNCHANGED <<age, outcomeTmp, saved, saves>>, ends' \in 0 .. MaxEnds
      PROVE  FilesInv'
  <2>1. Files!TypeOK'
    BY <1>5 DEF FilesInv, Files!TypeOK, Files!Idle
  <2>2. SaveInv'
    BY <1>5 DEF FilesInv, Files!TypeOK, SaveInv, Files!Idle
  <2>3. NewestAreKept'
    <3> SUFFICES ASSUME NEW r \in Rooms, Newest(r)' PROVE outcome'[r] = saved'[r]
      BY DEF NewestAreKept
    <3>1. Newest(r)
      BY <1>5 DEF Newest, Files!SavedAfter
    <3>2. r \notin lost
      BY <3>1, NewestNotDoomed
    <3> QED BY <1>5, <3>1, <3>2 DEF FilesInv, NewestAreKept
  <2> QED BY <2>1, <2>2, <2>3 DEF FilesInv
<1>6. CASE Files!Prune
  <2>1. ends' \in 0 .. MaxEnds
    BY <1>6 DEF Files!Prune, FilesInv, Files!TypeOK
  <2> QED BY <1>5, <1>6, <2>1 DEF Files!Prune
<1>7. CASE Files!Crash
  <2>1. ends' \in 0 .. MaxEnds
    BY <1>7 DEF Files!Crash, FilesInv, Files!TypeOK
  <2>2. PICK lost \in SUBSET Files!Doomed : outcome' = [r \in Rooms |-> IF r \in lost THEN None ELSE outcome[r]]
    BY <1>7 DEF Files!Crash
  <2> QED BY <1>5, <1>7, <2>1, <2>2 DEF Files!Crash
<1>8. CASE UNCHANGED outcomeVars
  BY <1>8 DEF outcomeVars, FilesInv, Files!TypeOK, SaveInv, NewestAreKept, Newest, Files!SavedAfter
<1> QED BY <1>1, <1>2, <1>3, <1>4, <1>6, <1>7, <1>8 DEF Files!Next

\* Those that are left have different numbers of newer ones, all of them below MaxFiles.
LEMMA FewAreLeft ==
  ASSUME FilesInv
  PROVE  Cardinality({r \in Rooms : outcome[r] # None /\ r \notin Files!Doomed}) <= MaxFiles
<1> DEFINE left == {r \in Rooms : outcome[r] # None /\ r \notin Files!Doomed}
           newer(r) == {q \in Files!Alive : outcome[q] > outcome[r]}
           number == [r \in left |-> Cardinality(newer(r))]
<1>0. MaxFiles \in Nat
  BY FinitelyManyRooms
<1>1. \A r \in Rooms : outcome[r] # None => outcome[r] \in Nat /\ outcome[r] = saved[r] /\ age[r] \in Nat
  BY FinitelyManyRooms DEF FilesInv, Files!TypeOK
<1>2. left \subseteq Files!Alive /\ Files!Alive \subseteq Rooms
  BY <1>1, FinitelyManyRooms DEF Files!Alive, Files!Doomed, Files!PastTime
<1>3. \A r \in left : newer(r) \in SUBSET Rooms /\ Cardinality(newer(r)) \in Nat
  BY <1>2, NewerRooms
<1>4. \A r \in left : Cardinality(newer(r)) < MaxFiles
  <2>1. ASSUME NEW r \in left PROVE ~(Cardinality(newer(r)) >= MaxFiles)
    BY <1>2, SameCardinality DEF Files!Doomed
  <2> HIDE DEF newer, left
  <2> QED BY <2>1, <1>3, <1>0
<1>5. \A r, q \in left : outcome[r] < outcome[q] => Cardinality(newer(q)) < Cardinality(newer(r))
  <2> SUFFICES ASSUME NEW r \in left, NEW q \in left, outcome[r] < outcome[q]
               PROVE  Cardinality(newer(q)) < Cardinality(newer(r))
    OBVIOUS
  <2>1. newer(q) \subseteq newer(r) /\ q \in newer(r) /\ q \notin newer(q)
    BY <1>1, <1>2 DEF Files!Alive
  <2>2. newer(r) \in SUBSET Rooms
    BY <1>3
  <2> HIDE DEF newer
  <2> QED BY <2>1, <2>2, NewerRooms
<1>6. \A r, q \in left : r # q => outcome[r] < outcome[q] \/ outcome[q] < outcome[r]
  BY <1>1 DEF FilesInv, Files!TypeOK
<1> HIDE DEF newer, left
<1>7. number \in Injection(left, 0 .. (MaxFiles - 1))
  <2>1. number \in [left -> 0 .. (MaxFiles - 1)]
    BY <1>0, <1>3, <1>4
  <2>2. \A r, q \in left : number[r] = number[q] => r = q
    <3>1. \A r, q \in left : outcome[r] < outcome[q] => number[r] # number[q]
      BY <1>3, <1>5
    <3> QED BY <3>1, <1>6
  <2> QED BY <2>1, <2>2 DEF Injection, IsInjective
<1>8. IsFiniteSet(0 .. (MaxFiles - 1)) /\ Cardinality(0 .. (MaxFiles - 1)) = MaxFiles
  BY <1>0, FS_Interval
<1>9. Cardinality(left) <= MaxFiles
  BY <1>7, <1>8, FS_Injection
<1> QED BY <1>9 DEF left

LEMMA FilesCorrect == Files!Spec => []FilesInv
BY FilesInit, FilesStep, PTL DEF Files!Spec, Files!vars, outcomeVars

\* The newest outcomes are served, whatever is removed and wherever the process ended.
THEOREM NewestServed == Files!Spec => []Files!NewestAreServed
<1>1. FilesInv => Files!NewestAreServed
  <2> SUFFICES ASSUME FilesInv, NEW r \in Rooms,
                      saved[r] # None, age[r] <= Ttl, Cardinality(Files!SavedAfter(r)) < MaxFiles
               PROVE  Files!Answer(r) = "done" /\ outcome[r] = saved[r]
    BY SameCardinality DEF Files!NewestAreServed
  <2>1. outcome[r] = saved[r]
    BY DEF FilesInv, NewestAreKept, Newest
  <2>2. ~(age[r] > Ttl)
    BY FinitelyManyRooms DEF FilesInv, Files!TypeOK
  <2> QED BY <2>1, <2>2 DEF Files!Answer
<1> QED BY <1>1, FilesCorrect, PTL

\* The directory does not grow.
THEOREM DirectoryStaysBounded == Files!Spec => Files!DirectoryIsBounded
<1>1. FilesInv /\ [Files!Next]_Files!vars
        => [Files!Prune => Files!Cardinality({r \in Rooms : outcome'[r] # None}) <= MaxFiles]_Files!vars
  <2> SUFFICES ASSUME FilesInv, Files!Prune
               PROVE  Files!Cardinality({r \in Rooms : outcome'[r] # None}) <= MaxFiles
    OBVIOUS
  <2>1. {r \in Rooms : outcome'[r] # None} = {r \in Rooms : outcome[r] # None /\ r \notin Files!Doomed}
    BY DEF Files!Prune
  <2> QED BY <2>1, FewAreLeft, SameCardinality
<1>2. Files!Init => FilesInv
  BY FilesInit
<1>3. FilesInv /\ [Files!Next]_Files!vars => FilesInv'
  BY FilesStep DEF Files!vars, outcomeVars
<1> QED BY <1>1, <1>2, <1>3, PTL DEF Files!Spec, Files!DirectoryIsBounded


-----------------------------------------------------------------------------
(* The import of the places. *)

ImportRows == UNION {Import!ToSet(content) : content \in GovernorateFiles \cup DistrictFiles}
DistrictRows == [company : Companies, code : {row.code : row \in ImportRows}, name : {row.name : row \in ImportRows}]
Datas == [states : SUBSET ImportRows, rows : SUBSET DistrictRows]
Imports == [pc : Import!Stages, pairs : SUBSET Companies, left : SUBSET Companies, states : SUBSET ImportRows,
            file : Import!Inodes \cup {None}, rows : SUBSET DistrictRows, ok : BOOLEAN, blind : BOOLEAN]

ImportTypes ==
  /\ book \in [Import!Files -> GovernorateFiles \cup DistrictFiles \cup {Missing, Broken}]
  /\ db \in Import!Inodes \cup {None} /\ dbTmp \in Import!Inodes \cup {None}
  /\ store \in [Import!Inodes -> [data : Datas, newer : SUBSET Import!Files, blind : BOOLEAN]]
  /\ imp \in [Import!Importers -> Imports]
  /\ touched \in BOOLEAN /\ edits \in 0 .. MaxEdits /\ crashes \in 0 .. MaxKills

\* One imports at a time.
OneImports == \A p, q \in Import!Importers : Import!Importing(p) /\ Import!Importing(q) => p = q

\* What is built is the file that has the temporary name.
NamesOf(p) ==
  LET r == imp[p]
  IN  /\ r.pc \in {"build", "commit"} => r.file = dbTmp /\ r.file # None
      /\ r.pc \notin {"build", "commit"} => r.file = None
      /\ r.pc = "replace" => dbTmp # None
      /\ r.pc = "load" \/ (r.pc = "finally" /\ r.ok) => db # None
      /\ r.pc \in {"gov", "clean", "connect", "build", "commit"} => ~r.ok
      /\ r.left \subseteq r.pairs
      /\ p = Cli => r.pc \notin {"load", "up"}

NamesApart == (db # None => db # dbTmp) /\ \A p \in Import!Importers : NamesOf(p)

\* Governorates, each defined once, and districts of them.
Whole(ss, ds) ==
  /\ ss # {} /\ \A s, t \in ss : s.code = t.code => s = t
  /\ \A d \in ds : \E s \in ss : s.code = d.code

WholeOf(p) ==
  /\ imp[p].pc \in {"clean", "connect", "build", "commit"} => Whole(imp[p].states, imp[p].rows)
  /\ imp[p].pc = "replace" => Whole(store[dbTmp].data.states, store[dbTmp].data.rows)
  /\ imp[p].pc \in {"gov", "clean", "connect"} => imp[p].rows = {}

FilesAreWhole ==
  /\ db # None => Whole(store[db].data.states, store[db].data.rows)
  /\ \A p \in Import!Importers : WholeOf(p)

\* What has been read of the workbooks of the companies `cs`.
StatesOf(cs) == {row \in UNION {Import!ToSet(book[<<"gov", c>>]) : c \in cs} : Blank \notin {row.code, row.name}}
RowsOf(ss, cs) == UNION {Import!Accepted(ss, c, book[<<"cities", c>>]) : c \in cs}
GovRead(cs) == \A c \in cs : book[<<"gov", c>>] \notin {Missing, Broken}
CitiesRead(cs) == \A c \in cs : book[<<"cities", c>>] # Broken

\* An import that saw no edit has what the workbooks say, as far as it has read them.
RightOf(r) ==
  ~r.blind =>
    /\ r.pc \in {"gov", "clean", "connect", "build", "commit"} => r.pairs = Import!Listed /\ r.pairs # {}
    /\ r.pc = "gov" => r.states = StatesOf(r.pairs \ r.left) /\ GovRead(r.pairs \ r.left)
    /\ r.pc \in {"clean", "connect", "build", "commit"} => r.states = StatesOf(r.pairs) /\ GovRead(r.pairs)
    /\ r.pc \in {"clean", "connect"} => r.left = r.pairs
    /\ r.pc \in {"build", "commit"} => r.rows = RowsOf(r.states, r.pairs \ r.left) /\ CitiesRead(r.pairs \ r.left)
    /\ r.pc = "commit" => r.left = {}

ReadRight == \A p \in Import!Importers : Import!Importing(p) => RightOf(imp[p])

\* A file that is newer than every workbook says what they say, unless an edit could not be seen.
FileCurrent(f) == f.newer = {} /\ ~f.blind => Import!Good /\ f.data = Import!Current

FilesAreCurrent ==
  /\ db # None => FileCurrent(store[db])
  /\ \A p \in Import!Importers : imp[p].pc = "replace" =>
       FileCurrent(store[dbTmp]) /\ (db # None => store[dbTmp].newer \subseteq store[db].newer)

\* The file a server is about to load is newer than every workbook, unless one changed since the start.
LoadsNewest ==
  ~touched =>
    /\ imp[Server].pc = "replace" => store[dbTmp].newer = {}
    /\ imp[Server].pc = "load" \/ (imp[Server].pc = "finally" /\ imp[Server].ok) => store[db].newer = {}

ServedRight ==
  /\ served # None => imp[Server].pc = "up"
  /\ Import!ServedIsCurrent

ImportInv ==
  ImportTypes /\ OneImports /\ NamesApart /\ FilesAreWhole /\ ReadRight /\ FilesAreCurrent /\ LoadsNewest /\ ServedRight

-----------------------------------------------------------------------------
LEMMA ImportConstants ==
  /\ MaxEdits \in Nat /\ MaxKills \in Nat /\ None \notin Nat /\ Server # Cli
  /\ Missing \notin GovernorateFiles \cup DistrictFiles /\ Broken \notin GovernorateFiles \cup DistrictFiles
  /\ Server \in Import!Importers /\ \A p \in Import!Importers : p \in {Server, Cli}
  /\ None \notin Import!Inodes /\ Missing # Broken
  BY RequestsAssumption DEF Import!ImportAssumption, Import!Importers, Import!Inodes

LEMMA RestIsImport ==
  /\ Import!Idle \in Imports /\ [Import!Idle EXCEPT !.pc = "up"] \in Imports
  /\ [Import!Idle EXCEPT !.pc = "load"] \in Imports
  BY DEF Import!Idle, Imports, Import!Stages

\* While one imports, the others rest.
LEMMA OthersRest ==
  ASSUME ImportInv, NEW p \in Import!Importers, Import!Importing(p), NEW q \in Import!Importers, q # p
  PROVE  imp[q].pc \in {"idle", "load", "up"}
  BY DEF ImportInv, OneImports, Import!Importing

\* Workbooks that stay as they are are read the same.
LEMMA SameBooks ==
  ASSUME book' = book
  PROVE  /\ \A r : RightOf(r)' <=> RightOf(r)
         /\ \A f : FileCurrent(f)' <=> FileCurrent(f)
         /\ Import!Good' <=> Import!Good
         /\ Import!Current' = Import!Current
<1>1. Import!Listed' = Import!Listed
  BY DEF Import!Listed
<1>2. Import!Known' = Import!Known
  BY <1>1 DEF Import!Known
<1>3. Import!Good' <=> Import!Good
  BY <1>1, <1>2 DEF Import!Good
<1>4. Import!Current' = Import!Current
  BY <1>1, <1>2 DEF Import!Current
<1>5. ASSUME NEW f PROVE FileCurrent(f)' <=> FileCurrent(f)
  BY <1>3, <1>4 DEF FileCurrent
<1>6. ASSUME NEW r PROVE RightOf(r)' <=> RightOf(r)
  BY <1>1 DEF RightOf, StatesOf, RowsOf, GovRead, CitiesRead
<1> QED BY <1>3, <1>4, <1>5, <1>6

\* An import comes to its end, without a new file.
LEMMA Rests ==
  ASSUME ImportInv, NEW p \in Import!Importers, NEW r \in {Import!Idle, [Import!Idle EXCEPT !.pc = "up"]},
         imp' = [imp EXCEPT ![p] = r], p = Cli => r = Import!Idle,
         UNCHANGED <<book, db, store>>,
         dbTmp' = dbTmp \/ (dbTmp' = None /\ Import!Importing(p)),
         edits' \in 0 .. MaxEdits, crashes' \in 0 .. MaxKills,
         touched' \in BOOLEAN, touched' = touched \/ p = Server,
         served' = None \/ (served' = served /\ touched' = touched /\ (p = Server => imp[p].pc # "up"))
  PROVE  ImportInv'
<1>0. /\ imp \in [Import!Importers -> Imports]
      /\ imp'[p] = r /\ \A q \in Import!Importers \ {p} : imp'[q] = imp[q]
      /\ r \in Imports /\ r.pc \in {"idle", "up"} /\ r.left = {} /\ r.pairs = {} /\ r.file = None
      /\ r.pc = "up" => p # Cli
  <2>1. imp \in [Import!Importers -> Imports]
    BY DEF ImportInv, ImportTypes
  <2>2. /\ r \in Imports /\ r.pc \in {"idle", "up"} /\ r.left = {} /\ r.pairs = {} /\ r.file = None
        /\ r = Import!Idle => r.pc = "idle"
    <3>1. CASE r = Import!Idle
      BY <3>1, RestIsImport DEF Import!Idle
    <3>2. CASE r = [Import!Idle EXCEPT !.pc = "up"]
      <4>1. r.pc = "up" /\ r.left = {} /\ r.pairs = {} /\ r.file = None /\ Import!Idle.pc = "idle"
        BY <3>2 DEF Import!Idle
      <4> QED BY <3>2, <4>1, RestIsImport
    <3> QED BY <3>1, <3>2
  <2> QED BY <2>1, <2>2
<1>d. dbTmp' # dbTmp => dbTmp' = None /\ \A q \in Import!Importers \ {p} : imp[q].pc \in {"idle", "load", "up"}
  BY OthersRest
<1>1. ImportTypes'
  BY <1>0 DEF ImportInv, ImportTypes
<1>2. OneImports'
  BY <1>0 DEF ImportInv, OneImports, Import!Importing
<1>3. NamesApart'
  <2>1. db' # None => db' # dbTmp'
    BY <1>d DEF ImportInv, NamesApart
  <2>2. ASSUME NEW q \in Import!Importers PROVE NamesOf(q)'
    BY <1>0, <1>d DEF ImportInv, NamesApart, NamesOf
  <2> QED BY <2>1, <2>2 DEF NamesApart
<1>4. FilesAreWhole'
  <2>1. ASSUME NEW q \in Import!Importers PROVE WholeOf(q)'
    BY <1>0, <1>d DEF ImportInv, FilesAreWhole, WholeOf
  <2> QED BY <2>1 DEF ImportInv, FilesAreWhole
<1>5. ReadRight'
  <2>1. ASSUME NEW q \in Import!Importers, Import!Importing(q)' PROVE q # p /\ Import!Importing(q)
    BY <1>0, <2>1 DEF Import!Importing
  <2> QED BY <1>0, <2>1, SameBooks DEF ImportInv, ReadRight
<1>6. FilesAreCurrent'
  <2>1. db' # None => FileCurrent(store[db])'
    BY SameBooks DEF ImportInv, FilesAreCurrent
  <2>2. ASSUME NEW q \in Import!Importers, imp'[q].pc = "replace" PROVE q # p /\ imp[q].pc = "replace" /\ dbTmp' = dbTmp
    BY <1>0, <1>d, <2>2
  <2> QED BY <2>1, <2>2, SameBooks DEF ImportInv, FilesAreCurrent
<1>7. LoadsNewest'
  BY <1>0, <1>d, ImportConstants DEF ImportInv, LoadsNewest
<1>8. ServedRight'
  BY <1>0, SameBooks, ImportConstants, Zenon DEF ImportInv, ServedRight, Import!ServedIsCurrent
<1> QED BY <1>1, <1>2, <1>3, <1>4, <1>5, <1>6, <1>7, <1>8 DEF ImportInv

LEMMA ImportInit == Import!Init => ImportInv
<1> SUFFICES ASSUME Import!Init PROVE ImportInv
  OBVIOUS
<1> USE ImportConstants
<1>1. ImportTypes
  <2>1. book \in [Import!Files -> GovernorateFiles \cup DistrictFiles \cup {Missing, Broken}]
    BY DEF Import!Init
  <2>2. Import!Empty \in Datas
    BY DEF Import!Empty, Datas
  <2>3. store \in [Import!Inodes -> [data : Datas, newer : SUBSET Import!Files, blind : BOOLEAN]]
    BY <2>2 DEF Import!Init
  <2>4. imp \in [Import!Importers -> Imports]
    BY RestIsImport DEF Import!Init
  <2>5. db = None /\ dbTmp = None /\ touched = FALSE /\ edits = 0 /\ crashes = 0
    BY DEF Import!Init
  <2>6. edits \in 0 .. MaxEdits /\ crashes \in 0 .. MaxKills
    BY <2>5
  <2> QED BY <2>1, <2>3, <2>4, <2>5, <2>6 DEF ImportTypes
<1>2. \A p \in Import!Importers : imp[p] = Import!Idle
  BY DEF Import!Init
<1>3. OneImports /\ NamesApart /\ FilesAreWhole /\ ReadRight
  BY <1>2 DEF Import!Init, Import!Idle, OneImports, NamesApart, NamesOf, FilesAreWhole, WholeOf, ReadRight, Import!Importing
<1>4. FilesAreCurrent /\ LoadsNewest /\ ServedRight
  BY <1>2 DEF Import!Init, Import!Idle, FilesAreCurrent, LoadsNewest, ServedRight, Import!ServedIsCurrent
<1> QED BY <1>1, <1>3, <1>4 DEF ImportInv

\* A change of a workbook: files are older than it, or blind, and imports did not see it.
LEMMA EditStep ==
  ASSUME ImportInv, NEW f \in Import!Files, NEW content \in GovernorateFiles \cup DistrictFiles \cup {Missing, Broken},
         Import!Edit(f, content)
  PROVE  ImportInv'
<1> USE ImportConstants
<1>0. /\ UNCHANGED <<db, dbTmp, served, crashes>> /\ touched' = TRUE /\ edits' = edits + 1 /\ edits < MaxEdits
      /\ book' = [book EXCEPT ![f] = content]
  BY DEF Import!Edit
<1>1. /\ imp \in [Import!Importers -> Imports] /\ imp' \in [Import!Importers -> Imports]
      /\ \A p \in Import!Importers : /\ imp'[p] = [imp[p] EXCEPT !.blind = @ \/ Import!Importing(p)]
                                     /\ Import!Importing(p) => imp'[p].blind
  BY DEF Import!Edit, ImportInv, ImportTypes, Imports
<1>2. /\ store \in [Import!Inodes -> [data : Datas, newer : SUBSET Import!Files, blind : BOOLEAN]]
      /\ store' \in [Import!Inodes -> [data : Datas, newer : SUBSET Import!Files, blind : BOOLEAN]]
      /\ \A i \in Import!Inodes : store'[i].data = store[i].data /\ (store'[i].newer # {} \/ store'[i].blind)
      /\ \A i, j \in Import!Inodes : store[i].newer \subseteq store[j].newer => store'[i].newer \subseteq store'[j].newer
  <2>1. /\ store \in [Import!Inodes -> [data : Datas, newer : SUBSET Import!Files, blind : BOOLEAN]]
        /\ store' = [i \in Import!Inodes |->
                       IF content = Missing THEN [store[i] EXCEPT !.newer = @ \ {f}, !.blind = TRUE]
                       ELSE [store[i] EXCEPT !.newer = @ \cup {f}]]
    BY DEF Import!Edit, ImportInv, ImportTypes
  <2>2. CASE content = Missing
    BY <2>1, <2>2
  <2>3. CASE content # Missing
    BY <2>1, <2>3
  <2> QED BY <2>2, <2>3
<1>3. \A p \in Import!Importers :
        /\ imp'[p].pc = imp[p].pc /\ imp'[p].pairs = imp[p].pairs /\ imp'[p].left = imp[p].left
        /\ imp'[p].states = imp[p].states /\ imp'[p].rows = imp[p].rows /\ imp'[p].file = imp[p].file
        /\ imp'[p].ok = imp[p].ok
  BY <1>1 DEF Imports
<1>4. ImportTypes'
  BY <1>0, <1>1, <1>2 DEF ImportInv, ImportTypes
<1>5. OneImports'
  BY <1>3 DEF ImportInv, OneImports, Import!Importing
<1>6. NamesApart'
  <2>1. ASSUME NEW p \in Import!Importers PROVE NamesOf(p)'
    BY <1>0, <1>3 DEF ImportInv, NamesApart, NamesOf
  <2> QED BY <1>0, <2>1 DEF ImportInv, NamesApart
<1>i. db # None => db \in Import!Inodes
  BY DEF ImportInv, ImportTypes
<1>j. \A p \in Import!Importers : imp[p].pc = "replace" => dbTmp \in Import!Inodes
  BY DEF ImportInv, ImportTypes, NamesApart, NamesOf
<1>7. FilesAreWhole'
  <2>1. ASSUME NEW p \in Import!Importers PROVE WholeOf(p)'
    BY <1>0, <1>2, <1>3, <1>j DEF ImportInv, FilesAreWhole, WholeOf
  <2> QED BY <1>0, <1>2, <1>i, <2>1 DEF ImportInv, FilesAreWhole
<1>8. ReadRight'
  BY <1>1, <1>3 DEF ReadRight, RightOf, Import!Importing
<1>9. FilesAreCurrent'
  BY <1>0, <1>2, <1>3, <1>i, <1>j DEF ImportInv, FilesAreCurrent, FileCurrent
<1>10. LoadsNewest'
  BY <1>0 DEF LoadsNewest
<1>11. ServedRight'
  BY <1>0, <1>3 DEF ImportInv, ServedRight, Import!ServedIsCurrent
<1> QED BY <1>4, <1>5, <1>6, <1>7, <1>8, <1>9, <1>10, <1>11 DEF ImportInv

\* An import has come as far as `r`; the files are as they were.
LEMMA Proceeds ==
  ASSUME ImportInv, NEW p \in Import!Importers, Import!Importing(p),
         NEW r \in Imports, r.pc \in {"gov", "clean", "build", "commit", "finally"}, ~r.ok,
         imp' = [imp EXCEPT ![p] = r],
         UNCHANGED <<book, db, dbTmp, store, served, touched, edits, crashes>>,
         r.left \subseteq r.pairs,
         IF r.pc \in {"build", "commit"} THEN r.file = dbTmp /\ r.file # None ELSE r.file = None,
         r.pc \in {"clean", "build", "commit"} => Whole(r.states, r.rows),
         r.pc \in {"gov", "clean"} => r.rows = {},
         RightOf(r)
  PROVE  ImportInv'
<1>0. /\ imp \in [Import!Importers -> Imports]
      /\ imp'[p] = r /\ \A q \in Import!Importers \ {p} : imp'[q] = imp[q]
  BY DEF ImportInv, ImportTypes
<1>d. \A q \in Import!Importers \ {p} : imp[q].pc \in {"idle", "load", "up"}
  BY OthersRest
<1>1. ImportTypes'
  BY <1>0 DEF ImportInv, ImportTypes
<1>2. OneImports'
  BY <1>0 DEF ImportInv, OneImports, Import!Importing
<1>3. NamesApart'
  <2>1. ASSUME NEW q \in Import!Importers PROVE NamesOf(q)'
    BY <1>0, <1>d DEF ImportInv, NamesApart, NamesOf
  <2> QED BY <2>1 DEF ImportInv, NamesApart
<1>4. FilesAreWhole'
  <2>1. ASSUME NEW q \in Import!Importers PROVE WholeOf(q)'
    BY <1>0, <1>d DEF ImportInv, FilesAreWhole, WholeOf
  <2> QED BY <2>1 DEF ImportInv, FilesAreWhole
<1>5. ReadRight'
  BY <1>0, SameBooks DEF ImportInv, ReadRight, Import!Importing
<1>6. FilesAreCurrent'
  BY <1>0, SameBooks DEF ImportInv, FilesAreCurrent
<1>7. LoadsNewest'
  BY <1>0, ImportConstants DEF ImportInv, LoadsNewest
<1>8. ServedRight'
  BY <1>0, SameBooks, ImportConstants DEF ImportInv, ServedRight, Import!ServedIsCurrent, Import!Importing
<1> QED BY <1>1, <1>2, <1>3, <1>4, <1>5, <1>6, <1>7, <1>8 DEF ImportInv

-----------------------------------------------------------------------------
(* Reading the governorates. *)

LEMMA CompleteRows ==
  ASSUME ImportTypes, NEW c \in Companies
  PROVE  /\ book[<<"gov", c>>] \notin {Missing, Broken} => Import!Complete(book[<<"gov", c>>]) \in SUBSET ImportRows
         /\ book[<<"cities", c>>] \notin {Missing, Broken} =>
              \A row \in Import!ToSet(book[<<"cities", c>>]) : row \in ImportRows
<1>1. <<"gov", c>> \in Import!Files /\ <<"cities", c>> \in Import!Files
  BY DEF Import!Files
<1>2. \A content \in GovernorateFiles \cup DistrictFiles : Import!ToSet(content) \subseteq ImportRows
  BY DEF ImportRows
<1> QED BY <1>1, <1>2 DEF ImportTypes, Import!Complete

LEMMA OneMoreRead ==
  ASSUME NEW c, NEW cs
  PROVE  /\ StatesOf(cs \cup {c}) = StatesOf(cs) \cup Import!Complete(book[<<"gov", c>>])
         /\ \A ss : RowsOf(ss, cs \cup {c}) = RowsOf(ss, cs) \cup Import!Accepted(ss, c, book[<<"cities", c>>])
<1>1. StatesOf(cs \cup {c}) = StatesOf(cs) \cup Import!Complete(book[<<"gov", c>>])
  BY DEF StatesOf, Import!Complete
<1>2. \A ss : RowsOf(ss, cs \cup {c}) = RowsOf(ss, cs) \cup Import!Accepted(ss, c, book[<<"cities", c>>])
  BY DEF RowsOf
<1> QED BY <1>1, <1>2

LEMMA ReadGovStep ==
  ASSUME ImportInv, NEW p \in Import!Importers, NEW c \in Companies, Import!ReadGov(p, c)
  PROVE  ImportInv'
<1> DEFINE r == imp[p]
           content == book[<<"gov", c>>]
           states == r.states \cup Import!Complete(content)
           left == r.left \ {c}
<1> USE ImportConstants
<1>0. /\ r.pc = "gov" /\ c \in r.left
      /\ UNCHANGED <<book, db, dbTmp, store, served, touched, edits, crashes>>
  BY DEF Import!ReadGov, Import!IsNext, Import!disk
<1>1. imp \in [Import!Importers -> Imports] /\ r \in Imports /\ Import!Importing(p) /\ ImportTypes
      /\ edits \in 0 .. MaxEdits /\ crashes \in 0 .. MaxKills /\ touched \in BOOLEAN
  BY <1>0 DEF ImportInv, ImportTypes, Import!Importing
<1>2. /\ r.file = None /\ ~r.ok /\ r.left \subseteq r.pairs /\ r.rows = {}
      /\ r.pairs \in SUBSET Companies /\ r.blind \in BOOLEAN
      /\ RightOf(r)
  BY <1>0, <1>1 DEF ImportInv, NamesApart, NamesOf, FilesAreWhole, WholeOf, ReadRight, Imports
<1>3. CASE Import!Fails(p)
  <2>1. PICK s \in {Import!Idle, [Import!Idle EXCEPT !.pc = "up"]} :
          imp' = [imp EXCEPT ![p] = s] /\ (p = Cli => s = Import!Idle)
    BY <1>3 DEF Import!Fails, Import!Set
  <2> QED BY <1>0, <1>1, <2>1, Rests
<1>4. CASE content \notin {Missing, Broken} /\ ~Import!Fails(p)
  <2>1. states \in SUBSET ImportRows
    BY <1>1, <1>4, CompleteRows DEF Imports
  <2>2. r.pairs \ left = (r.pairs \ r.left) \cup {c}
    BY <1>0, <1>2
  <2>3. ~r.blind => /\ r.pairs = Import!Listed /\ r.pairs # {}
                    /\ states = StatesOf(r.pairs \ left) /\ GovRead(r.pairs \ left)
    <3>1. StatesOf(r.pairs \ left) = StatesOf(r.pairs \ r.left) \cup Import!Complete(content)
      BY <2>2, OneMoreRead
    <3> QED BY <1>0, <1>2, <1>4, <2>2, <3>1 DEF RightOf, GovRead
  <2>4. CASE left # {}
    <3> DEFINE n == [r EXCEPT !.states = states, !.left = left]
    <3>1. imp' = [imp EXCEPT ![p] = n]
      BY <1>4, <2>4 DEF Import!ReadGov, Import!Set
    <3>2. n \in Imports /\ n.pc = "gov" /\ n.left = left /\ n.states = states /\ n.pairs = r.pairs
          /\ n.blind = r.blind /\ n.file = None /\ ~n.ok /\ n.rows = {}
      BY <1>0, <1>1, <1>2, <2>1 DEF Imports
    <3> HIDE DEF n
    <3>3. RightOf(n)
      BY <2>3, <3>2 DEF RightOf
    <3> QED BY <1>0, <1>1, <1>2, <3>1, <3>2, <3>3, Proceeds
  <2>5. CASE left = {}
    <3> DEFINE n == [r EXCEPT !.pc = "clean", !.states = states, !.left = r.pairs]
    <3>1. imp' = [imp EXCEPT ![p] = n] /\ Import!Agree(states) /\ states # {}
      BY <1>4, <2>5 DEF Import!ReadGov, Import!Set
    <3>2. n \in Imports /\ n.pc = "clean" /\ n.left = r.pairs /\ n.states = states /\ n.pairs = r.pairs
          /\ n.blind = r.blind /\ n.file = None /\ ~n.ok /\ n.rows = {}
      BY <1>0, <1>1, <1>2, <2>1 DEF Imports, Import!Stages
    <3>3. Whole(states, {})
      BY <3>1 DEF Whole, Import!Agree
    <3>4. r.pairs \ left = r.pairs
      BY <2>5
    <3> HIDE DEF n, left, states
    <3>5. RightOf(n)
      BY <2>3, <3>2, <3>4 DEF RightOf
    <3> QED BY <1>0, <1>1, <1>2, <3>1, <3>2, <3>3, <3>5, Proceeds
  <2> QED BY <2>4, <2>5
<1> QED BY <1>3, <1>4 DEF Import!ReadGov

-----------------------------------------------------------------------------
(* The new file. *)

\* An import ends where it is written.
LEMMA FailsRest ==
  ASSUME NEW p \in Import!Importers, Import!Fails(p)
  PROVE  \E s \in {Import!Idle, [Import!Idle EXCEPT !.pc = "up"]} :
           imp' = [imp EXCEPT ![p] = s] /\ (p = Cli => s = Import!Idle)
  BY DEF Import!Fails, Import!Set

\* The old file of the temporary name goes, or stays until a new one is made.
LEMMA CleanStep ==
  ASSUME ImportInv, NEW p \in Import!Importers, Import!Clean(p)
  PROVE  ImportInv'
<1> DEFINE n == [imp[p] EXCEPT !.pc = "connect"]
<1> USE ImportConstants
<1>0. /\ imp[p].pc = "clean" /\ dbTmp' = None /\ imp' = [imp EXCEPT ![p] = n]
      /\ UNCHANGED <<book, db, store, served, touched, edits, crashes>>
  BY DEF Import!Clean, Import!Set
<1>1. imp \in [Import!Importers -> Imports] /\ Import!Importing(p)
  BY <1>0 DEF ImportInv, ImportTypes, Import!Importing
<1>2. /\ n \in Imports /\ n.pc = "connect" /\ n.left = imp[p].left /\ n.pairs = imp[p].pairs /\ n.states = imp[p].states
      /\ n.rows = imp[p].rows /\ n.file = imp[p].file /\ n.ok = imp[p].ok /\ n.blind = imp[p].blind
  BY <1>1 DEF Imports, Import!Stages
<1>3. imp'[p] = n /\ \A q \in Import!Importers \ {p} : imp'[q] = imp[q] /\ imp[q].pc \in {"idle", "load", "up"}
  BY <1>0, <1>1, OthersRest
<1> HIDE DEF n
<1>4. ImportTypes'
  BY <1>0, <1>1, <1>2, <1>3 DEF ImportInv, ImportTypes
<1>5. OneImports'
  BY <1>1, <1>3 DEF ImportInv, OneImports, Import!Importing
<1>6. NamesApart'
  <2>1. ASSUME NEW q \in Import!Importers PROVE NamesOf(q)'
    BY <1>0, <1>2, <1>3 DEF ImportInv, NamesApart, NamesOf
  <2> QED BY <1>0, <2>1 DEF NamesApart
<1>7. FilesAreWhole'
  <2>1. ASSUME NEW q \in Import!Importers PROVE WholeOf(q)'
    BY <1>0, <1>2, <1>3 DEF ImportInv, FilesAreWhole, WholeOf
  <2> QED BY <1>0, <2>1 DEF ImportInv, FilesAreWhole
<1>8. ReadRight'
  <2>1. RightOf(imp[p])
    BY <1>1 DEF ImportInv, ReadRight
  <2>2. RightOf(n)
    BY <1>0, <1>2, <2>1 DEF RightOf
  <2> QED BY <1>0, <1>3, <2>2, SameBooks DEF ReadRight, Import!Importing
<1>9. FilesAreCurrent'
  BY <1>0, <1>2, <1>3, SameBooks DEF ImportInv, FilesAreCurrent
<1>10. LoadsNewest'
  BY <1>0, <1>2, <1>3 DEF ImportInv, LoadsNewest
<1>11. ServedRight'
  BY <1>0, <1>2, <1>3, SameBooks DEF ImportInv, ServedRight, Import!ServedIsCurrent
<1> QED BY <1>4, <1>5, <1>6, <1>7, <1>8, <1>9, <1>10, <1>11 DEF ImportInv

\* What is not of the two names may be written.
LEMMA ConnectStep ==
  ASSUME ImportInv, NEW p \in Import!Importers, Import!Connect(p)
  PROVE  ImportInv'
<1> USE ImportConstants
<1>1. imp[p].pc = "connect" /\ imp \in [Import!Importers -> Imports] /\ Import!Importing(p)
      /\ edits \in 0 .. MaxEdits /\ crashes \in 0 .. MaxKills /\ touched \in BOOLEAN
  BY DEF Import!Connect, ImportInv, ImportTypes, Import!Importing
<1>a. UNCHANGED <<book, served, touched, edits, crashes>>
  BY DEF Import!Connect
<1>b. /\ imp[p].file = None /\ ~imp[p].ok /\ imp[p].left \subseteq imp[p].pairs /\ imp[p].rows = {}
      /\ Whole(imp[p].states, imp[p].rows) /\ RightOf(imp[p])
  BY <1>1 DEF ImportInv, NamesApart, NamesOf, FilesAreWhole, WholeOf, ReadRight
<1>2. CASE dbTmp # None
  <2> DEFINE n == [imp[p] EXCEPT !.pc = "finally"]
  <2>1. imp' = [imp EXCEPT ![p] = n] /\ UNCHANGED <<db, dbTmp, store>>
    BY <1>2 DEF Import!Connect, Import!Set, Import!disk
  <2>2. /\ n \in Imports /\ n.pc = "finally" /\ n.left = imp[p].left /\ n.pairs = imp[p].pairs
        /\ n.file = None /\ ~n.ok
    BY <1>1, <1>b DEF Imports, Import!Stages
  <2> HIDE DEF n
  <2>3. RightOf(n)
    BY <2>2 DEF RightOf
  <2> QED BY <1>1, <1>a, <1>b, <2>1, <2>2, <2>3, Proceeds
<1>3. CASE dbTmp = None
  <2>1. PICK i \in Import!Fresh :
          /\ dbTmp' = i /\ imp' = [imp EXCEPT ![p] = [imp[p] EXCEPT !.pc = "build", !.file = i]]
          /\ store' = [store EXCEPT ![i] = [data |-> Import!Empty, newer |-> {}, blind |-> FALSE]] /\ db' = db
    BY <1>3 DEF Import!Connect, Import!Set
  <2> DEFINE n == [imp[p] EXCEPT !.pc = "build", !.file = i]
  <2>2. i \in Import!Inodes /\ i # db /\ i # None
    BY DEF Import!Fresh, Import!Used
  <2>3. /\ n \in Imports /\ n.pc = "build" /\ n.left = imp[p].left /\ n.pairs = imp[p].pairs /\ n.states = imp[p].states
        /\ n.rows = {} /\ n.file = i /\ ~n.ok /\ n.blind = imp[p].blind
    BY <1>1, <1>b, <2>2 DEF Imports, Import!Stages
  <2>4. imp' = [imp EXCEPT ![p] = n]
    BY <2>1
  <2> HIDE DEF n
  <2>5. imp'[p] = n /\ \A q \in Import!Importers \ {p} : imp'[q] = imp[q] /\ imp[q].pc \in {"idle", "load", "up"}
    BY <1>1, <2>4, OthersRest
  <2>6. /\ store' \in [Import!Inodes -> [data : Datas, newer : SUBSET Import!Files, blind : BOOLEAN]]
        /\ \A j \in Import!Inodes \ {i} : store'[j] = store[j]
    <3>1. [data |-> Import!Empty, newer |-> {}, blind |-> FALSE]
            \in [data : Datas, newer : SUBSET Import!Files, blind : BOOLEAN]
      BY DEF Import!Empty, Datas
    <3> QED BY <2>1, <2>2, <3>1 DEF ImportInv, ImportTypes
  <2>7. db # None => db \in Import!Inodes \ {i}
    BY <2>2 DEF ImportInv, ImportTypes
  <2>8. ImportTypes'
    BY <1>1, <1>a, <2>1, <2>2, <2>3, <2>4, <2>6 DEF ImportInv, ImportTypes
  <2>9. OneImports'
    BY <1>1, <2>5 DEF ImportInv, OneImports, Import!Importing
  <2>10. NamesApart'
    <3>1. ASSUME NEW q \in Import!Importers PROVE NamesOf(q)'
      BY <1>b, <2>1, <2>2, <2>3, <2>5 DEF ImportInv, NamesApart, NamesOf
    <3> QED BY <2>1, <2>2, <3>1 DEF NamesApart
  <2>11. FilesAreWhole'
    <3>1. ASSUME NEW q \in Import!Importers PROVE WholeOf(q)'
      BY <1>b, <2>3, <2>5 DEF WholeOf
    <3> QED BY <2>1, <2>6, <2>7, <3>1 DEF ImportInv, FilesAreWhole
  <2>12. ReadRight'
    <3>1. (RowsOf(n.states, n.pairs \ n.left) = {} /\ CitiesRead(n.pairs \ n.left)) \/ n.blind
      <4>1. ~n.blind => n.pairs \ n.left = {}
        BY <1>1, <1>b, <2>3 DEF RightOf
      <4>2. RowsOf(n.states, {}) = {} /\ CitiesRead({})
        BY DEF RowsOf, CitiesRead
      <4>3. n.blind \in BOOLEAN
        BY <2>3 DEF Imports
      <4> QED BY <4>1, <4>2, <4>3
    <3>2. RightOf(n)
      BY <1>1, <1>b, <2>3, <3>1 DEF RightOf
    <3> QED BY <1>a, <2>5, <3>2, SameBooks DEF ReadRight, Import!Importing
  <2>13. FilesAreCurrent'
    BY <1>a, <2>1, <2>3, <2>5, <2>6, <2>7, SameBooks DEF ImportInv, FilesAreCurrent
  <2>14. LoadsNewest'
    <3>1. imp'[Server].pc # "replace" /\ imp'[Server].pc # "finally"
      BY <2>3, <2>5
    <3>2. imp'[Server].pc = "load" => imp[Server].pc = "load" /\ db # None
      BY <2>3, <2>5 DEF ImportInv, NamesApart, NamesOf
    <3> QED BY <1>a, <2>1, <2>6, <2>7, <3>1, <3>2 DEF ImportInv, LoadsNewest
  <2>15. ServedRight'
    <3>1. imp[Server].pc = "up" => imp'[Server] = imp[Server]
      BY <1>1, <2>5
    <3> QED BY <1>a, <3>1, SameBooks DEF ImportInv, ServedRight, Import!ServedIsCurrent
  <2> QED BY <2>8, <2>9, <2>10, <2>11, <2>12, <2>13, <2>14, <2>15 DEF ImportInv
<1> QED BY <1>2, <1>3

LEMMA AcceptedRows ==
  ASSUME ImportTypes, NEW c \in Companies, NEW ss, book[<<"cities", c>>] \notin {Missing, Broken}
  PROVE  /\ Import!Accepted(ss, c, book[<<"cities", c>>]) \in SUBSET DistrictRows
         /\ \A d \in Import!Accepted(ss, c, book[<<"cities", c>>]) : \E s \in ss : s.code = d.code
<1>1. \A row \in Import!ToSet(book[<<"cities", c>>]) : row \in ImportRows
  BY CompleteRows
<1> QED BY <1>1 DEF Import!Accepted, DistrictRows

LEMMA BuildStep ==
  ASSUME ImportInv, NEW p \in Import!Importers, NEW c \in Companies, Import!Build(p, c)
  PROVE  ImportInv'
<1> DEFINE r == imp[p]
           content == book[<<"cities", c>>]
           all == r.rows \cup Import!Accepted(r.states, c, content)
           left == r.left \ {c}
<1> USE ImportConstants
<1>0. /\ r.pc = "build" /\ c \in r.left
      /\ UNCHANGED <<book, db, dbTmp, store, served, touched, edits, crashes>>
  BY DEF Import!Build, Import!IsNext, Import!disk
<1>1. imp \in [Import!Importers -> Imports] /\ r \in Imports /\ Import!Importing(p) /\ ImportTypes
  BY <1>0 DEF ImportInv, ImportTypes, Import!Importing
<1>2. /\ r.file = dbTmp /\ r.file # None /\ ~r.ok /\ r.left \subseteq r.pairs
      /\ r.pairs \in SUBSET Companies /\ r.blind \in BOOLEAN
      /\ Whole(r.states, r.rows) /\ RightOf(r)
  BY <1>0, <1>1 DEF ImportInv, NamesApart, NamesOf, FilesAreWhole, WholeOf, ReadRight, Imports
<1>3. CASE content \in {Missing, Broken}
  <2> DEFINE n == [r EXCEPT !.pc = "finally", !.file = None]
  <2>1. imp' = [imp EXCEPT ![p] = n]
    BY <1>3 DEF Import!Build, Import!Set
  <2>2. n \in Imports /\ n.pc = "finally" /\ n.left = r.left /\ n.pairs = r.pairs /\ n.file = None /\ ~n.ok
    BY <1>1, <1>2 DEF Imports, Import!Stages
  <2> HIDE DEF n
  <2>3. RightOf(n)
    BY <2>2 DEF RightOf
  <2> QED BY <1>0, <1>1, <1>2, <2>1, <2>2, <2>3, Proceeds
<1>4. CASE content \notin {Missing, Broken}
  <2>1. /\ all \in SUBSET DistrictRows
        /\ \A d \in Import!Accepted(r.states, c, content) : \E s \in r.states : s.code = d.code
    BY <1>1, <1>4, AcceptedRows DEF Imports
  <2>2. Whole(r.states, all)
    BY <1>2, <2>1 DEF Whole
  <2>3. r.pairs \ left = (r.pairs \ r.left) \cup {c}
    BY <1>0, <1>2
  <2>4. ~r.blind => all = RowsOf(r.states, r.pairs \ left) /\ CitiesRead(r.pairs \ left)
    <3>1. RowsOf(r.states, r.pairs \ left) = RowsOf(r.states, r.pairs \ r.left) \cup Import!Accepted(r.states, c, content)
      BY <2>3, OneMoreRead
    <3> QED BY <1>0, <1>2, <1>4, <2>3, <3>1 DEF RightOf, CitiesRead
  <2>5. PICK stage \in {"build", "commit"} :
          /\ imp' = [imp EXCEPT ![p] = [r EXCEPT !.pc = stage, !.rows = all, !.left = left]]
          /\ stage = "commit" => left = {}
    <3> DEFINE more == [r EXCEPT !.rows = @ \cup Import!Accepted(r.states, c, content), !.left = @ \ {c}]
    <3>1. more = [r EXCEPT !.pc = "build", !.rows = all, !.left = left] /\ more.left = left
          /\ [more EXCEPT !.pc = "commit"] = [r EXCEPT !.pc = "commit", !.rows = all, !.left = left]
      BY <1>0, <1>1 DEF Imports
    <3>2. imp' = [imp EXCEPT ![p] = IF more.left # {} THEN more ELSE [more EXCEPT !.pc = "commit"]]
      BY <1>4 DEF Import!Build, Import!Set
    <3> HIDE DEF more, left, all
    <3>3. CASE left = {}
      BY <3>1, <3>2, <3>3
    <3>4. CASE left # {}
      BY <3>1, <3>2, <3>4
    <3> QED BY <3>3, <3>4
  <2> DEFINE n == [r EXCEPT !.pc = stage, !.rows = all, !.left = left]
  <2>6. /\ n \in Imports /\ n.pc = stage /\ n.left = left /\ n.states = r.states /\ n.pairs = r.pairs
        /\ n.blind = r.blind /\ n.file = r.file /\ ~n.ok /\ n.rows = all
    BY <1>1, <1>2, <2>1 DEF Imports, Import!Stages
  <2> HIDE DEF n, all
  <2>7. RightOf(n)
    BY <1>0, <1>2, <2>4, <2>5, <2>6 DEF RightOf
  <2>8. n.left \subseteq n.pairs
    BY <1>2, <2>6
  <2> QED BY <1>0, <1>1, <1>2, <2>2, <2>5, <2>6, <2>7, <2>8, Proceeds DEF n
<1> QED BY <1>3, <1>4

\* What was read without an edit in between is what the workbooks say.
LEMMA ReadIsCurrent ==
  ASSUME NEW r, RightOf(r), r.pc = "commit", ~r.blind, Whole(r.states, r.rows)
  PROVE  Import!Good /\ [states |-> r.states, rows |-> r.rows] = Import!Current
<1>1. /\ r.pairs = Import!Listed /\ r.pairs # {} /\ r.states = StatesOf(r.pairs) /\ GovRead(r.pairs)
      /\ r.rows = RowsOf(r.states, r.pairs) /\ CitiesRead(r.pairs)
  BY DEF RightOf
<1>2. r.states = Import!Known
  BY <1>1 DEF StatesOf, Import!Known
<1> DEFINE taken(c) == Import!Accepted(r.states, c, book[<<"cities", c>>])
           listed(c) == {[company |-> c, code |-> row.code, name |-> row.name] :
                           row \in {x \in Import!ToSet(book[<<"cities", c>>]) :
                                      x.name # Blank /\ x.code \in {s.code : s \in Import!Known}}}
<1>3. r.rows = UNION {listed(c) : c \in Import!Listed}
  <2>1. \A c : taken(c) = listed(c)
    BY <1>2 DEF Import!Accepted
  <2>2. r.rows = UNION {taken(c) : c \in Import!Listed}
    BY <1>1 DEF RowsOf
  <2> HIDE DEF taken, listed
  <2> QED BY <2>1, <2>2
<1>4. Import!Good
  BY <1>1, <1>2 DEF Import!Good, GovRead, CitiesRead, Whole
<1> QED BY <1>2, <1>3, <1>4 DEF Import!Current

LEMMA CommitStep ==
  ASSUME ImportInv, NEW p \in Import!Importers, Import!Commit(p)
  PROVE  ImportInv'
<1> DEFINE r == imp[p]
           n == [r EXCEPT !.pc = "replace", !.file = None]
           f == [data |-> [states |-> r.states, rows |-> r.rows], newer |-> {}, blind |-> r.blind]
<1> USE ImportConstants
<1>0. /\ r.pc = "commit" /\ imp' = [imp EXCEPT ![p] = n] /\ store' = [store EXCEPT ![r.file] = f]
      /\ UNCHANGED <<book, db, dbTmp, served, touched, edits, crashes>>
  BY DEF Import!Commit, Import!Set
<1>1. imp \in [Import!Importers -> Imports] /\ r \in Imports /\ Import!Importing(p)
  BY <1>0 DEF ImportInv, ImportTypes, Import!Importing
<1>2. /\ r.file = dbTmp /\ r.file # None /\ ~r.ok /\ r.left \subseteq r.pairs
      /\ Whole(r.states, r.rows) /\ RightOf(r) /\ dbTmp \in Import!Inodes
      /\ db # None => db \in Import!Inodes /\ db # dbTmp
  BY <1>0, <1>1 DEF ImportInv, ImportTypes, NamesApart, NamesOf, FilesAreWhole, WholeOf, ReadRight
<1>3. /\ n \in Imports /\ n.pc = "replace" /\ n.left = r.left /\ n.pairs = r.pairs /\ n.file = None /\ ~n.ok
  BY <1>1, <1>2 DEF Imports, Import!Stages
<1>4. /\ f \in [data : Datas, newer : SUBSET Import!Files, blind : BOOLEAN] /\ f.data.states = r.states
      /\ f.data.rows = r.rows /\ f.newer = {} /\ f.blind = r.blind /\ f.data = [states |-> r.states, rows |-> r.rows]
  BY <1>1 DEF Imports, Datas
<1>5. FileCurrent(f)
  BY <1>0, <1>2, <1>4, ReadIsCurrent DEF FileCurrent
<1> HIDE DEF n, f
<1>6. imp'[p] = n /\ \A q \in Import!Importers \ {p} : imp'[q] = imp[q] /\ imp[q].pc \in {"idle", "load", "up"}
  BY <1>0, <1>1, OthersRest
<1>7. /\ store' \in [Import!Inodes -> [data : Datas, newer : SUBSET Import!Files, blind : BOOLEAN]]
      /\ store'[dbTmp] = f /\ \A i \in Import!Inodes \ {dbTmp} : store'[i] = store[i]
  BY <1>0, <1>2, <1>4 DEF ImportInv, ImportTypes
<1>8. ImportTypes'
  BY <1>0, <1>1, <1>3, <1>7 DEF ImportInv, ImportTypes
<1>9. OneImports'
  BY <1>1, <1>6 DEF ImportInv, OneImports, Import!Importing
<1>10. NamesApart'
  <2>1. ASSUME NEW q \in Import!Importers PROVE NamesOf(q)'
    BY <1>0, <1>2, <1>3, <1>6 DEF ImportInv, NamesApart, NamesOf
  <2> QED BY <1>0, <2>1 DEF ImportInv, NamesApart
<1>11. FilesAreWhole'
  <2>1. ASSUME NEW q \in Import!Importers PROVE WholeOf(q)'
    BY <1>0, <1>2, <1>3, <1>4, <1>6, <1>7 DEF WholeOf
  <2> QED BY <1>0, <1>2, <1>7, <2>1 DEF ImportInv, FilesAreWhole
<1>12. ReadRight'
  <2>1. RightOf(n)
    BY <1>3 DEF RightOf
  <2> QED BY <1>0, <1>6, <2>1, SameBooks DEF ReadRight, Import!Importing
<1>13. FilesAreCurrent'
  <2>1. db # None => FileCurrent(store[db])'
    <3>1. db # None => store'[db'] = store[db] /\ FileCurrent(store[db])
      BY <1>0, <1>2, <1>7 DEF ImportInv, FilesAreCurrent
    <3> QED BY <1>0, <3>1, SameBooks
  <2>2. FileCurrent(store[dbTmp])'
    BY <1>0, <1>5, <1>7, SameBooks
  <2> QED BY <1>0, <1>2, <1>4, <1>7, <2>1, <2>2 DEF FilesAreCurrent
<1>14. LoadsNewest'
  <2>1. imp'[Server].pc = "load" \/ (imp'[Server].pc = "finally" /\ imp'[Server].ok) =>
          imp[Server].pc = "load" /\ db # None
    BY <1>3, <1>6 DEF ImportInv, NamesApart, NamesOf
  <2> QED BY <1>0, <1>2, <1>4, <1>7, <2>1 DEF ImportInv, LoadsNewest
<1>15. ServedRight'
  <2>1. imp[Server].pc = "up" => imp'[Server] = imp[Server]
    BY <1>0, <1>6
  <2> QED BY <1>0, <2>1, SameBooks DEF ImportInv, ServedRight, Import!ServedIsCurrent
<1> QED BY <1>8, <1>9, <1>10, <1>11, <1>12, <1>13, <1>14, <1>15 DEF ImportInv

-----------------------------------------------------------------------------
(* The new file takes the place of the old one. *)

LEMMA ReplaceStep ==
  ASSUME ImportInv, NEW p \in Import!Importers, Import!Replace(p)
  PROVE  ImportInv'
<1> DEFINE r == imp[p]
           n == [r EXCEPT !.pc = "finally", !.ok = (dbTmp # None)]
<1> USE ImportConstants
<1>1. /\ r.pc = "replace" /\ imp \in [Import!Importers -> Imports] /\ r \in Imports /\ Import!Importing(p)
      /\ dbTmp \in Import!Inodes /\ dbTmp # None
  BY DEF Import!Replace, ImportInv, ImportTypes, NamesApart, NamesOf, Import!Importing
<1>0. /\ db' = dbTmp /\ dbTmp' = None /\ imp' = [imp EXCEPT ![p] = n]
      /\ UNCHANGED <<book, store, served, touched, edits, crashes>>
  BY <1>1 DEF Import!Replace, Import!Set
<1>2. /\ r.file = None /\ r.left \subseteq r.pairs
      /\ Whole(store[dbTmp].data.states, store[dbTmp].data.rows) /\ FileCurrent(store[dbTmp])
      /\ db # None => store[dbTmp].newer \subseteq store[db].newer
  BY <1>1 DEF ImportInv, NamesApart, NamesOf, FilesAreWhole, WholeOf, FilesAreCurrent
<1>3. n \in Imports /\ n.pc = "finally" /\ n.left = r.left /\ n.pairs = r.pairs /\ n.file = None /\ n.ok
  BY <1>1, <1>2 DEF Imports, Import!Stages
<1> HIDE DEF n
<1>4. imp'[p] = n /\ \A q \in Import!Importers \ {p} : imp'[q] = imp[q] /\ imp[q].pc \in {"idle", "load", "up"}
  BY <1>0, <1>1, OthersRest
<1>5. ImportTypes'
  BY <1>0, <1>1, <1>3 DEF ImportInv, ImportTypes
<1>6. OneImports'
  BY <1>1, <1>4 DEF ImportInv, OneImports, Import!Importing
<1>7. NamesApart'
  <2>1. ASSUME NEW q \in Import!Importers PROVE NamesOf(q)'
    BY <1>0, <1>1, <1>2, <1>3, <1>4 DEF ImportInv, NamesApart, NamesOf
  <2> QED BY <1>0, <1>1, <2>1 DEF NamesApart
<1>8. FilesAreWhole'
  <2>1. ASSUME NEW q \in Import!Importers PROVE WholeOf(q)'
    BY <1>3, <1>4 DEF WholeOf
  <2> QED BY <1>0, <1>2, <2>1 DEF FilesAreWhole
<1>9. ReadRight'
  <2>1. RightOf(n)
    BY <1>3 DEF RightOf
  <2> QED BY <1>0, <1>4, <2>1, SameBooks DEF ReadRight, Import!Importing
<1>10. FilesAreCurrent'
  <2>1. FileCurrent(store[db])'
    BY <1>0, <1>2, SameBooks
  <2> QED BY <1>3, <1>4, <2>1 DEF FilesAreCurrent
<1>11. LoadsNewest'
  <2> SUFFICES ASSUME ~touched, imp'[Server].pc = "load" \/ imp'[Server].pc = "finally"
               PROVE  store[dbTmp].newer = {}
    BY <1>0, <1>3, <1>4 DEF LoadsNewest
  <2>1. CASE p = Server
    BY <1>1, <2>1 DEF ImportInv, LoadsNewest
  <2>2. CASE p # Server
    BY <1>2, <1>4, <2>2 DEF ImportInv, LoadsNewest, NamesApart, NamesOf
  <2> QED BY <2>1, <2>2
<1>12. ServedRight'
  <2>1. imp[Server].pc = "up" => imp'[Server] = imp[Server]
    BY <1>1, <1>4
  <2> QED BY <1>0, <2>1, SameBooks DEF ImportInv, ServedRight, Import!ServedIsCurrent
<1> QED BY <1>5, <1>6, <1>7, <1>8, <1>9, <1>10, <1>11, <1>12 DEF ImportInv

\* The server is about to load the file of the name.
LEMMA GoesToLoad ==
  ASSUME ImportInv, imp' = [imp EXCEPT ![Server] = [Import!Idle EXCEPT !.pc = "load"]],
         UNCHANGED <<book, db, store, edits, crashes>>, db # None,
         dbTmp' = dbTmp \/ (dbTmp' = None /\ Import!Importing(Server)),
         touched' \in BOOLEAN, ~touched' => store[db].newer = {},
         served' = None
  PROVE  ImportInv'
<1> DEFINE n == [Import!Idle EXCEPT !.pc = "load"]
<1> USE ImportConstants
<1>0. /\ imp \in [Import!Importers -> Imports] /\ n \in Imports
      /\ n.pc = "load" /\ n.left = {} /\ n.pairs = {} /\ n.file = None
  BY RestIsImport DEF ImportInv, ImportTypes, Import!Idle
<1>1. imp' = [imp EXCEPT ![Server] = n]
  OBVIOUS
<1> HIDE DEF n
<1>2. imp'[Server] = n /\ \A q \in Import!Importers \ {Server} : imp'[q] = imp[q]
  BY <1>0, <1>1
<1>d. dbTmp' # dbTmp => dbTmp' = None /\ \A q \in Import!Importers \ {Server} : imp[q].pc \in {"idle", "load", "up"}
  BY OthersRest
<1>3. ImportTypes'
  BY <1>0, <1>1 DEF ImportInv, ImportTypes
<1>4. OneImports'
  BY <1>0, <1>2 DEF ImportInv, OneImports, Import!Importing
<1>5. NamesApart'
  <2>1. db' # None => db' # dbTmp'
    BY <1>d DEF ImportInv, NamesApart
  <2>2. ASSUME NEW q \in Import!Importers PROVE NamesOf(q)'
    BY <1>0, <1>2, <1>d DEF ImportInv, NamesApart, NamesOf
  <2> QED BY <2>1, <2>2 DEF NamesApart
<1>6. FilesAreWhole'
  <2>1. ASSUME NEW q \in Import!Importers PROVE WholeOf(q)'
    BY <1>0, <1>2, <1>d DEF ImportInv, FilesAreWhole, WholeOf
  <2> QED BY <2>1 DEF ImportInv, FilesAreWhole
<1>7. ReadRight'
  <2>1. ASSUME NEW q \in Import!Importers, Import!Importing(q)' PROVE q # Server /\ Import!Importing(q)
    BY <1>0, <1>2, <2>1 DEF Import!Importing
  <2> QED BY <1>2, <2>1, SameBooks DEF ImportInv, ReadRight
<1>8. FilesAreCurrent'
  <2>1. FileCurrent(store[db])'
    BY SameBooks DEF ImportInv, FilesAreCurrent
  <2>2. ASSUME NEW q \in Import!Importers, imp'[q].pc = "replace" PROVE q # Server /\ imp[q].pc = "replace" /\ dbTmp' = dbTmp
    BY <1>0, <1>2, <1>d, <2>2
  <2> QED BY <2>1, <2>2, SameBooks DEF ImportInv, FilesAreCurrent
<1>9. LoadsNewest'
  BY <1>0, <1>2 DEF LoadsNewest
<1>10. ServedRight'
  BY DEF ServedRight, Import!ServedIsCurrent
<1> QED BY <1>3, <1>4, <1>5, <1>6, <1>7, <1>8, <1>9, <1>10 DEF ImportInv

LEMMA FinallyStep ==
  ASSUME ImportInv, NEW p \in Import!Importers, Import!Finally(p)
  PROVE  ImportInv'
<1> USE ImportConstants
<1>1. /\ imp[p].pc = "finally" /\ Import!Importing(p) /\ dbTmp' = None
      /\ UNCHANGED <<book, db, store, served, touched, edits, crashes>>
      /\ edits \in 0 .. MaxEdits /\ crashes \in 0 .. MaxKills /\ touched \in BOOLEAN
  BY DEF Import!Finally, Import!Importing, ImportInv, ImportTypes
<1>2. CASE p = Server /\ imp[p].ok
  <2>1. imp' = [imp EXCEPT ![Server] = [Import!Idle EXCEPT !.pc = "load"]]
    BY <1>2 DEF Import!Finally, Import!Set
  <2>2. db # None /\ (~touched => store[db].newer = {}) /\ served = None
    BY <1>1, <1>2 DEF ImportInv, NamesApart, NamesOf, LoadsNewest, ServedRight
  <2> QED BY <1>1, <1>2, <2>1, <2>2, GoesToLoad
<1>3. CASE Import!Fails(p)
  <2>1. PICK s \in {Import!Idle, [Import!Idle EXCEPT !.pc = "up"]} :
          imp' = [imp EXCEPT ![p] = s] /\ (p = Cli => s = Import!Idle)
    BY <1>3, FailsRest
  <2> QED BY <1>1, <2>1, Rests
<1> QED BY <1>2, <1>3 DEF Import!Finally

-----------------------------------------------------------------------------
(* The server and the command. *)

\* An import begins: it finds the companies that have a workbook of districts.
LEMMA BeginStep ==
  ASSUME ImportInv, NEW p \in Import!Importers, Import!Begin(p), imp[p].pc = "idle",
         \A q \in Import!Importers \ {p} : ~Import!Importing(q),
         UNCHANGED <<book, db, dbTmp, store, edits, crashes>>,
         touched' \in BOOLEAN, touched' = touched \/ p = Server,
         served' = None \/ (served' = served /\ touched' = touched)
  PROVE  ImportInv'
<1> USE ImportConstants
<1>0. edits \in 0 .. MaxEdits /\ crashes \in 0 .. MaxKills /\ imp \in [Import!Importers -> Imports]
  BY DEF ImportInv, ImportTypes
<1>1. CASE Import!Fails(p)
  <2>1. PICK s \in {Import!Idle, [Import!Idle EXCEPT !.pc = "up"]} :
          imp' = [imp EXCEPT ![p] = s] /\ (p = Cli => s = Import!Idle)
    BY <1>1, FailsRest
  <2> QED BY <1>0, <2>1, Rests
<1>2. CASE ~Import!Fails(p)
  <2> DEFINE n == [Import!Idle EXCEPT !.pc = "gov", !.pairs = Import!Listed, !.left = Import!Listed]
  <2>1. imp' = [imp EXCEPT ![p] = n] /\ Import!Listed # {}
    BY <1>2 DEF Import!Begin, Import!Set, Import!Listed
  <2>2. Import!Listed \in SUBSET Companies
    BY DEF Import!Listed
  <2>3. /\ n.pc = "gov" /\ n.left = Import!Listed /\ n.pairs = Import!Listed /\ n.file = None
        /\ n.states = {} /\ n.rows = {} /\ ~n.ok
    BY DEF Import!Idle
  <2>4. n \in Imports
    BY <2>2 DEF Import!Idle, Imports, Import!Stages
  <2> HIDE DEF n
  <2>5. imp'[p] = n /\ \A q \in Import!Importers \ {p} : imp'[q] = imp[q] /\ imp[q].pc \in {"idle", "load", "up"}
    BY <1>0, <2>1 DEF Import!Importing
  <2>6. ImportTypes'
    BY <1>0, <2>1, <2>4 DEF ImportInv, ImportTypes
  <2>7. OneImports'
    BY <2>5 DEF OneImports, Import!Importing
  <2>8. NamesApart'
    <3>1. ASSUME NEW q \in Import!Importers PROVE NamesOf(q)'
      BY <2>3, <2>5 DEF ImportInv, NamesApart, NamesOf
    <3> QED BY <3>1 DEF ImportInv, NamesApart
  <2>9. FilesAreWhole'
    <3>1. ASSUME NEW q \in Import!Importers PROVE WholeOf(q)'
      BY <2>3, <2>5 DEF WholeOf
    <3> QED BY <3>1 DEF ImportInv, FilesAreWhole
  <2>10. ReadRight'
    <3>1. StatesOf({}) = {} /\ GovRead({})
      BY DEF StatesOf, GovRead
    <3>2. n.pairs \ n.left = {}
      BY <2>3
    <3>3. RightOf(n)
      BY <2>1, <2>3, <3>1, <3>2 DEF RightOf
    <3> QED BY <2>5, <3>3, SameBooks DEF ReadRight, Import!Importing
  <2>11. FilesAreCurrent'
    BY <2>3, <2>5, SameBooks DEF ImportInv, FilesAreCurrent
  <2>12. LoadsNewest'
    BY <2>3, <2>5 DEF ImportInv, LoadsNewest
  <2>13. ServedRight'
    BY <2>5, SameBooks DEF ImportInv, ServedRight, Import!ServedIsCurrent
  <2> QED BY <2>6, <2>7, <2>8, <2>9, <2>10, <2>11, <2>12, <2>13 DEF ImportInv
<1> QED BY <1>1, <1>2

LEMMA BootStep ==
  ASSUME Alone, ImportInv, Import!Boot
  PROVE  ImportInv'
<1> USE ImportConstants
<1>1. /\ imp[Server].pc = "idle" /\ touched' = FALSE /\ served' = None
      /\ UNCHANGED <<book, db, dbTmp, store, edits, crashes>>
  BY DEF Import!Boot, Import!disk
<1>2. CASE Import!Stale
  <2>1. Import!Begin(Server) /\ \A q \in Import!Importers \ {Server} : ~Import!Importing(q)
    BY <1>2 DEF Import!Boot, Import!Waits
  <2> QED BY <1>1, <2>1, BeginStep
<1>3. CASE ~Import!Stale
  <2>1. imp' = [imp EXCEPT ![Server] = [Import!Idle EXCEPT !.pc = "load"]]
    BY <1>3 DEF Import!Boot, Import!Set
  <2>2. db # None /\ store[db].newer = {}
    BY <1>3 DEF Import!Stale
  <2> QED BY <1>1, <2>1, <2>2, GoesToLoad
<1> QED BY <1>2, <1>3

LEMMA CommandStep ==
  ASSUME Alone, ImportInv, Import!Command
  PROVE  ImportInv'
<1> USE ImportConstants
<1>1. /\ Cli \in Import!Importers /\ imp[Cli].pc = "idle" /\ Import!Begin(Cli)
      /\ UNCHANGED <<book, db, dbTmp, store, served, touched, edits, crashes>>
      /\ \A q \in Import!Importers \ {Cli} : ~Import!Importing(q) /\ touched \in BOOLEAN
  BY DEF Import!Command, Import!disk, Import!Waits, Import!Importers, ImportInv, ImportTypes
<1> QED BY <1>1, BeginStep

LEMMA LoadStep ==
  ASSUME ImportInv, Import!LoadCatalog
  PROVE  ImportInv'
<1> DEFINE n == [Import!Idle EXCEPT !.pc = "up"]
<1> USE ImportConstants
<1>1. /\ imp[Server].pc = "load" /\ served' = [data |-> store[db].data, blind |-> store[db].blind]
      /\ imp' = [imp EXCEPT ![Server] = n]
      /\ UNCHANGED <<book, db, dbTmp, store, touched, edits, crashes>>
  BY DEF Import!LoadCatalog, Import!Set, Import!disk
<1>2. /\ imp \in [Import!Importers -> Imports] /\ n \in Imports
      /\ n.pc = "up" /\ n.left = {} /\ n.pairs = {} /\ n.file = None
  BY RestIsImport DEF ImportInv, ImportTypes, Import!Idle
<1> HIDE DEF n
<1>3. imp'[Server] = n /\ \A q \in Import!Importers \ {Server} : imp'[q] = imp[q]
  BY <1>1, <1>2
<1>4. db # None /\ FileCurrent(store[db]) /\ (~touched => store[db].newer = {})
  BY <1>1 DEF ImportInv, NamesApart, NamesOf, FilesAreCurrent, LoadsNewest
<1>5. ImportTypes'
  BY <1>1, <1>2 DEF ImportInv, ImportTypes
<1>6. OneImports'
  BY <1>2, <1>3 DEF ImportInv, OneImports, Import!Importing
<1>7. NamesApart'
  <2>1. ASSUME NEW q \in Import!Importers PROVE NamesOf(q)'
    BY <1>1, <1>2, <1>3 DEF ImportInv, NamesApart, NamesOf
  <2> QED BY <1>1, <2>1 DEF ImportInv, NamesApart
<1>8. FilesAreWhole'
  <2>1. ASSUME NEW q \in Import!Importers PROVE WholeOf(q)'
    BY <1>1, <1>2, <1>3 DEF ImportInv, FilesAreWhole, WholeOf
  <2> QED BY <1>1, <2>1 DEF ImportInv, FilesAreWhole
<1>9. ReadRight'
  <2>1. ASSUME NEW q \in Import!Importers, Import!Importing(q)' PROVE q # Server /\ Import!Importing(q)
    BY <1>2, <1>3, <2>1 DEF Import!Importing
  <2> QED BY <1>1, <1>3, <2>1, SameBooks DEF ImportInv, ReadRight
<1>10. FilesAreCurrent'
  <2>1. FileCurrent(store[db])'
    BY <1>1, <1>4, SameBooks
  <2>2. ASSUME NEW q \in Import!Importers, imp'[q].pc = "replace" PROVE q # Server /\ imp[q].pc = "replace"
    BY <1>2, <1>3, <2>2
  <2> QED BY <1>1, <2>1, <2>2, SameBooks DEF ImportInv, FilesAreCurrent
<1>11. LoadsNewest'
  BY <1>2, <1>3 DEF LoadsNewest
<1>12. ServedRight'
  <2>1. ~touched /\ ~store[db].blind => Import!Good /\ store[db].data = Import!Current
    BY <1>4 DEF FileCurrent
  <2> QED BY <1>1, <1>2, <1>3, <2>1, SameBooks DEF ServedRight, Import!ServedIsCurrent
<1> QED BY <1>5, <1>6, <1>7, <1>8, <1>9, <1>10, <1>11, <1>12 DEF ImportInv

LEMMA CrashStep ==
  ASSUME ImportInv, NEW p \in Import!Importers, Import!Crash(p)
  PROVE  ImportInv'
<1> USE ImportConstants
<1>1. /\ imp' = [imp EXCEPT ![p] = Import!Idle] /\ UNCHANGED <<book, db, dbTmp, store, touched, edits>>
      /\ served' = IF p = Server THEN None ELSE served
  BY DEF Import!Crash, Import!Set, Import!disk
<1>2. crashes' \in 0 .. MaxKills /\ edits' \in 0 .. MaxEdits /\ touched' \in BOOLEAN
  <2>1. crashes \in 0 .. MaxKills /\ edits \in 0 .. MaxEdits /\ touched \in BOOLEAN
    BY DEF ImportInv, ImportTypes
  <2>2. crashes' = crashes \/ (crashes < MaxKills /\ crashes' = crashes + 1)
    BY DEF Import!Crash
  <2> QED BY <1>1, <2>1, <2>2
<1> QED BY <1>1, <1>2, Rests

LEMMA ImportStep ==
  ASSUME Alone
  PROVE  ImportInv /\ [Import!Next]_importVars => ImportInv'
<1> SUFFICES ASSUME ImportInv, [Import!Next]_importVars PROVE ImportInv'
  OBVIOUS
<1>1. CASE Import!Boot \/ Import!LoadCatalog \/ Import!Command
  BY <1>1, BootStep, LoadStep, CommandStep
<1>2. ASSUME NEW f \in Import!Files,
             NEW content \in (IF f[1] = "gov" THEN GovernorateFiles ELSE DistrictFiles) \cup {Missing, Broken},
             Import!Edit(f, content)
      PROVE  ImportInv'
  BY <1>2, EditStep
<1>3. ASSUME NEW p \in Import!Importers, Import!Import(p) PROVE ImportInv'
  BY <1>3, ReadGovStep, BuildStep, CleanStep, ConnectStep, CommitStep, ReplaceStep, FinallyStep DEF Import!Import
<1>4. ASSUME NEW p \in Import!Importers, Import!Crash(p) PROVE ImportInv'
  BY <1>4, CrashStep
<1>5. CASE UNCHANGED importVars
  <2>1. UNCHANGED <<book, db, dbTmp, store, imp, served, touched, edits, crashes>>
    BY <1>5 DEF importVars
  <2> QED BY <2>1, SameBooks
          DEF ImportInv, ImportTypes, OneImports, NamesApart, NamesOf, FilesAreWhole, WholeOf, ReadRight,
              FilesAreCurrent, LoadsNewest, ServedRight, Import!ServedIsCurrent, Import!Importing
<1> QED BY <1>1, <1>2, <1>3, <1>4, <1>5 DEF Import!Next

LEMMA ImportCorrect ==
  ASSUME Alone
  PROVE  Import!Spec => []ImportInv
<1>1. Import!Init => ImportInv
  BY ImportInit
<1>2. ImportInv /\ [Import!Next]_Import!vars => ImportInv'
  BY ImportStep DEF Import!vars, Import!disk, importVars
<1> QED BY <1>1, <1>2, PTL DEF Import!Spec

\* One import at a time: the database is whole, and what is served is what the workbooks say.
THEOREM PlacesAreServed ==
  ASSUME Alone
  PROVE  Import!Spec => [](Import!DatabaseIsWhole /\ Import!ServedIsCurrent)
<1>1. ImportInv => Import!DatabaseIsWhole /\ Import!ServedIsCurrent
  BY DEF ImportInv, FilesAreWhole, Whole, ServedRight, Import!DatabaseIsWhole
<1>2. Import!Spec => []ImportInv BY ImportCorrect
<1> QED BY <1>1, <1>2, PTL

-----------------------------------------------------------------------------
\* What is kept on the disk is served, when one importer at a time builds the database.
THEOREM StoresServeAlways ==
  ASSUME Alone
  PROVE  Together => []StoresServe
<1>1. Files!Spec => []Files!NewestAreServed
  BY NewestServed
<1>2. Import!Spec => [](Import!DatabaseIsWhole /\ Import!ServedIsCurrent)
  BY PlacesAreServed
<1>3. Together => Files!Spec /\ Import!Spec
  BY DEF Together
<1>4. Files!NewestAreServed /\ Import!DatabaseIsWhole /\ Import!ServedIsCurrent => StoresServe
  BY DEF StoresServe
<1> QED BY <1>1, <1>2, <1>3, <1>4, PTL
=============================================================================
