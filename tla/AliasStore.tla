----------------------------- MODULE AliasStore -----------------------------
(***************************************************************************)
(* The memory of the district correction: AliasStore of                    *)
(* app/features/district_correction/aliases.py, a SQLite table with a copy *)
(* in the process, and the requests that use it: reviewers who confirm or  *)
(* withdraw a district (remember), answers that are learned (_learn) and   *)
(* texts that are looked up (_remembered).                                 *)
(*                                                                         *)
(* Requests are threads.  Writers hold _lock, readers do not.  The         *)
(* service may stop at any point; the table survives.                      *)
(***************************************************************************)
EXTENDS Naturals, FiniteSets

CONSTANTS
  Clients,    \* threads with a request
  Keys,       \* texts: company, governorate and memory_key
  Names,      \* district names that a catalog may have
  NoEntry, NoClient,
  DiskFails,  \* which of "learn" and "forget" may meet an error of SQLite
  MaxWrites   \* bound of the run: writes

Sources == {"auto", "reviewer"}
Entries == [name : Names, source : Sources]

ASSUME AliasAssumption ==
  /\ NoEntry \notin Entries
  /\ NoClient \notin Clients
  /\ MaxWrites \in Nat

VARIABLES
  file,       \* district_aliases, as committed
  mem,        \* _entries
  catalog,    \* the names of the snapshot that is served
  lock,       \* holder of _lock
  pc,         \* per client: where in learn or forget it is
  rows,       \* per client: its rows that mem does not show yet
  src,        \* per client: source of its rows
  gone,       \* per client: keys it has deleted and not committed
  writes

vars == <<file, mem, catalog, lock, pc, rows, src, gone, writes>>

NoRows == [k \in {} |-> NoEntry]
AllRows == UNION {[ks -> Names] : ks \in SUBSET Keys}
Places == {"idle", "upsert", "copy", "forget"}

TypeOK ==
  /\ file \in [Keys -> Entries \cup {NoEntry}]
  /\ mem \in [Keys -> Entries \cup {NoEntry}]
  /\ catalog \subseteq Names
  /\ lock \in Clients \cup {NoClient}
  /\ pc \in [Clients -> Places]
  /\ rows \in [Clients -> AllRows]
  /\ src \in [Clients -> Sources]
  /\ gone \in [Clients -> SUBSET Keys]
  /\ writes \in Nat

Init ==
  /\ file \in [Keys -> Entries \cup {NoEntry}]
  /\ mem = file
  /\ catalog \in SUBSET Names
  /\ lock = NoClient
  /\ pc = [c \in Clients |-> "idle"]
  /\ rows = [c \in Clients |-> NoRows]
  /\ src = [c \in Clients |-> "auto"]
  /\ gone = [c \in Clients |-> {}]
  /\ writes = 0

-----------------------------------------------------------------------------
ByReviewer(entry) == entry # NoEntry /\ entry.source = "reviewer"

\* The rows of `new` that source `s` may write over the entries `old`.
Writable(new, old, s) ==
  {k \in DOMAIN new : s = "reviewer" \/ ~ByReviewer(old[k])}

\* The table after the rows of c: ON CONFLICT ... WHERE.
Upserted(c) ==
  [k \in Keys |-> IF k \in Writable(rows[c], file, src[c])
                  THEN [name |-> rows[c][k], source |-> src[c]] ELSE file[k]]

Release(c) ==
  /\ lock' = NoClient
  /\ pc' = [pc EXCEPT ![c] = "idle"]
  /\ rows' = [rows EXCEPT ![c] = NoRows]
  /\ gone' = [gone EXCEPT ![c] = {}]

\* learn takes the lock and drops the rows that may not replace what is remembered.  Rows of
\* a reviewer and of the automatic learning name districts of the catalog.
Learn(c, s, new) ==
  /\ pc[c] = "idle" /\ lock = NoClient
  /\ writes < MaxWrites /\ writes' = writes + 1
  /\ LET kept == Writable(new, mem, s)
     IN  /\ kept # {}
         /\ rows' = [rows EXCEPT ![c] = [k \in kept |-> new[k]]]
  /\ src' = [src EXCEPT ![c] = s]
  /\ lock' = c
  /\ pc' = [pc EXCEPT ![c] = "upsert"]
  /\ UNCHANGED <<file, mem, catalog, gone>>

Upsert(c) ==
  /\ pc[c] = "upsert"
  /\ file' = Upserted(c)
  /\ pc' = [pc EXCEPT ![c] = "copy"]
  /\ UNCHANGED <<mem, catalog, lock, rows, src, gone, writes>>

UpsertFailsCopied(c) ==  \* mutant: the copy is made first, or the error swallowed
  /\ pc[c] = "upsert" /\ "learn" \in DiskFails
  /\ pc' = [pc EXCEPT ![c] = "copy"]
  /\ UNCHANGED <<file, mem, catalog, lock, rows, src, gone, writes>>

UpsertFails(c) ==
  /\ pc[c] = "upsert" /\ "learn" \in DiskFails
  /\ Release(c)
  /\ UNCHANGED <<file, mem, catalog, src, writes>>

\* One turn of the loop that copies the rows, or its end.
Copy(c) ==
  /\ pc[c] = "copy"
  /\ \/ \E k \in DOMAIN rows[c] :
          /\ mem' = [mem EXCEPT ![k] = [name |-> rows[c][k], source |-> src[c]]]
          /\ rows' = [rows EXCEPT ![c] = [j \in DOMAIN rows[c] \ {k} |-> rows[c][j]]]
          /\ UNCHANGED <<lock, pc, gone>>
     \/ DOMAIN rows[c] = {} /\ Release(c) /\ UNCHANGED mem
  /\ UNCHANGED <<file, catalog, src, writes>>

ForgetStart(c) ==
  /\ pc[c] = "idle" /\ lock = NoClient
  /\ writes < MaxWrites /\ writes' = writes + 1
  /\ lock' = c
  /\ pc' = [pc EXCEPT ![c] = "forget"]
  /\ UNCHANGED <<file, mem, catalog, rows, src, gone>>

\* One turn of forget's loop: DELETE in the open transaction, then the copy at once.
ForgetKey(c, k) ==
  /\ pc[c] = "forget" /\ k \notin gone[c]
  /\ gone' = [gone EXCEPT ![c] = @ \cup {k}]
  /\ mem' = [mem EXCEPT ![k] = NoEntry]
  /\ UNCHANGED <<file, catalog, lock, pc, rows, src, writes>>

ForgetCommit(c) ==
  /\ pc[c] = "forget"
  /\ file' = [k \in Keys |-> IF k \in gone[c] THEN NoEntry ELSE file[k]]
  /\ Release(c)
  /\ UNCHANGED <<mem, catalog, src, writes>>

\* A DELETE or the commit fails: the transaction is rolled back.
ForgetFails(c) ==
  /\ pc[c] = "forget" /\ "forget" \in DiskFails
  /\ Release(c)
  /\ UNCHANGED <<file, mem, catalog, src, writes>>

\* The service stops anywhere and starts again, perhaps with another catalog.
Restart ==
  /\ mem' = file
  /\ catalog' \in SUBSET Names
  /\ lock' = NoClient
  /\ pc' = [c \in Clients |-> "idle"]
  /\ rows' = [c \in Clients |-> NoRows]
  /\ gone' = [c \in Clients |-> {}]
  /\ UNCHANGED <<file, src, writes>>

Step(c) ==
  \/ Upsert(c) \/ UpsertFails(c) \/ Copy(c)
  \/ \E k \in Keys : ForgetKey(c, k)
  \/ ForgetCommit(c) \/ ForgetFails(c)

Next ==
  \/ \E c \in Clients :
       \/ \E s \in Sources, new \in UNION {[ks -> catalog] : ks \in SUBSET Keys} : Learn(c, s, new)
       \/ ForgetStart(c)
       \/ Step(c)
  \/ Restart

Spec == Init /\ [][Next]_vars

-----------------------------------------------------------------------------
(* Properties *)

\* _remembered: the district that a text gets without further matching.
Remembered(k) == IF mem[k] # NoEntry /\ mem[k].name \in catalog THEN mem[k].name ELSE NoEntry

\* What is answered from memory is in the table: a restart never makes the service forget
\* what it has answered, whatever fails (aliases.py 82-97).
RememberedIsDurable == \A k \in Keys : mem[k] # NoEntry => file[k] # NoEntry

\* Between writes the copy is the table, also after errors while learning (aliases.py 74-98).
MemoryIsFile == lock = NoClient => mem = file

\* What a reviewer confirmed is what the next request answers, if the catalog still has it: no
\* automatic answer, lost update or half-done write comes before it (aliases.py 6-8, 74-98).
ReviewerHeard ==
  lock = NoClient =>
    \A k \in Keys : ByReviewer(file[k]) /\ file[k].name \in catalog => Remembered(k) = file[k].name

\* Whatever fails while requests learn: nothing answered is forgotten by a restart, the copy is
\* the table between writes, and the reviewer has the last word (aliases.py 6-8, 74-98).
AliasesSafe == RememberedIsDurable /\ MemoryIsFile /\ ReviewerHeard

\* As the module says of itself: automatic learning never replaces a reviewer's answer.  It
\* does, in memory, after a forget that was rolled back (aliases.py 6-8, 91-98).
\* The code does not keep this: README, section 6.
AutoNeverReplaces ==
  lock = NoClient => \A k \in Keys : ByReviewer(file[k]) => mem[k] = NoEntry \/ ByReviewer(mem[k])

\* An entry of a reviewer leaves memory or table only through a reviewer, never by what a
\* request learned, even when that request read the memory before (aliases.py 76-86).
ReviewerStands ==
  [][\A k \in Keys, c \in Clients :
       lock = c /\ pc[c] \in {"upsert", "copy"} /\ src[c] = "auto" =>
         /\ ByReviewer(file[k]) => file'[k] = file[k]
         /\ ByReviewer(mem[k]) => mem'[k] \in {mem[k], file[k]}]_vars

\* The lock is given back, also by requests that fail.
LockFreed == \A c \in Clients : lock = c ~> lock # c
=============================================================================
