---------------------------- MODULE CatalogImport ----------------------------
(***************************************************************************)
(* The catalog of districts: the workbooks of the delivery companies, the  *)
(* import that builds a SQLite file from them and puts it in the place of  *)
(* the old one (district_correction/catalog.py), the start of the server   *)
(* that imports when a workbook is newer than the file and keeps the       *)
(* catalog in memory (router.py), and the command an operator imports with *)
(* (import_excel_catalogs.py).                                             *)
(*                                                                         *)
(* People edit workbooks at any time, also while an import reads them one  *)
(* after the other.  An importer may be killed at any point.  A file of    *)
(* the disk is an inode: a name may be removed, or given to another inode, *)
(* while a connection still writes to the old one (POSIX).                 *)
(*                                                                         *)
(* Abstracted: the time of a file is the set of the workbooks that were    *)
(* changed after it; the counts and rows of the report; ids of districts.  *)
(***************************************************************************)
EXTENDS Naturals, SequencesExt

CONSTANTS
  Companies,          \* the companies, numbered in the order of their names
  GovFiles,           \* what a governorates.xlsx may hold: sequences of [code, name]
  CityFiles,          \* what a cities.xlsx may hold: sequences of [code, name]
  Missing, Broken,    \* no such workbook; a workbook whose headers are not found
  Blank,              \* an empty cell
  Server, Cli,        \* the two importers
  UsesCli,            \* an operator runs the command too
  Alone,              \* never while the server imports
  None,
  MaxEdits, MaxCrashes  \* bounds of the run

ImportAssumption ==
  /\ Companies \subseteq Nat /\ {MaxEdits, MaxCrashes} \subseteq Nat /\ {UsesCli, Alone} \subseteq BOOLEAN
  /\ Server # Cli /\ Missing # Broken /\ None \notin Nat
  /\ {Missing, Broken} \cap (GovFiles \cup CityFiles) = {}

Importers == IF UsesCli THEN {Server, Cli} ELSE {Server}
Files == {"gov", "cities"} \X Companies
Inodes == 1..5  \* db, tmp, the open file of each importer, and a free one
Empty == [states |-> {}, rows |-> {}]

VARIABLES
  book,     \* [Files -> content]
  db, tmp,  \* the two names on the disk: an inode or None
  store,    \* [Inodes -> [data, newer, blind]]: committed rows, workbooks newer than the file,
            \* history: a workbook was changed while they were read, or removed
  imp,      \* [Importers -> the import in progress]
  catalog,  \* app.state.district_catalog (its rows, and the history `blind` of its file)
  touched,  \* history: a workbook changed since the server was started
  edits, crashes

disk == <<db, tmp, store>>
vars == <<book, disk, imp, catalog, touched, edits, crashes>>

\* `pairs` are the companies found, `left` those whose workbook is still to be read.
Idle == [pc |-> "idle", pairs |-> {}, left |-> {}, states |-> {}, file |-> None, rows |-> {},
         ok |-> FALSE, blind |-> FALSE]

Stages == {"idle", "gov", "clean", "connect", "build", "commit", "replace", "finally", "load", "up"}

TypeOK ==
  /\ book \in [Files -> GovFiles \cup CityFiles \cup {Missing, Broken}]
  /\ {db, tmp} \subseteq Inodes \cup {None} /\ (db # None => db # tmp)
  /\ \A i \in Inodes : store[i].newer \subseteq Files /\ store[i].blind \in BOOLEAN
  /\ \A p \in Importers : /\ imp[p].pc \in Stages /\ imp[p].file \in Inodes \cup {None}
                          /\ imp[p].left \subseteq imp[p].pairs /\ imp[p].pairs \subseteq Companies
                          /\ imp[p].file # None => imp[p].pc \in {"build", "commit"}
                          /\ p = Cli => imp[p].pc \notin {"load", "up"}
  /\ catalog # None => imp[Server].pc = "up"
  /\ touched \in BOOLEAN /\ edits \in 0..MaxEdits /\ crashes \in 0..MaxCrashes

Init ==
  /\ book \in [Files -> GovFiles \cup CityFiles]
  /\ \A c \in Companies : book[<<"gov", c>>] \in GovFiles /\ book[<<"cities", c>>] \in CityFiles
  /\ db = None /\ tmp = None
  /\ store = [i \in Inodes |-> [data |-> Empty, newer |-> {}, blind |-> FALSE]]
  /\ imp = [p \in Importers |-> Idle] /\ catalog = None /\ touched = FALSE
  /\ edits = 0 /\ crashes = 0

Importing(p) == imp[p].pc \notin {"idle", "load", "up"}
Used == {db, tmp} \cup {imp[p].file : p \in Importers}
\* The first inode that is free.
Fresh == {i \in Inodes \ Used : \A j \in Inodes \ Used : i <= j}

-----------------------------------------------------------------------------
(* The people who keep the workbooks. *)

\* A workbook is written (now newer than every file) or removed (newer than none).
Edit(f, content) ==
  /\ edits < MaxEdits /\ edits' = edits + 1 /\ content # book[f]
  /\ book' = [book EXCEPT ![f] = content] /\ touched' = TRUE
  /\ store' = [i \in Inodes |->
       IF content = Missing THEN [store[i] EXCEPT !.newer = @ \ {f}, !.blind = TRUE]
       ELSE [store[i] EXCEPT !.newer = @ \cup {f}]]
  /\ imp' = [p \in Importers |-> [imp[p] EXCEPT !.blind = @ \/ Importing(p)]]
  /\ UNCHANGED <<db, tmp, catalog, crashes>>

-----------------------------------------------------------------------------
(* import_catalog: the governorates of every company first. *)

Set(p, r) == imp' = [imp EXCEPT ![p] = r]
Fails(p) == Set(p, IF p = Cli THEN Idle ELSE [Idle EXCEPT !.pc = "up"])

Begin(p) ==
  LET found == {c \in Companies : book[<<"cities", c>>] # Missing}
  IN  IF found = {} THEN Fails(p)
      ELSE Set(p, [Idle EXCEPT !.pc = "gov", !.pairs = found, !.left = found])

\* The workbooks of the companies are read one after the other.
IsNext(p, c) == c \in imp[p].left /\ \A d \in imp[p].left : c <= d

\* Incomplete rows are reported.
Complete(content) == {row \in ToSet(content) : Blank \notin {row.code, row.name}}
\* No code has a second definition, which would be a conflict.
Agree(states) == \A s, t \in states : s.code = t.code => s = t

ReadGov(p, c) ==
  LET r == imp[p]
      content == book[<<"gov", c>>]
      states == r.states \cup Complete(content)
      left == r.left \ {c}
  IN  /\ r.pc = "gov" /\ IsNext(p, c)
      /\ IF content \in {Missing, Broken} THEN Fails(p)
         ELSE IF left # {} THEN Set(p, [r EXCEPT !.states = states, !.left = left])
         ELSE IF ~Agree(states) \/ states = {} THEN Fails(p)
         ELSE Set(p, [r EXCEPT !.pc = "clean", !.states = states, !.left = r.pairs])
      /\ UNCHANGED <<book, disk, catalog, touched, edits, crashes>>

-----------------------------------------------------------------------------
(* Then a new file beside the old one, and the old one replaced. *)

\* mutant: what a killed import has left is not removed.
CleanNothing(p) ==
  /\ imp[p].pc = "clean" /\ Set(p, [imp[p] EXCEPT !.pc = "connect"])
  /\ UNCHANGED <<book, disk, catalog, touched, edits, crashes>>

Clean(p) ==
  /\ imp[p].pc = "clean" /\ tmp' = None /\ Set(p, [imp[p] EXCEPT !.pc = "connect"])
  /\ UNCHANGED <<book, db, store, catalog, touched, edits, crashes>>

\* The schema fails on a file that has tables already, and finally removes that file.
Connect(p) ==
  /\ imp[p].pc = "connect"
  /\ IF tmp # None THEN Set(p, [imp[p] EXCEPT !.pc = "finally"]) /\ UNCHANGED disk
     ELSE \E i \in Fresh :
            /\ tmp' = i /\ Set(p, [imp[p] EXCEPT !.pc = "build", !.file = i])
            /\ store' = [store EXCEPT ![i] = [data |-> Empty, newer |-> {}, blind |-> FALSE]]
            /\ UNCHANGED db
  /\ UNCHANGED <<book, catalog, touched, edits, crashes>>

\* The rows of a company with a name and a known state, each once.
Accepted(states, c, content) ==
  {[company |-> c, code |-> row.code, name |-> row.name] :
     row \in {x \in ToSet(content) : x.name # Blank /\ \E s \in states : s.code = x.code}}

Build(p, c) ==
  LET r == imp[p]
      content == book[<<"cities", c>>]
      more == [r EXCEPT !.rows = @ \cup Accepted(r.states, c, content), !.left = @ \ {c}]
  IN  /\ r.pc = "build" /\ IsNext(p, c)
      /\ Set(p, IF content \in {Missing, Broken} THEN [r EXCEPT !.pc = "finally", !.file = None]
                ELSE IF more.left # {} THEN more ELSE [more EXCEPT !.pc = "commit"])
      /\ UNCHANGED <<book, disk, catalog, touched, edits, crashes>>

\* The last write of the file: it is newer than every workbook, also than those edited meanwhile.
Commit(p) ==
  LET r == imp[p]
  IN  /\ r.pc = "commit" /\ Set(p, [r EXCEPT !.pc = "replace", !.file = None])
      /\ store' = [store EXCEPT ![r.file] = [data |-> [states |-> r.states, rows |-> r.rows],
                                             newer |-> {}, blind |-> r.blind]]
      /\ UNCHANGED <<book, db, tmp, catalog, touched, edits, crashes>>

\* os.replace, of whatever file now has the name.
Replace(p) ==
  /\ imp[p].pc = "replace" /\ Set(p, [imp[p] EXCEPT !.pc = "finally", !.ok = (tmp # None)])
  /\ IF tmp = None THEN UNCHANGED disk ELSE db' = tmp /\ tmp' = None /\ UNCHANGED store
  /\ UNCHANGED <<book, catalog, touched, edits, crashes>>

Finally(p) ==
  /\ imp[p].pc = "finally" /\ tmp' = None
  /\ IF p = Server /\ imp[p].ok THEN Set(p, [Idle EXCEPT !.pc = "load"]) ELSE Fails(p)
  /\ UNCHANGED <<book, db, store, catalog, touched, edits, crashes>>

-----------------------------------------------------------------------------
(* The server and the command. *)

Stale == db = None \/ store[db].newer # {}

Waits(p) == Alone /\ \E q \in Importers \ {p} : Importing(q)

Boot ==
  /\ imp[Server].pc = "idle" /\ ~(Waits(Server) /\ Stale) /\ touched' = FALSE /\ catalog' = None
  /\ IF Stale THEN Begin(Server) ELSE Set(Server, [Idle EXCEPT !.pc = "load"])
  /\ UNCHANGED <<book, disk, edits, crashes>>

\* Catalog(): a snapshot of what the file holds.  A failed import leaves the server without one.
LoadCatalog ==
  /\ imp[Server].pc = "load" /\ catalog' = [data |-> store[db].data, blind |-> store[db].blind]
  /\ Set(Server, [Idle EXCEPT !.pc = "up"])
  /\ UNCHANGED <<book, disk, touched, edits, crashes>>

Command ==
  /\ UsesCli /\ imp[Cli].pc = "idle" /\ ~Waits(Cli) /\ Begin(Cli)
  /\ UNCHANGED <<book, disk, catalog, touched, edits, crashes>>

\* Stopped, or killed at its start or in an import: rows that were not committed are gone with the connection.
Crash(p) ==
  /\ imp[p].pc # "idle" /\ Set(p, Idle)
  /\ IF imp[p].pc = "up" THEN UNCHANGED crashes ELSE crashes < MaxCrashes /\ crashes' = crashes + 1
  /\ catalog' = IF p = Server THEN None ELSE catalog
  /\ UNCHANGED <<book, disk, touched, edits>>

Import(p) ==
  \/ \E c \in Companies : ReadGov(p, c) \/ Build(p, c)
  \/ Clean(p) \/ Connect(p) \/ Commit(p) \/ Replace(p) \/ Finally(p)

Next ==
  \/ \E f \in Files : \E content \in (IF f[1] = "gov" THEN GovFiles ELSE CityFiles) \cup {Missing, Broken} :
       Edit(f, content)
  \/ Boot \/ LoadCatalog \/ Command
  \/ \E p \in Importers : Import(p) \/ Crash(p)

Spec == Init /\ [][Next]_vars

-----------------------------------------------------------------------------
(* What a correct import of the workbooks, as they are now, gives. *)

Listed == {c \in Companies : book[<<"cities", c>>] # Missing}
Known == {row \in UNION {ToSet(book[<<"gov", c>>]) : c \in Listed} : Blank \notin {row.code, row.name}}

Good ==
  /\ Listed # {} /\ \A c \in Listed : book[<<"gov", c>>] \notin {Missing, Broken} /\ book[<<"cities", c>>] # Broken
  /\ Known # {} /\ \A s, t \in Known : s.code = t.code => s = t

Current ==
  [states |-> Known,
   rows |-> UNION {{[company |-> c, code |-> row.code, name |-> row.name] :
                      row \in {x \in ToSet(book[<<"cities", c>>]) :
                                 x.name # Blank /\ x.code \in {s.code : s \in Known}}} : c \in Listed}]

\* The file under the name of the catalog is always the whole of one import: it
\* has governorates, each defined once, and every district has one of them
\* ("atomically replace the catalog", catalog.py:43; os.replace at line 128).
DatabaseIsWhole ==
  db # None =>
    LET d == store[db].data
    IN  /\ d.states # {} /\ \A s, t \in d.states : s.code = t.code => s = t
        /\ \A row \in d.rows : \E s \in d.states : s.code = row.code

\* A server whose workbooks have not changed since it was started serves what
\* they say, unless one of them changed while the import it serves was reading,
\* or was removed: the staleness check cannot see either (router.py:27-31).
ServedIsCurrent ==
  catalog # None /\ ~touched /\ ~catalog.blind => Good /\ catalog.data = Current

\* A server started over good workbooks gets its catalog, whatever an import
\* that was killed has left on the disk (catalog.py:80-82, 129-131).
Recovers ==
  imp[Server].pc = "idle" /\ Good /\ edits = MaxEdits /\ crashes = MaxCrashes ~> catalog # None
=============================================================================
