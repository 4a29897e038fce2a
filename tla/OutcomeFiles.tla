---------------------------- MODULE OutcomeFiles ----------------------------
(***************************************************************************)
(* The files of the outcomes of calls (voice_followup/outcomes.py): one    *)
(* JSON file for each room, written beside and put in place, removed when  *)
(* its time is over or when there are too many, and the answer to the      *)
(* application that polls (router.py).  All of it runs in the event loop   *)
(* of one process, without an await: nothing comes between the steps of a  *)
(* save but the end of the process.                                        *)
(***************************************************************************)
EXTENDS Naturals, FiniteSets

CONSTANTS
  Rooms,
  Ttl,       \* call_outcomes_ttl_hours, in ticks of the run
  MaxFiles,  \* call_outcomes_max_files
  None, Partial,
  MaxSaves, MaxCrashes  \* bounds of the run

OutcomeFilesAssumption ==
  /\ Ttl \in Nat /\ MaxFiles \in Nat \ {0} /\ {MaxSaves, MaxCrashes} \subseteq Nat
  /\ IsFiniteSet(Rooms) /\ None \notin Nat \cup Rooms /\ Partial \notin Nat \cup {None}

VARIABLES
  file,     \* [Rooms -> the outcome in {room}.json, or None]
  age,      \* [Rooms -> ticks since the room's file was written], never above Ttl + 1
  tmp,      \* [Rooms -> what is in {room}.{pid}.tmp, or None]; one left by a process that
            \* ended is never read: the name of the next one has another pid
  save,     \* the save in progress
  saved,    \* history: [Rooms -> the last outcome that was put in place, or None]; an outcome is
            \* the number of its save, which stands for st_mtime too: saves come one after the other
  saves, crashes

vars == <<file, age, tmp, save, saved, saves, crashes>>

Idle == [pc |-> "idle", room |-> None]

TypeOK ==
  /\ file \in [Rooms -> (1..MaxSaves) \cup {None}] /\ age \in [Rooms -> 0..(Ttl + 1)]
  /\ saved \in [Rooms -> (1..MaxSaves) \cup {None}]
  /\ \A r, q \in Rooms : saved[r] # None /\ saved[r] = saved[q] => r = q
  /\ tmp \in [Rooms -> (1..MaxSaves) \cup {None, Partial}]
  /\ save.pc \in {"idle", "tmp", "written", "prune"} /\ (save.pc = "idle" <=> save.room = None)
  /\ \A r \in Rooms : file[r] # None => file[r] = saved[r]
  /\ saves \in 0..MaxSaves /\ crashes \in 0..MaxCrashes

Init ==
  /\ file = [r \in Rooms |-> None] /\ age = [r \in Rooms |-> 0]
  /\ tmp = [r \in Rooms |-> None] /\ save = Idle /\ saved = [r \in Rooms |-> None]
  /\ saves = 0 /\ crashes = 0

\* Time passes between saves: a save takes none.
Tick ==
  /\ save.pc = "idle" /\ \E r \in Rooms : saved[r] # None /\ age[r] <= Ttl
  /\ age' = [r \in Rooms |-> IF saved[r] # None /\ age[r] <= Ttl THEN age[r] + 1 ELSE age[r]]
  /\ UNCHANGED <<file, tmp, save, saved, saves, crashes>>

Begin(r) ==
  /\ save.pc = "idle" /\ saves < MaxSaves /\ saves' = saves + 1
  /\ save' = [pc |-> "tmp", room |-> r] /\ tmp' = [tmp EXCEPT ![r] = Partial]
  /\ UNCHANGED <<file, age, saved, crashes>>

Write ==
  /\ save.pc = "tmp" /\ save' = [save EXCEPT !.pc = "written"]
  /\ tmp' = [tmp EXCEPT ![save.room] = saves]
  /\ UNCHANGED <<file, age, saved, saves, crashes>>

Replace ==
  LET r == save.room
  IN  /\ save.pc = "written" /\ save' = [save EXCEPT !.pc = "prune"]
      /\ file' = [file EXCEPT ![r] = tmp[r]] /\ saved' = [saved EXCEPT ![r] = tmp[r]]
      /\ tmp' = [tmp EXCEPT ![r] = None] /\ age' = [age EXCEPT ![r] = 0]
      /\ UNCHANGED <<saves, crashes>>

PastTime == {r \in Rooms : file[r] # None /\ age[r] > Ttl}
Alive == {r \in Rooms : file[r] # None /\ age[r] <= Ttl}

\* mutant: sorted the other way: the newest are removed.
DoomedNewest ==
  PastTime \cup {r \in Alive : Cardinality({q \in Alive : file[q] < file[r]}) >= MaxFiles}

\* The files past their time, then the oldest of the others while there are too many.
Doomed ==
  PastTime \cup {r \in Alive : Cardinality({q \in Alive : file[q] > file[r]}) >= MaxFiles}

Prune ==
  /\ save.pc = "prune" /\ save' = Idle
  /\ file' = [r \in Rooms |-> IF r \in Doomed THEN None ELSE file[r]]
  /\ UNCHANGED <<age, tmp, saved, saves, crashes>>

\* The process ends between two steps, or with some of the files removed.
Crash ==
  /\ save.pc # "idle" /\ crashes < MaxCrashes /\ crashes' = crashes + 1 /\ save' = Idle
  /\ \E gone \in SUBSET (IF save.pc = "prune" THEN Doomed ELSE {}) :
       file' = [r \in Rooms |-> IF r \in gone THEN None ELSE file[r]]
  /\ UNCHANGED <<age, tmp, saved, saves>>

Next == Tick \/ (\E r \in Rooms : Begin(r)) \/ Write \/ Replace \/ Prune \/ Crash

Spec == Init /\ [][Next]_vars

-----------------------------------------------------------------------------
\* load_outcome, get_outcome
Answer(r) == IF file[r] = None \/ age[r] > Ttl THEN "pending" ELSE "done"

SavedAfter(r) == {q \in Rooms : saved[q] # None /\ saved[q] > saved[r]}

\* An outcome is served from the moment it is put in place until its time is over
\* or MaxFiles others were saved after it, whatever was removed in between and
\* wherever the process ended (outcomes.py:49-74).
NewestAreServed ==
  \A r \in Rooms :
    saved[r] # None /\ age[r] <= Ttl /\ Cardinality(SavedAfter(r)) < MaxFiles
      => Answer(r) = "done" /\ file[r] = saved[r]

\* The directory does not grow: after a save that came to its end there are at
\* most MaxFiles files, also when an earlier one was cut off (outcomes.py:62-65).
DirectoryIsBounded ==
  [][Prune => Cardinality({r \in Rooms : file'[r] # None}) <= MaxFiles]_vars

\* "[The outcome] stays CALL_OUTCOMES_TTL_HOURS (24 hours) and is pending after
\* that" (docs/api/voice-followup.md:76).
\* The code does not keep this: README, section 6.
KeptForItsTime == \A r \in Rooms : saved[r] # None /\ age[r] <= Ttl => Answer(r) = "done"
=============================================================================
