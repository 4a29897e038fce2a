---------------------------- MODULE SemanticIndex ----------------------------
(***************************************************************************)
(* The vectors of the catalog (district_correction/semantic.py): each list *)
(* of names, of a company and a governorate, is embedded once, in batches, *)
(* by the first request that needs it, behind a lock of its own, and kept. *)
(* A request then embeds its own texts and ranks the names, or comes back  *)
(* to correction.py without a ranking when the server fails it.            *)
(*                                                                         *)
(* The names of a key do not change while the process lives: the catalog   *)
(* is immutable.  A request may be cancelled at any await.                 *)
(***************************************************************************)
EXTENDS Naturals, FiniteSets

CONSTANTS
  Requests, Keys,
  NameBatches,  \* batches of the names of a key
  None

ASSUME SemanticAssumption == NameBatches \in Nat \ {0} /\ None \notin Requests

VARIABLES
  pc,       \* [Requests -> stage]
  key,      \* [Requests -> the key asked for]
  answered,     \* [Requests -> batches of the names answered]
  lock,     \* [Keys -> the request inside, or None]
  vectors,  \* [Keys -> batches of the names in the cache, 0 when there is no entry]
  embedded  \* history: [Keys -> embeddings of the whole list that came to their end]

indexVars == <<pc, key, answered, lock, vectors, embedded>>

Stages == {"idle", "check", "wait", "locked", "embed", "keep", "query", "ranked", "failed", "cancelled"}
Over == {"ranked", "failed", "cancelled"}
Inside == {"locked", "embed", "keep"}

IndexTypeOK ==
  /\ pc \in [Requests -> Stages] /\ key \in [Requests -> Keys] /\ answered \in [Requests -> 0..NameBatches]
  /\ lock \in [Keys -> Requests \cup {None}] /\ vectors \in [Keys -> 0..NameBatches]
  /\ \A r \in Requests : pc[r] \in Inside <=> lock[key[r]] = r
  /\ embedded \in [Keys -> Nat]

IndexInit ==
  /\ pc = [r \in Requests |-> "idle"] /\ key \in [Requests -> Keys] /\ answered = [r \in Requests |-> 0]
  /\ lock = [k \in Keys |-> None] /\ vectors = [k \in Keys |-> 0] /\ embedded = [k \in Keys |-> 0]

Go(r, to) == pc' = [pc EXCEPT ![r] = to]

Ask(r) == pc[r] = "idle" /\ Go(r, "check") /\ UNCHANGED <<key, answered, lock, vectors, embedded>>

Cached(k) == vectors[k] > 0

Check(r) ==
  /\ pc[r] = "check" /\ Go(r, IF Cached(key[r]) THEN "query" ELSE "wait")
  /\ UNCHANGED <<key, answered, lock, vectors, embedded>>

Lock(r) ==
  /\ pc[r] = "wait" /\ lock[key[r]] = None /\ lock' = [lock EXCEPT ![key[r]] = r] /\ Go(r, "locked")
  /\ UNCHANGED <<key, answered, vectors, embedded>>

\* mutant: not looked at again inside the lock.
EmbedAnyway(r) ==
  /\ pc[r] = "locked" /\ Go(r, "embed") /\ answered' = [answered EXCEPT ![r] = 0]
  /\ UNCHANGED <<key, lock, vectors, embedded>>

\* Another request may have embedded the names while this one waited.
CheckAgain(r) ==
  /\ pc[r] = "locked" /\ answered' = [answered EXCEPT ![r] = 0]
  /\ IF Cached(key[r]) THEN Go(r, "query") /\ lock' = [lock EXCEPT ![key[r]] = None]
     ELSE Go(r, "embed") /\ UNCHANGED lock
  /\ UNCHANGED <<key, vectors, embedded>>

Batch(r) ==
  /\ pc[r] = "embed" /\ answered' = [answered EXCEPT ![r] = @ + 1]
  /\ Go(r, IF answered'[r] = NameBatches THEN "keep" ELSE "embed")
  /\ UNCHANGED <<key, lock, vectors, embedded>>

Keep(r) ==
  /\ pc[r] = "keep" /\ vectors' = [vectors EXCEPT ![key[r]] = answered[r]]
  /\ embedded' = [embedded EXCEPT ![key[r]] = @ + 1]
  /\ lock' = [lock EXCEPT ![key[r]] = None] /\ Go(r, "query")
  /\ UNCHANGED <<key, answered>>

\* mutant: an error leaves the lock taken.
FailsLocked(r) == pc[r] \in {"embed", "query"} /\ Go(r, "failed") /\ UNCHANGED <<key, answered, lock, vectors, embedded>>

\* EmbeddingError, or the error of a list that is not of one length; of the names or of the texts:
\* the lock is left.
Fails(r) ==
  /\ pc[r] \in {"embed", "query"} /\ Go(r, "failed")
  /\ lock' = [lock EXCEPT ![key[r]] = IF @ = r THEN None ELSE @]
  /\ UNCHANGED <<key, answered, vectors, embedded>>

Rank(r) == pc[r] = "query" /\ Go(r, "ranked") /\ UNCHANGED <<key, answered, lock, vectors, embedded>>

Cancel(r) ==
  /\ pc[r] \in {"wait", "embed", "query"} /\ Go(r, "cancelled")
  /\ lock' = [lock EXCEPT ![key[r]] = IF @ = r THEN None ELSE @]
  /\ UNCHANGED <<key, answered, vectors, embedded>>

Work(r) == Check(r) \/ Lock(r) \/ CheckAgain(r) \/ Batch(r) \/ Keep(r) \/ Rank(r)

IndexNext == \E r \in Requests : Ask(r) \/ Work(r) \/ Fails(r) \/ Cancel(r)

IndexSpec == IndexInit /\ [][IndexNext]_indexVars

-----------------------------------------------------------------------------
\* However many requests ask at once, and whichever of them fail or are given up,
\* the names of a key are embedded to their end once (semantic.py:70-81).
EmbeddedOnce == \A k \in Keys : embedded[k] <= 1

\* A ranking is made over all the names: a request that fails or is cancelled
\* between two batches leaves nothing in the cache (semantic.py:52-68, 76-81).
RankedOverAll == \A r \in Requests : pc[r] \in {"query", "ranked"} => vectors[key[r]] = NameBatches

\* Of requests that ask for the same names at once the first embeds them, to the end or not at all,
\* and the others rank over what it kept (semantic.py:52-81).
IndexSafe == IndexTypeOK /\ EmbeddedOnce /\ RankedOverAll

\* Every request comes to its end: nobody goes with the lock of a key
\* (semantic.py:76-81).
RequestsEnd == \A r \in Requests : pc[r] # "idle" ~> pc[r] \in Over
=============================================================================
