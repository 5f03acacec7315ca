----------------------------- MODULE CursorStore -----------------------------
(***************************************************************************)
(* What be/src/jobs/state.ts promises about the ids a job remembers, with  *)
(* no runs, attempts or staging in sight: per job, one window of ids that  *)
(* grows by whole batches of ids it did not hold, is emptied by a reset,   *)
(* and comes back from its file (or empty) when the process restarts.      *)
(* JobRunner is shown to implement it.                                     *)
(***************************************************************************)
EXTENDS Integers, Sequences, Functions

CONSTANTS
    Jobs,           \* the catalogue: job ids
    Ids,            \* item ids a source hands out
    SeenCapacity,   \* state.ts seenCapacity(): the window
    MaxBatch        \* bound: how many new ids one run asks about

VARIABLES
    store,          \* state.ts `store`: the window each job holds in memory
    disk            \* the window in job-state.json

storeVars == <<store, disk>>

\* A list of ids, as `stagedIds` and `seen` are.
Batch(n) == [1..n -> Ids]

\* seen.slice(-seenCapacity()): the newest ids that fit the window.
Newest(s) ==
    IF Len(s) <= SeenCapacity THEN s
    ELSE SubSeq(s, Len(s) - SeenCapacity + 1, Len(s))

Forgotten == [j \in Jobs |-> <<>>]

\* save() replaces the file, or fails and leaves it: the error is only logged.
Save == disk' \in {store', disk}

StoreInit ==
    /\ store = Forgotten
    /\ disk = Forgotten

\* One run's ids, all of them and none of them known before.
Add(j, ids) ==
    /\ IsInjective(ids)
    /\ Range(ids) \cap Range(store[j]) = {}
    /\ store' = [store EXCEPT ![j] = Newest(@ \o ids)]

Remember(j) ==
    /\ \E n \in 1..MaxBatch : \E ids \in Batch(n) : Add(j, ids)
    /\ Save

Forget(j) ==
    /\ store' = [store EXCEPT ![j] = <<>>]
    /\ Save

\* A restart reads the file back; a file torn by the crash reads as nothing.
Reload ==
    /\ store' \in {disk, Forgotten}
    /\ disk' = store'

StoreNext == Reload \/ \E j \in Jobs : Remember(j) \/ Forget(j)

StoreSpec == StoreInit /\ [][StoreNext]_storeVars
=============================================================================
