--------------------------- MODULE BatchLifecycle ---------------------------
(***************************************************************************)
(* What the Orchestrator promises about batches and their work items, with *)
(* no queue, managers or locks: batches are submitted in order and started *)
(* one at a time in that order (deleted ones may be skipped); while a      *)
(* batch is current its items get results, and results are never lost;    *)
(* a batch ends done only with every item recorded (unless a stop cut it   *)
(* short) and ends removed only if it was deleted.  Orchestrator.tla is    *)
(* shown to implement it through a refinement mapping.                     *)
(***************************************************************************)
EXTENDS Naturals, SequencesExt

CONSTANTS
    Batches,     \* batch ids 1..n
    BatchFiles   \* [Batches -> Seq(Items)]: the work items of each batch

VARIABLES
    status,      \* [Batches -> {"none", "waiting", "running", "done", "removed"}]
    deleted,     \* batches marked deleted
    current,     \* the batch being processed, or the last one (0: none yet)
    recorded,    \* the items of the current batch that have a result
    stopped      \* a stop was requested

vars == <<status, deleted, current, recorded, stopped>>

Files(b) == ToSet(BatchFiles[b])
Ended(b) == status[b] \in {"done", "removed"}

Init ==
    /\ status = [b \in Batches |-> "none"]
    /\ deleted = {}
    /\ current = 0
    /\ recorded = {}
    /\ stopped = FALSE

\* Batches are handed over in id order.
Submit(b) ==
    /\ status[b] = "none"
    /\ \A x \in 1..(b - 1) : status[x] # "none"
    /\ status' = [status EXCEPT ![b] = "waiting"]
    /\ UNCHANGED <<deleted, current, recorded, stopped>>

Delete(b) ==
    /\ status[b] \in {"waiting", "running", "done"}
    /\ b \notin deleted
    /\ deleted' = deleted \cup {b}
    /\ UNCHANGED <<status, current, recorded, stopped>>

\* The next batch starts once the current one has ended; the batches
\* passed over are the deleted ones.  It starts with no result recorded.
Start(b) ==
    /\ ~stopped
    /\ status[b] = "waiting"
    /\ b > current
    /\ current = 0 \/ Ended(current)
    /\ \A x \in (current + 1)..(b - 1) : x \in deleted
    /\ current' = b
    /\ recorded' = {}
    /\ UNCHANGED <<status, deleted, stopped>>

Run ==
    /\ current # 0
    /\ status[current] = "waiting"
    /\ current \notin deleted
    /\ status' = [status EXCEPT ![current] = "running"]
    /\ UNCHANGED <<deleted, current, recorded, stopped>>

\* An item of the current batch gets its first result.
Record(fp) ==
    /\ ~stopped
    /\ current # 0
    /\ ~Ended(current)
    /\ fp \in Files(current) \ recorded
    /\ recorded' = recorded \cup {fp}
    /\ UNCHANGED <<status, deleted, current, stopped>>

\* The current batch ends: removed if deleted, else done, which needs
\* every item recorded unless stopped.
Finish ==
    /\ current # 0
    /\ status[current] \in {"waiting", "running"}
    /\ \/ /\ current \in deleted
          /\ status' = [status EXCEPT ![current] = "removed"]
       \/ /\ current \notin deleted
          /\ stopped \/ recorded = Files(current)
          /\ status' = [status EXCEPT ![current] = "done"]
    /\ UNCHANGED <<deleted, current, recorded, stopped>>

Stop ==
    /\ ~stopped
    /\ stopped' = TRUE
    /\ UNCHANGED <<status, deleted, current, recorded>>

Next ==
    \/ \E b \in Batches : Submit(b) \/ Delete(b) \/ Start(b)
    \/ Run
    \/ \E fp \in UNION {Files(b) : b \in Batches} : Record(fp)
    \/ Finish
    \/ Stop

Spec == Init /\ [][Next]_vars

(* The liveness promise: a started batch is not left waiting for its      *)
(* running status, its items keep getting results, and once it can end it *)
(* ends.  Starting is not fair: a deleted batch is skipped and a stop ends *)
(* the loop.                                                               *)
Fairness ==
    /\ WF_vars(Run)
    /\ WF_vars(Finish)
    /\ \A fp \in UNION {Files(b) : b \in Batches} : WF_vars(Record(fp))

FairSpec == Spec /\ Fairness
====
