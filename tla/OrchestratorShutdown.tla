------------------------ MODULE OrchestratorShutdown ------------------------
(***************************************************************************)
(* The lock-level view of batchkit's Orchestrator around the end of a      *)
(* batch and the end of the process (src/batchkit/orchestrator.py): the   *)
(* master thread's final summary, status change and _master_finalize, the  *)
(* run-summary thread, request_stop, and the work callbacks, with          *)
(* _accounting_lock (reentrant), _run_summary_lock and the gate as state.  *)
(* The accounting itself is reduced to the progress of the current batch   *)
(* (items with a result, out of ItemsPerBatch); Orchestrator.tla models    *)
(* it in full.  A step is what a thread does between two lock requests.    *)
(***************************************************************************)
EXTENDS Integers, Sequences, FiniteSets

CONSTANTS
    Batches,        \* batch ids 1..n, all submitted at the start
    ItemsPerBatch,  \* work items of every batch
    Singleton,      \* singleton_run_summary_path is set
    StopSentinel,   \* the None request_stop puts on the submission queue
    NoThread        \* owner of a free lock

Threads == {"master", "summary"}
Progress == 0..ItemsPerBatch

ASSUME
    /\ Batches = 1..Cardinality(Batches)
    /\ ItemsPerBatch \in Nat \ {0}
    /\ Singleton \in BOOLEAN

VARIABLES
    acc_owner,       \* holder of _accounting_lock
    rsl_owner,       \* holder of _run_summary_lock
    master_pc,       \* position of the master thread
    summary_pc,      \* position of the run-summary thread
    stop_requested,  \* _stop_requested
    evt,             \* _batch_completion_evt
    gate,            \* _run_summary_thread_gate
    on_batch_id,     \* _on_batch_id (0 stands for -1)
    progress,        \* results recorded in the current batch
    submission,      \* _submission_que
    request,         \* the master thread's current request
    status,          \* status enum of each batch in the status provider
    snap,            \* per thread, the <<batch id, progress>> snapshot it is about to write
    written,         \* per batch, the progress of the last run summary written (-1: none)
    singleton_file   \* <<batch id, progress>> of the last singleton run summary (NoSnap: none)

vars == <<acc_owner, rsl_owner, master_pc, summary_pc, stop_requested,
          evt, gate, on_batch_id, progress, submission, request, status, snap, written, singleton_file>>

AccFree == acc_owner = NoThread
RslFree == rsl_owner = NoThread

NoSnap == <<0, 0>>

\* With singleton_run_summary_path set, every summary overwrites that one
\* file; otherwise it goes to the batch the snapshot names (set_run_summary).
Write(b, p) ==
    IF Singleton
    THEN singleton_file' = <<b, p>> /\ UNCHANGED written
    ELSE /\ written' = IF b = 0 THEN written ELSE [written EXCEPT ![b] = p]
         /\ UNCHANGED singleton_file

-----------------------------------------------------------------------------
(***************************************************************************)
(* write_summary_information, shared by both threads: with                 *)
(* _run_summary_lock held, take the snapshot under _accounting_lock, then  *)
(* release it and write.  The master's _master_finalize already holds      *)
(* _accounting_lock when it calls this; the RLock lets it re-enter.        *)
(***************************************************************************)
\* Mutant: _run_summary_lock held around the snapshot only, not the write.
TakeSnapshot_lock_released(t) ==
    /\ rsl_owner = t
    /\ AccFree \/ acc_owner = t
    /\ snap' = [snap EXCEPT ![t] = <<on_batch_id, progress>>]
    /\ rsl_owner' = NoThread

TakeSnapshot(t) ==
    /\ rsl_owner = t
    /\ AccFree \/ acc_owner = t
    /\ snap' = [snap EXCEPT ![t] = <<on_batch_id, progress>>]
    /\ UNCHANGED rsl_owner

\* The write, then the end of the with-block (the caller owns the lock).
WriteSnapshot(t) ==
    /\ Write(snap[t][1], snap[t][2])
    /\ rsl_owner' = NoThread
    /\ snap' = [snap EXCEPT ![t] = NoSnap]

-----------------------------------------------------------------------------
Init ==
    /\ acc_owner = NoThread
    /\ rsl_owner = NoThread
    /\ master_pc = "get"
    /\ summary_pc = "loop"
    /\ stop_requested = FALSE
    /\ evt = FALSE
    /\ gate = FALSE
    /\ on_batch_id = 0
    /\ progress = 0
    /\ submission = [i \in 1..Cardinality(Batches) |-> i]
    /\ request = StopSentinel
    /\ status = [b \in Batches |-> "waiting"]
    /\ snap = [t \in Threads |-> NoSnap]
    /\ written = [b \in Batches |-> -1]
    /\ singleton_file = NoSnap

MGoto(pc) == master_pc' = pc
SGoto(pc) == summary_pc' = pc

\* request = self._submission_que.get(), then the _accounting_lock block
\* that records _on_batch_type.
MGet ==
    /\ master_pc = "get"
    /\ submission # <<>>
    /\ AccFree
    /\ request' = Head(submission)
    /\ submission' = Tail(submission)
    /\ MGoto("hotswap")
    /\ UNCHANGED <<acc_owner, rsl_owner, summary_pc, stop_requested, evt, gate,
                   on_batch_id, progress, status, snap, written, singleton_file>>

\* hotswap_endpoint_managers(): one _accounting_lock block (it returns
\* at once after a stop); the fleet itself is modelled in Orchestrator.
MHotswap ==
    /\ master_pc = "hotswap"
    /\ AccFree
    /\ MGoto("start")
    /\ UNCHANGED <<acc_owner, rsl_owner, summary_pc, stop_requested, evt, gate,
                   on_batch_id, progress, submission, request, status, snap, written, singleton_file>>

\* The batch-start block under _accounting_lock, then the status block
\* (running).  After a stop, _master_finalize runs still holding the lock,
\* and only writes when a singleton run summary is configured.
\* Mutant: the batch-start block does not clear _batch_completion_evt.
MStart_keeps_evt ==
    /\ master_pc = "start"
    /\ AccFree
    /\ \/ /\ ~stop_requested
          /\ on_batch_id' = request
          /\ progress' = 0
          /\ gate' = TRUE
          /\ status' = [status EXCEPT ![request] = "running"]
          /\ MGoto("wait")
          /\ UNCHANGED <<acc_owner, evt>>
       \/ /\ stop_requested
          /\ IF Singleton
             THEN acc_owner' = "master" /\ MGoto("finalize")
             ELSE UNCHANGED acc_owner /\ MGoto("exited")
          /\ UNCHANGED <<on_batch_id, progress, evt, gate, status>>
    /\ UNCHANGED <<rsl_owner, summary_pc, stop_requested, submission, request,
                   snap, written, singleton_file>>

MStart ==
    /\ master_pc = "start"
    /\ AccFree
    /\ \/ /\ ~stop_requested
          /\ on_batch_id' = request
          /\ progress' = 0
          /\ evt' = FALSE
          /\ gate' = TRUE
          /\ status' = [status EXCEPT ![request] = "running"]
          /\ MGoto("wait")
          /\ UNCHANGED acc_owner
       \/ /\ stop_requested
          /\ IF Singleton
             THEN acc_owner' = "master" /\ MGoto("finalize")
             ELSE UNCHANGED acc_owner /\ MGoto("exited")
          /\ UNCHANGED <<on_batch_id, progress, evt, gate, status>>
    /\ UNCHANGED <<rsl_owner, summary_pc, stop_requested, submission, request,
                   snap, written, singleton_file>>

\* _master_finalize: write_summary_information(write_run_summary=False)
\* takes _run_summary_lock while the master holds _accounting_lock.  Once
\* it has it, nothing else blocks: snapshot, no write, release both, return.
MFinalize ==
    /\ master_pc = "finalize"
    /\ RslFree
    /\ acc_owner' = NoThread
    /\ MGoto("exited")
    /\ UNCHANGED <<rsl_owner, summary_pc, stop_requested, evt, gate, on_batch_id,
                   progress, submission, request, status, snap, written, singleton_file>>

\* self._batch_completion_evt.wait()
MWait ==
    /\ master_pc = "wait"
    /\ evt
    /\ MGoto("sumLock")
    /\ UNCHANGED <<acc_owner, rsl_owner, summary_pc, stop_requested, evt, gate,
                   on_batch_id, progress, submission, request, status, snap, written, singleton_file>>

\* The per-batch final run summary (allow_fail=True).
MSumLock ==
    /\ master_pc = "sumLock"
    /\ RslFree
    /\ rsl_owner' = "master"
    /\ MGoto("sumSnap")
    /\ UNCHANGED <<acc_owner, summary_pc, stop_requested, evt, gate, on_batch_id,
                   progress, submission, request, status, snap, written, singleton_file>>

MSumSnap ==
    /\ master_pc = "sumSnap"
    /\ TakeSnapshot("master")
    /\ MGoto("sumWrite")
    /\ UNCHANGED <<acc_owner, summary_pc, stop_requested, evt, gate,
                   on_batch_id, progress, submission, request, status, written, singleton_file>>

MSumWrite ==
    /\ master_pc = "sumWrite"
    /\ WriteSnapshot("master")
    /\ MGoto("status")
    /\ UNCHANGED <<acc_owner, summary_pc, stop_requested, evt, gate, on_batch_id,
                   progress, submission, request, status>>

\* Under the status provider's lock: done (deletions are in Orchestrator).
MStatus ==
    /\ master_pc = "status"
    /\ status' = [status EXCEPT ![request] = "done"]
    /\ MGoto("clearGate")
    /\ UNCHANGED <<acc_owner, rsl_owner, summary_pc, stop_requested, evt, gate,
                   on_batch_id, progress, submission, request, snap, written, singleton_file>>

MClearGate ==
    /\ master_pc = "clearGate"
    /\ gate' = FALSE
    /\ MGoto("get")
    /\ UNCHANGED <<acc_owner, rsl_owner, summary_pc, stop_requested, evt,
                   on_batch_id, progress, submission, request, status, snap, written, singleton_file>>

Master == MGet \/ MHotswap \/ MStart \/ MFinalize \/ MWait \/ MSumLock
          \/ MSumSnap \/ MSumWrite \/ MStatus \/ MClearGate
-----------------------------------------------------------------------------
(* _run_summary_loop                                                       *)
\* while not self._stop_requested
SLoop ==
    /\ summary_pc = "loop"
    /\ SGoto(IF stop_requested THEN "exited" ELSE "gate")
    /\ UNCHANGED <<acc_owner, rsl_owner, master_pc, stop_requested, evt, gate,
                   on_batch_id, progress, submission, request, status, snap, written, singleton_file>>

\* gate.wait(); return on stop; write only once a batch has started
\* (the time.sleep before the next round changes nothing).
SGate ==
    /\ summary_pc = "gate"
    /\ gate
    /\ SGoto(IF stop_requested THEN "exited"
             ELSE IF on_batch_id > 0 THEN "lock" ELSE "loop")
    /\ UNCHANGED <<acc_owner, rsl_owner, master_pc, stop_requested, evt, gate,
                   on_batch_id, progress, submission, request, status, snap, written, singleton_file>>

SLock ==
    /\ summary_pc = "lock"
    /\ RslFree
    /\ rsl_owner' = "summary"
    /\ SGoto("snap")
    /\ UNCHANGED <<acc_owner, master_pc, stop_requested, evt, gate, on_batch_id,
                   progress, submission, request, status, snap, written, singleton_file>>

SSnap ==
    /\ summary_pc = "snap"
    /\ TakeSnapshot("summary")
    /\ SGoto("write")
    /\ UNCHANGED <<acc_owner, master_pc, stop_requested, evt, gate,
                   on_batch_id, progress, submission, request, status, written, singleton_file>>

SWrite ==
    /\ summary_pc = "write"
    /\ WriteSnapshot("summary")
    /\ SGoto("loop")
    /\ UNCHANGED <<acc_owner, master_pc, stop_requested, evt, gate, on_batch_id,
                   progress, submission, request, status>>

Summary == SLoop \/ SGate \/ SLock \/ SSnap \/ SWrite

-----------------------------------------------------------------------------
\* request_stop(): its _accounting_lock block.  Called once (a second call
\* only adds another None that nobody reads).
\* Mutant: request_stop does not set _batch_completion_evt.
request_stop_no_evt ==
    /\ ~stop_requested
    /\ AccFree
    /\ stop_requested' = TRUE
    /\ submission' = Append(submission, StopSentinel)
    /\ gate' = TRUE
    /\ UNCHANGED <<acc_owner, rsl_owner, master_pc, summary_pc, on_batch_id,
                   progress, request, status, snap, written, singleton_file, evt>>

request_stop ==
    /\ ~stop_requested
    /\ AccFree
    /\ stop_requested' = TRUE
    /\ submission' = Append(submission, StopSentinel)
    /\ evt' = TRUE
    /\ gate' = TRUE
    /\ UNCHANGED <<acc_owner, rsl_owner, master_pc, summary_pc, on_batch_id,
                   progress, request, status, snap, written, singleton_file>>

\* Mutant: a result is counted for an item that is no longer in progress.
WorkDone_counts_unheld ==
    /\ AccFree
    /\ ~stop_requested
    /\ on_batch_id > 0
    /\ progress' = progress + 1
    /\ evt' = (evt \/ progress + 1 = ItemsPerBatch)
    /\ UNCHANGED <<acc_owner, rsl_owner, master_pc, summary_pc, stop_requested,
                   gate, on_batch_id, submission, request, status, snap, written, singleton_file>>

\* An EndpointManager reports a result: notify_work_success under
\* _accounting_lock, setting the event on the batch's last item.
WorkDone ==
    /\ AccFree
    /\ ~stop_requested
    /\ on_batch_id > 0
    /\ progress < ItemsPerBatch
    /\ progress' = progress + 1
    /\ evt' = (evt \/ progress + 1 = ItemsPerBatch)
    /\ UNCHANGED <<acc_owner, rsl_owner, master_pc, summary_pc, stop_requested,
                   gate, on_batch_id, submission, request, status, snap, written, singleton_file>>

Next == Master \/ Summary \/ request_stop \/ WorkDone

\* Both threads and the EndpointManagers keep running; the stop request is
\* not required to happen.
Fairness == WF_vars(Master) /\ WF_vars(Summary) /\ WF_vars(WorkDone)

Spec == Init /\ [][Next]_vars
FairSpec == Spec /\ Fairness

-----------------------------------------------------------------------------
TypeOK ==
    /\ acc_owner \in Threads \cup {NoThread}
    /\ rsl_owner \in Threads \cup {NoThread}
    /\ stop_requested \in BOOLEAN
    /\ evt \in BOOLEAN
    /\ gate \in BOOLEAN
    /\ on_batch_id \in Batches \cup {0}
    /\ progress \in Progress
    /\ submission \in Seq(Batches \cup {StopSentinel})
    /\ status \in [Batches -> {"waiting", "running", "done"}]
    /\ snap \in [Threads -> (Batches \cup {0}) \X Progress]
    /\ written \in [Batches -> Progress \cup {-1}]
    /\ singleton_file \in (Batches \cup {0}) \X Progress

(* The run summaries written for a batch never go backwards: a summary    *)
(* reports at least the progress of every summary written before it.      *)
(* _run_summary_lock spans snapshot and write of both the summary thread  *)
(* and the master's final summary precisely to keep this history in order.*)
SummaryHistoryMonotone ==
    [][\A b \in Batches : written'[b] >= written[b]]_vars

\* <<b1, p1>> reports no less than <<b2, p2>>: a later batch, or the same
\* batch with at least as many results.
ReportsAtLeast(s1, s2) ==
    s1[1] > s2[1] \/ (s1[1] = s2[1] /\ s1[2] >= s2[2])

(* With singleton_run_summary_path set, the one run-summary file is       *)
(* overwritten by the summary thread and by the master's final summary of *)
(* every batch in turn.  It never goes back in time: no write replaces    *)
(* the summary of a later batch with one of an earlier batch, nor a       *)
(* summary with one that reports fewer results.  This needs the           *)
(* _run_summary_lock of write_summary_information to span snapshot and    *)
(* write across batches, since batch ids grow and progress restarts at 0. *)
SingletonSummaryInOrder ==
    [][ReportsAtLeast(singleton_file', singleton_file)]_vars

(* P7: when a batch is marked done, the last run summary written for it   *)
(* reports every item, unless request_stop cut the batch short.           *)
FinalSummaryComplete ==
    \A b \in Batches :
        (status[b] = "done" /\ ~stop_requested) =>
            written[b] = ItemsPerBatch

(* request_stop's promise: "Orchestrator's join() is guaranteed to        *)
(* eventually return", i.e. the master thread exits.                      *)
StopTerminates == stop_requested ~> master_pc = "exited"
====
