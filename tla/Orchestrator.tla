---------------------------- MODULE Orchestrator ----------------------------
(***************************************************************************)
(* The work-distribution core of batchkit's Orchestrator                   *)
(* (src/batchkit/orchestrator.py): the shared work-item queue, the         *)
(* accounting maps guarded by _accounting_lock, steal_work, the two        *)
(* outcome callbacks, the hot-swap of endpoint managers, batch             *)
(* cancellation, request_stop and the master thread's batch loop.          *)
(*                                                                         *)
(* Every block the code runs under _accounting_lock (or under the status   *)
(* provider's lock) is one atomic action.  EndpointManagers are            *)
(* environment actors: each one steals work while it is not stopped, its   *)
(* workers hold stolen items and eventually report success or failure.    *)
(* The external deleter marks a batch deleted in the status provider and   *)
(* later calls cancel_running_batch for it.                                *)
(***************************************************************************)
EXTENDS Naturals, Sequences, FiniteSets, SequencesExt

CONSTANTS
    Items,            \* work-item filepaths (unique within a batch)
    Endpoints,        \* logical endpoint names in the configuration file
    EndpointConfigs,  \* opaque endpoint_config maps, compared by value
    CfgLang,          \* [EndpointConfigs -> Langs]: endpoint_config["language"]
    Langs,            \* languages
    NoLang,           \* work item without a language tag
    NoResult,         \* work_results[filepath] is None or absent
    ItemLang,         \* [Items -> Langs \cup {NoLang}]
    Batches,          \* batch ids 1..n, submitted in this order
    BatchFiles,       \* [Batches -> Seq(Items)]: make_work_items of the batch
    Types,            \* BatchRequest subtypes
    BatchType,        \* [Batches -> Types]
    NoType,           \* type(None): no batch request seen yet
    Stub,             \* StubWorkItemProcessor chosen when on_batch_type is NoType
    StopSentinel,     \* the None put on the submission queue by request_stop
    Configs,          \* loadable configurations: functions from a set of endpoints to EndpointConfigs
    LoadError,        \* config file content that load_configuration rejects
    CtorError,        \* config file content on which EndpointManager construction raises
    BadConfigFiles,   \* the subset of {LoadError, CtorError} the file may be written with
    InitConfig,       \* config file content when the Orchestrator is created
    MaxRetries,       \* ORCHESTRATOR_SCOPE_MAX_RETRIES
    AttemptsReported, \* values of WorkItemResult.attempts an EndpointManager reports
    Conc,             \* work items one EndpointManager processes at the same time
    MaxConfigChanges, \* bound on writes of the configuration file
    Singleton,        \* singleton_run_summary_path is set: work_results is not reset per batch
    LateCancel        \* the deleter's cancel call may arrive after the master finished the batch


Procs == Types \cup {Stub}
ConfigFiles == Configs \cup BadConfigFiles
GenBound == Cardinality(Batches) + MaxConfigChanges
\* An EndpointManager is named "HotswapGen{gen}_{endpoint_name}".
Managers == (0..GenBound) \X Endpoints
Ep(m) == m[2]
Result == [attempts : Nat, ok : BOOLEAN]
MasterPCs == {"get", "checkDeleted", "hotswap", "start", "setRunning",
              "cancelSelf", "wait", "finish", "exited"}
Statuses == {"none", "waiting", "running", "done", "removed"}

ASSUME
    /\ Batches = 1..Cardinality(Batches)
    /\ \A b \in Batches : BatchFiles[b] \in Seq(Items)
    /\ ItemLang \in [Items -> Langs \cup {NoLang}]
    /\ CfgLang \in [EndpointConfigs -> Langs]
    /\ BadConfigFiles \subseteq {LoadError, CtorError}
    /\ InitConfig \notin {LoadError, CtorError}
    /\ MaxRetries \in Nat \ {0}
    /\ AttemptsReported \subseteq Nat \ {0}
    /\ Conc \in Nat \ {0}

VARIABLES
    file_queue,            \* _file_queue (and _file_queue_size = Len(file_queue))
    in_progress_owner,     \* _in_progress / _in_progress_owner: filepath -> manager
    work_results,          \* _work_results
    stop_requested,        \* _stop_requested
    old_managers,          \* _old_managers
    endpoint_managers,     \* _endpoint_managers
    manager_config,        \* created manager -> [cfg, proc] (endpoint_config, work_item_processor type)
    manager_stopped,       \* managers whose EndpointManager._stop_requested is set
    held,                  \* <<manager, filepath>> pairs a manager's workers are processing
    endpoint_generation,   \* _endpoint_generation
    config_file,           \* content of the endpoint configuration file
    config_changes,        \* writes of the configuration file so far
    on_batch_id,           \* _on_batch_id (0 stands for -1)
    on_batch_type,         \* _on_batch_type
    batch_completion_evt,  \* _batch_completion_evt
    master_pc,             \* where the master thread is in _master_thread_loop
    request,               \* the BatchRequest the master thread holds
    submission,            \* _submission_que
    submitted,             \* batches handed to the submission queue so far
    status,                \* status provider: status enum of each batch
    deleted,               \* status provider: batches marked deleted
    cancel_pending         \* deleted batches whose cancel_running_batch call is still to come

vars == <<file_queue, in_progress_owner, work_results, stop_requested,
          old_managers, endpoint_managers, manager_config, manager_stopped,
          held, endpoint_generation, config_file, config_changes, on_batch_id,
          on_batch_type, batch_completion_evt, master_pc, request, submission,
          submitted, status, deleted, cancel_pending>>
accounting == <<file_queue, in_progress_owner, work_results, old_managers,
                endpoint_managers, manager_config, manager_stopped,
                endpoint_generation, batch_completion_evt>>
environment == <<config_file, config_changes, submitted, deleted, cancel_pending>>

-----------------------------------------------------------------------------
InProgress == DOMAIN in_progress_owner

\* A map with filepath removed (del self._in_progress[filepath]).
Without(f, S) == [x \in DOMAIN f \ S |-> f[x]]

\* The items a manager's workers are processing.
HeldBy(m) == {fp \in Items : <<m, fp>> \in held}

\* _merge_results: attempts accumulate over the results of one filepath.
merge_results(fp, a, ok) ==
    IF work_results[fp] = NoResult
    THEN [work_results EXCEPT ![fp] = [attempts |-> a, ok |-> ok]]
    ELSE [work_results EXCEPT ![fp] = [attempts |-> work_results[fp].attempts + a,
                                       ok |-> ok]]

\* Language check of steal_work: the item has a language and the
\* manager's endpoint_config["language"] differs from it.
LanguageMismatch(m, w) ==
    ItemLang[w] # NoLang /\ CfgLang[manager_config[m].cfg] # ItemLang[w]

\* Mutant: the completion check forgets len(self._in_progress) == 0.
BatchDrained_queue_only(q, ip) == q = <<>>

\* "Did we just finish the batch?"
BatchDrained(q, ip) == q = <<>> /\ DOMAIN ip = {}

-----------------------------------------------------------------------------
Init ==
    /\ file_queue = <<>>
    /\ in_progress_owner = [fp \in {} |-> <<0, CHOOSE e \in Endpoints : TRUE>>]
    /\ work_results = [fp \in Items |-> NoResult]
    /\ stop_requested = FALSE
    /\ old_managers = {}
    /\ endpoint_managers = {}
    /\ manager_config = [m \in {} |-> [cfg |-> CHOOSE c \in EndpointConfigs : TRUE, proc |-> Stub]]
    /\ manager_stopped = {}
    /\ held = {}
    /\ endpoint_generation = 0
    /\ config_file = InitConfig
    /\ config_changes = 0
    /\ on_batch_id = 0
    /\ on_batch_type = NoType
    /\ batch_completion_evt = FALSE
    /\ master_pc = "get"
    /\ request = StopSentinel
    /\ submission = <<>>
    /\ submitted = 0
    /\ status = [b \in Batches |-> "none"]
    /\ deleted = {}
    /\ cancel_pending = {}
-----------------------------------------------------------------------------
(***************************************************************************)
(* steal_work(manager).  Line 330 returns the sentinel to a retired        *)
(* manager (in old_managers) or after request_stop; such a manager is      *)
(* always also stopped, so that branch only returns to a thread that is    *)
(* winding down and changes nothing.  A manager that eliminated itself on  *)
(* a language mismatch is neither: its other worker threads still blocked  *)
(* in _file_queue_cond.wait() wake up (the notify of line 342, a hot-      *)
(* swap's notify_all, a new batch) and steal; one of its Conc threads has  *)
(* left with the sentinel.  With an empty queue the thread waits: no step. *)
(***************************************************************************)
\* Worker threads of m that can be inside steal_work.
StealSlots(m) == IF m \in manager_stopped THEN Conc - 1 ELSE Conc

steal_work(m) ==
    /\ m \in endpoint_managers
    /\ m \notin old_managers /\ ~stop_requested
    /\ Cardinality(HeldBy(m)) < StealSlots(m)
    /\ file_queue # <<>>
    /\ LET w == Head(file_queue) IN
       \/ \* language mismatch: back on the queue, the manager is eliminated
          /\ LanguageMismatch(m, w)
          /\ file_queue' = Append(Tail(file_queue), w)
          /\ manager_stopped' = manager_stopped \cup {m}
          /\ UNCHANGED <<in_progress_owner, held>>
       \/ /\ ~LanguageMismatch(m, w)
          /\ file_queue' = Tail(file_queue)
          /\ in_progress_owner' = [x \in InProgress \cup {w} |->
                                     IF x = w THEN m ELSE in_progress_owner[x]]
          /\ held' = held \cup {<<m, w>>}
          /\ UNCHANGED manager_stopped
    /\ UNCHANGED <<work_results, stop_requested, old_managers, endpoint_managers,
                   manager_config, endpoint_generation, batch_completion_evt,
                   master_pc, request, submission, status, on_batch_id,
                   on_batch_type>>
    /\ UNCHANGED environment

\* Mutant: the old_managers filter of notify_work_success is missing.
notify_work_success_no_old_check(fp, m, a) ==
    IF stop_requested
    THEN UNCHANGED <<file_queue, in_progress_owner, work_results, batch_completion_evt>>
    ELSE LET ip == Without(in_progress_owner, {fp}) IN
         /\ in_progress_owner' = ip
         /\ work_results' = merge_results(fp, a, TRUE)
         /\ batch_completion_evt' = (batch_completion_evt \/ BatchDrained(file_queue, ip))
         /\ UNCHANGED file_queue

\* notify_work_success(filepath, manager, result)
notify_work_success(fp, m, a) ==
    IF m \in old_managers \/ stop_requested
    THEN UNCHANGED <<file_queue, in_progress_owner, work_results, batch_completion_evt>>
    ELSE LET ip == Without(in_progress_owner, {fp}) IN
         /\ in_progress_owner' = ip
         /\ work_results' = merge_results(fp, a, TRUE)
         /\ batch_completion_evt' = (batch_completion_evt \/ BatchDrained(file_queue, ip))
         /\ UNCHANGED file_queue

\* Mutant: the retry budget check uses <= instead of <.
notify_work_failure_retry_le(fp, m, a, can_retry) ==
    IF m \in old_managers \/ stop_requested
    THEN UNCHANGED <<file_queue, in_progress_owner, work_results, batch_completion_evt>>
    ELSE LET merged == merge_results(fp, a, FALSE)
             q == IF can_retry /\ merged[fp].attempts - 1 <= MaxRetries
                  THEN Append(file_queue, fp) ELSE file_queue
             ip == Without(in_progress_owner, {fp})
         IN /\ work_results' = merged
            /\ file_queue' = q
            /\ in_progress_owner' = ip
            /\ batch_completion_evt' = (batch_completion_evt \/ BatchDrained(q, ip))

\* Mutant: the retry re-enqueues _in_progress_owner[filepath] (the manager)
\* instead of _in_progress[filepath] (the request).
notify_work_failure_requeues_owner(fp, m, a, can_retry) ==
    IF m \in old_managers \/ stop_requested
    THEN UNCHANGED <<file_queue, in_progress_owner, work_results, batch_completion_evt>>
    ELSE LET merged == merge_results(fp, a, FALSE)
             q == IF can_retry /\ merged[fp].attempts - 1 < MaxRetries
                  THEN Append(file_queue, in_progress_owner[fp]) ELSE file_queue
             ip == Without(in_progress_owner, {fp})
         IN /\ work_results' = merged
            /\ file_queue' = q
            /\ in_progress_owner' = ip
            /\ batch_completion_evt' = (batch_completion_evt \/ BatchDrained(q, ip))

\* notify_work_failure(filepath, manager, result): merge, then re-enqueue
\* while the item can be retried and has retries left.
notify_work_failure(fp, m, a, can_retry) ==
    IF m \in old_managers \/ stop_requested
    THEN UNCHANGED <<file_queue, in_progress_owner, work_results, batch_completion_evt>>
    ELSE LET merged == merge_results(fp, a, FALSE)
             q == IF can_retry /\ merged[fp].attempts - 1 < MaxRetries
                  THEN Append(file_queue, fp) ELSE file_queue
             ip == Without(in_progress_owner, {fp})
         IN /\ work_results' = merged
            /\ file_queue' = q
            /\ in_progress_owner' = ip
            /\ batch_completion_evt' = (batch_completion_evt \/ BatchDrained(q, ip))

\* A worker of manager m finishes the item it holds and calls back.
WorkSucceeds(m, fp) ==
    /\ <<m, fp>> \in held
    /\ held' = held \ {<<m, fp>>}
    /\ \E a \in AttemptsReported : notify_work_success(fp, m, a)
    /\ UNCHANGED <<stop_requested, old_managers, endpoint_managers, manager_config,
                   manager_stopped, endpoint_generation, master_pc, request,
                   submission, status, on_batch_id, on_batch_type>>
    /\ UNCHANGED environment

WorkFails(m, fp) ==
    /\ <<m, fp>> \in held
    /\ held' = held \ {<<m, fp>>}
    /\ \E a \in AttemptsReported, can_retry \in BOOLEAN :
          notify_work_failure(fp, m, a, can_retry)
    /\ UNCHANGED <<stop_requested, old_managers, endpoint_managers, manager_config,
                   manager_stopped, endpoint_generation, master_pc, request,
                   submission, status, on_batch_id, on_batch_type>>
    /\ UNCHANGED environment
-----------------------------------------------------------------------------
(***************************************************************************)
(* hotswap_endpoint_managers() with the configuration file content c.      *)
(* It changes file_queue, in_progress_owner, old_managers,                 *)
(* endpoint_managers, manager_config, manager_stopped and                  *)
(* endpoint_generation; the caller fixes the other variables.              *)
(***************************************************************************)
\* The WorkItemProcessor type for the current batch request type.
CurrentProc == IF on_batch_type = NoType THEN Stub ELSE on_batch_type

\* Mutant: the survivor test forgets "not _stop_requested".
Survives_ignores_stop(m, c) ==
    /\ Ep(m) \in DOMAIN c
    /\ c[Ep(m)] = manager_config[m].cfg
    /\ manager_config[m].proc = CurrentProc

\* An existing manager is kept when its endpoint is in c with an equal
\* endpoint_config, its processor type is unchanged and it is not stopped.
Survives(m, c) ==
    /\ Ep(m) \in DOMAIN c
    /\ c[Ep(m)] = manager_config[m].cfg
    /\ manager_config[m].proc = CurrentProc
    /\ ~(m \in manager_stopped)

\* Mutant: freed items are queued but self._in_progress is not replaced.
Reconfigure_keeps_in_progress(c) ==
    LET kept == {m \in endpoint_managers : Survives(m, c)}
        deletedEps == {Ep(m) : m \in endpoint_managers \ kept}
        retired == {m \in endpoint_managers : Ep(m) \in deletedEps}
        created == {<<endpoint_generation, e>> : e \in DOMAIN c \ {Ep(m) : m \in kept}}
        freed == {fp \in InProgress : Ep(in_progress_owner[fp]) \in deletedEps}
    IN /\ old_managers' = old_managers \cup retired
       /\ manager_stopped' = manager_stopped \cup retired
       /\ \E order \in SetToSeqs(freed) : file_queue' = file_queue \o order
       /\ in_progress_owner' = in_progress_owner
       /\ endpoint_managers' = kept \cup created
       /\ manager_config' = [m \in DOMAIN manager_config \cup created |->
                               IF m \in created
                               THEN [cfg |-> c[Ep(m)], proc |-> CurrentProc]
                               ELSE manager_config[m]]

\* Mutant: freed items leave self._in_progress but are not put back on the queue.
Reconfigure_drops_freed(c) ==
    LET kept == {m \in endpoint_managers : Survives(m, c)}
        deletedEps == {Ep(m) : m \in endpoint_managers \ kept}
        retired == {m \in endpoint_managers : Ep(m) \in deletedEps}
        created == {<<endpoint_generation, e>> : e \in DOMAIN c \ {Ep(m) : m \in kept}}
        freed == {fp \in InProgress : Ep(in_progress_owner[fp]) \in deletedEps}
    IN /\ old_managers' = old_managers \cup retired
       /\ manager_stopped' = manager_stopped \cup retired
       /\ file_queue' = file_queue
       /\ in_progress_owner' = Without(in_progress_owner, freed)
       /\ endpoint_managers' = kept \cup created
       /\ manager_config' = [m \in DOMAIN manager_config \cup created |->
                               IF m \in created
                               THEN [cfg |-> c[Ep(m)], proc |-> CurrentProc]
                               ELSE manager_config[m]]

Reconfigure(c) ==
    LET kept == {m \in endpoint_managers : Survives(m, c)}
        \* keys of deleted_managers: endpoint names
        deletedEps == {Ep(m) : m \in endpoint_managers \ kept}
        retired == {m \in endpoint_managers : Ep(m) \in deletedEps}
        created == {<<endpoint_generation, e>> : e \in DOMAIN c \ {Ep(m) : m \in kept}}
        \* in-progress items owned by a deleted endpoint go back to the queue
        freed == {fp \in InProgress : Ep(in_progress_owner[fp]) \in deletedEps}
    IN /\ old_managers' = old_managers \cup retired
       /\ manager_stopped' = manager_stopped \cup retired
       /\ \E order \in SetToSeqs(freed) : file_queue' = file_queue \o order
       /\ in_progress_owner' = Without(in_progress_owner, freed)
       /\ endpoint_managers' = kept \cup created
       /\ manager_config' = [m \in DOMAIN manager_config \cup created |->
                               IF m \in created
                               THEN [cfg |-> c[Ep(m)], proc |-> CurrentProc]
                               ELSE manager_config[m]]

hotswap_endpoint_managers(c) ==
    \/ \* load_configuration raises InvalidConfigurationError
       /\ c = LoadError
       /\ UNCHANGED <<file_queue, in_progress_owner, old_managers, endpoint_managers,
                      manager_config, manager_stopped, endpoint_generation>>
    \/ /\ c # LoadError
       /\ stop_requested
       /\ UNCHANGED <<file_queue, in_progress_owner, old_managers, endpoint_managers,
                      manager_config, manager_stopped, endpoint_generation>>
    \/ \* constructing an EndpointManager raises: keep the old fleet
       /\ c = CtorError
       /\ ~stop_requested
       /\ endpoint_generation' = endpoint_generation + 1
       /\ UNCHANGED <<file_queue, in_progress_owner, old_managers, endpoint_managers,
                      manager_config, manager_stopped>>
    \/ /\ c \notin {LoadError, CtorError}
       /\ ~stop_requested
       /\ endpoint_generation' = endpoint_generation + 1
       /\ Reconfigure(c)

\* Mutant: cancel_running_batch does not clear _in_progress.
cancel_running_batch_keeps_in_progress(b) ==
    IF on_batch_id # b
    THEN UNCHANGED <<file_queue, in_progress_owner, old_managers, manager_stopped,
                     batch_completion_evt>>
    ELSE /\ file_queue' = <<>>
         /\ UNCHANGED in_progress_owner
         /\ manager_stopped' = manager_stopped \cup endpoint_managers
         /\ old_managers' = old_managers \cup endpoint_managers
         /\ batch_completion_evt' = TRUE

\* cancel_running_batch(batch_id)
cancel_running_batch(b) ==
    IF on_batch_id # b
    THEN UNCHANGED <<file_queue, in_progress_owner, old_managers, manager_stopped,
                     batch_completion_evt>>
    ELSE /\ file_queue' = <<>>
         /\ in_progress_owner' = Without(in_progress_owner, InProgress)
         /\ manager_stopped' = manager_stopped \cup endpoint_managers
         /\ old_managers' = old_managers \cup endpoint_managers
         /\ batch_completion_evt' = TRUE

-----------------------------------------------------------------------------
(* The configuration file is rewritten and the file notifier hot-swaps.   *)
ConfigChange ==
    /\ config_changes < MaxConfigChanges
    /\ \E c \in ConfigFiles :
          /\ config_file' = c
          /\ hotswap_endpoint_managers(c)
    /\ config_changes' = config_changes + 1
    /\ UNCHANGED <<work_results, stop_requested, held, on_batch_id, on_batch_type,
                   batch_completion_evt, master_pc, request, submission,
                   submitted, status, deleted, cancel_pending>>

(* request_stop(), from the creator process.  A second call only puts   *)
(* another None on the submission queue, which nothing reads once the    *)
(* master thread has returned, so it is not repeated here.               *)
request_stop ==
    /\ ~stop_requested
    /\ stop_requested' = TRUE
    /\ file_queue' = <<>>
    /\ submission' = Append(submission, StopSentinel)
    /\ batch_completion_evt' = TRUE
    /\ manager_stopped' = manager_stopped \cup endpoint_managers
    /\ UNCHANGED <<in_progress_owner, work_results, old_managers, endpoint_managers,
                   manager_config, held, endpoint_generation, on_batch_id,
                   on_batch_type, master_pc, request, status>>
    /\ UNCHANGED environment

(* The client submits the next batch: status waiting, then on the queue. *)
Submit ==
    /\ submitted < Cardinality(Batches)
    /\ submitted' = submitted + 1
    /\ submission' = Append(submission, submitted + 1)
    /\ status' = [status EXCEPT ![submitted + 1] = "waiting"]
    /\ UNCHANGED <<accounting, stop_requested, held, on_batch_id, on_batch_type,
                   master_pc, request, config_file, config_changes, deleted,
                   cancel_pending>>

(* The deleter marks a submitted batch deleted under the status lock ... *)
MarkDeleted(b) ==
    /\ status[b] \in {"waiting", "running", "done"}
    /\ b \notin deleted
    /\ deleted' = deleted \cup {b}
    /\ cancel_pending' = cancel_pending \cup {b}
    /\ UNCHANGED <<accounting, stop_requested, held, on_batch_id, on_batch_type,
                   master_pc, request, submission, submitted, status,
                   config_file, config_changes>>

(* ... and later calls cancel_running_batch(b).  Unless LateCancel, the   *)
(* call arrives before the master thread has finished with batch b.       *)
DeleterCancels(b) ==
    /\ b \in cancel_pending
    /\ LateCancel \/ status[b] \notin {"done", "removed"}
    /\ cancel_pending' = cancel_pending \ {b}
    /\ cancel_running_batch(b)
    /\ UNCHANGED <<work_results, stop_requested, endpoint_managers, manager_config,
                   held, endpoint_generation, on_batch_id, on_batch_type,
                   master_pc, request, submission, submitted, status, deleted,
                   config_file, config_changes>>
-----------------------------------------------------------------------------
(***************************************************************************)
(* The master thread, _master_thread_loop, one step per lock block.        *)
(***************************************************************************)
MasterGoto(pc) == master_pc' = pc

\* request = self._submission_que.get(); on_batch_type = type(request)
MasterGet ==
    /\ master_pc = "get"
    /\ submission # <<>>
    /\ request' = Head(submission)
    /\ submission' = Tail(submission)
    /\ on_batch_type' = IF Head(submission) = StopSentinel THEN NoType
                        ELSE BatchType[Head(submission)]
    /\ MasterGoto("checkDeleted")
    /\ UNCHANGED <<accounting, stop_requested, held, on_batch_id, status>>
    /\ UNCHANGED environment

\* Skip a batch that was deleted while it was waiting.
MasterCheckDeleted ==
    /\ master_pc = "checkDeleted"
    /\ MasterGoto(IF request # StopSentinel /\ request \in deleted
                  THEN "get" ELSE "hotswap")
    /\ UNCHANGED <<accounting, stop_requested, held, on_batch_id, on_batch_type,
                   request, submission, status>>
    /\ UNCHANGED environment

\* Recreate the endpoints at the start of a batch.
MasterHotswap ==
    /\ master_pc = "hotswap"
    /\ hotswap_endpoint_managers(config_file)
    /\ MasterGoto("start")
    /\ UNCHANGED <<work_results, stop_requested, held, on_batch_id, on_batch_type,
                   batch_completion_evt, request, submission, status>>
    /\ UNCHANGED environment

\* Mutant: the batch-start loop does not set work_results[filepath] = None,
\* so in singleton mode a filepath keeps the result of an earlier batch.
MasterStart_keeps_results ==
    /\ master_pc = "start"
    /\ \/ /\ stop_requested
          /\ MasterGoto("exited")
          /\ UNCHANGED <<accounting, on_batch_id>>
       \/ /\ ~stop_requested
          /\ work_results' = IF Singleton THEN work_results
                             ELSE [fp \in Items |-> NoResult]
          /\ file_queue' = file_queue \o BatchFiles[request]
          /\ on_batch_id' = request
          /\ batch_completion_evt' = FALSE
          /\ MasterGoto("setRunning")
          /\ UNCHANGED <<in_progress_owner, old_managers, endpoint_managers,
                         manager_config, manager_stopped, endpoint_generation>>
    /\ UNCHANGED <<stop_requested, held, on_batch_type, request, submission, status>>
    /\ UNCHANGED environment

\* Exit on stop, else reset the accounting and enqueue the batch's work items.
MasterStart ==
    /\ master_pc = "start"
    /\ \/ /\ stop_requested
          /\ MasterGoto("exited")
          /\ UNCHANGED <<accounting, on_batch_id>>
       \/ /\ ~stop_requested
          /\ LET files == BatchFiles[request]
                 base == IF Singleton THEN work_results
                         ELSE [fp \in Items |-> NoResult]
             IN /\ work_results' = [fp \in Items |->
                                      IF \E i \in DOMAIN files : files[i] = fp
                                      THEN NoResult ELSE base[fp]]
                /\ file_queue' = file_queue \o files
          /\ on_batch_id' = request
          /\ batch_completion_evt' = FALSE
          /\ MasterGoto("setRunning")
          /\ UNCHANGED <<in_progress_owner, old_managers, endpoint_managers,
                         manager_config, manager_stopped, endpoint_generation>>
    /\ UNCHANGED <<stop_requested, held, on_batch_type, request, submission, status>>
    /\ UNCHANGED environment

\* Under the status lock: canceled if deleted meanwhile, else running.
MasterSetRunning ==
    /\ master_pc = "setRunning"
    /\ IF request \in deleted
       THEN MasterGoto("cancelSelf") /\ UNCHANGED status
       ELSE MasterGoto("wait") /\ status' = [status EXCEPT ![request] = "running"]
    /\ UNCHANGED <<accounting, stop_requested, held, on_batch_id, on_batch_type,
                   request, submission>>
    /\ UNCHANGED environment

MasterCancel ==
    /\ master_pc = "cancelSelf"
    /\ cancel_running_batch(request)
    /\ MasterGoto("wait")
    /\ UNCHANGED <<work_results, stop_requested, endpoint_managers, manager_config,
                   held, endpoint_generation, on_batch_id, on_batch_type,
                   request, submission, status>>
    /\ UNCHANGED environment

\* Woken by _batch_completion_evt: write the final summary, then under the
\* status lock delete the batch's files if it was deleted, else mark done.
MasterFinish ==
    /\ master_pc = "wait"
    /\ batch_completion_evt
    /\ status' = [status EXCEPT ![request] = IF request \in deleted THEN "removed" ELSE "done"]
    /\ MasterGoto("get")
    /\ UNCHANGED <<accounting, stop_requested, held, on_batch_id, on_batch_type,
                   request, submission>>
    /\ UNCHANGED environment

-----------------------------------------------------------------------------
Master == MasterGet \/ MasterCheckDeleted \/ MasterHotswap \/ MasterStart
          \/ MasterSetRunning \/ MasterCancel \/ MasterFinish

Manager(m) ==
    \/ steal_work(m)
    \/ \E fp \in HeldBy(m) : WorkSucceeds(m, fp) \/ WorkFails(m, fp)

\* Some EndpointManager (a current one, or a retired one still holding work) acts.
Managing == \E m \in endpoint_managers \cup {p[1] : p \in held} : Manager(m)

Environment ==
    \/ ConfigChange
    \/ request_stop
    \/ Submit
    \/ \E b \in Batches : MarkDeleted(b) \/ DeleterCancels(b)

Next ==
    \/ Master
    \/ Managing
    \/ Environment

(***************************************************************************)
(* Fairness: the master thread keeps running, and the EndpointManager      *)
(* threads as a whole keep stealing and reporting while any of them can    *)
(* (each is a live thread, and a worker that holds an item eventually      *)
(* reports an outcome).  This is weaker than fairness per manager; it      *)
(* suffices because each batch gives the managers finitely many steps.     *)
(* The environment (config changes, stop, submissions, deletions) is not   *)
(* required to act.                                                        *)
(***************************************************************************)
Fairness == WF_vars(Master) /\ WF_vars(Managing)

Spec == Init /\ [][Next]_vars
FairSpec == Spec /\ Fairness
-----------------------------------------------------------------------------
TypeOK ==
    /\ file_queue \in Seq(Items)
    /\ InProgress \subseteq Items
    /\ \A fp \in InProgress : in_progress_owner[fp] \in Managers
    /\ work_results \in [Items -> Result \cup {NoResult}]
    /\ stop_requested \in BOOLEAN
    /\ old_managers \subseteq Managers
    /\ endpoint_managers \subseteq DOMAIN manager_config
    /\ DOMAIN manager_config \subseteq Managers
    /\ \A m \in DOMAIN manager_config :
          manager_config[m] \in [cfg : EndpointConfigs, proc : Procs]
    /\ manager_stopped \subseteq Managers
    /\ held \subseteq Managers \X Items
    /\ endpoint_generation \in 0..GenBound
    /\ config_file \in ConfigFiles \cup {InitConfig}
    /\ on_batch_id \in Batches \cup {0}
    /\ on_batch_type \in Types \cup {NoType}
    /\ batch_completion_evt \in BOOLEAN
    /\ master_pc \in MasterPCs
    /\ request \in Batches \cup {StopSentinel}
    /\ submission \in Seq(Batches \cup {StopSentinel})
    /\ status \in [Batches -> Statuses]
    /\ deleted \subseteq Batches
    /\ cancel_pending \subseteq deleted

(* Invariant 1 of the accounting: a filepath is queued at most once and    *)
(* is never queued and in progress at the same time.  Retry re-enqueue in  *)
(* notify_work_failure, the re-enqueue of a language mismatch in           *)
(* steal_work and the un-assignment of a deleted manager's work in the     *)
(* hot-swap each move an item back to the queue; a stale callback or an    *)
(* item left in in_progress would duplicate it.                            *)
ItemTrackedOnce ==
    /\ \A i, j \in DOMAIN file_queue : i < j => file_queue[i] # file_queue[j]
    /\ \A i \in DOMAIN file_queue : file_queue[i] \notin InProgress

(* Until request_stop, the in-progress accounting is exactly the work of   *)
(* managers whose callbacks are still honoured: every in-progress item is  *)
(* being processed by its recorded owner, and every item a manager outside *)
(* old_managers processes is in progress with that manager as owner.  If   *)
(* it failed, a callback would hit a missing key in notify_work_success    *)
(* or notify_work_failure, or an in-progress item would wait for a         *)
(* callback that old_managers filters out, and the batch would never end.  *)
OwnershipMatchesWork ==
    ~stop_requested =>
        {<<in_progress_owner[fp], fp>> : fp \in InProgress}
            = {p \in held : p[1] \notin old_managers}

(* P2: the attempts recorded for a filepath, accumulated by _merge_results *)
(* over all managers, never exceed ORCHESTRATOR_SCOPE_MAX_RETRIES + 1.     *)
RetryBound ==
    \A fp \in Items :
        work_results[fp] # NoResult => work_results[fp].attempts <= MaxRetries + 1

(* The assertions of _master_thread_loop at the start of a batch: nothing *)
(* is in progress and the queue is empty, whatever cancellations,          *)
(* hot-swaps and late callbacks happened since the previous batch.         *)
StartAssertion ==
    (master_pc = "start" /\ ~stop_requested) =>
        (InProgress = {} /\ file_queue = <<>>)

(* P4: while the master thread runs a batch (from enqueueing its items to *)
(* waking up) and no stop was requested, _batch_completion_evt is set      *)
(* exactly when the queue is empty and nothing is in progress.  Retries,   *)
(* language-mismatch re-enqueues, the hot-swap's re-enqueue of freed work, *)
(* stale callbacks and cancels each change one side of this; the drained   *)
(* check in the callbacks and the drain in cancel must keep the two        *)
(* together.  (A batch without items breaks it at once: see finding 2.)   *)
CompletionIffQuiescent ==
    (master_pc \in {"setRunning", "cancelSelf", "wait"} /\ ~stop_requested)
        => (batch_completion_evt <=> (file_queue = <<>> /\ InProgress = {}))

(* Invariant 1 and P6 of the spec, no loss: while a batch that is not    *)
(* deleted runs and no stop was requested, every one of its work items is  *)
(* queued, in progress, or has a result.  Items leave the queue in         *)
(* steal_work, are put back by a mismatch, a retry or a hot-swap, and leave *)
(* in-progress in the callbacks and the hot-swap; dropping one on any of   *)
(* these paths strands the batch.                                          *)
ItemAccounted ==
    (master_pc \in {"setRunning", "cancelSelf", "wait"} /\ ~stop_requested
        /\ on_batch_id \notin deleted)
        => \A fp \in ToSet(BatchFiles[on_batch_id]) :
               \/ \E i \in DOMAIN file_queue : file_queue[i] = fp
               \/ fp \in InProgress
               \/ work_results[fp] # NoResult

(* P1: a batch is marked done only when every one of its work items has a *)
(* recorded result, unless request_stop cut it short.                      *)
DoneOnlyWhenAllRecorded ==
    [][\A b \in Batches :
         (status'[b] = "done" /\ status[b] # "done") =>
            \/ stop_requested
            \/ \A i \in DOMAIN BatchFiles[b] : work_results[BatchFiles[b][i]] # NoResult
      ]_vars

(***************************************************************************)
(* Refinement: the batch lifecycle the Orchestrator promises.  The current *)
(* batch is _on_batch_id, and its recorded items are the filepaths of its  *)
(* work items whose _work_results entry is not None.                       *)
(***************************************************************************)
RecordedItems ==
    IF on_batch_id = 0 THEN {}
    ELSE {fp \in ToSet(BatchFiles[on_batch_id]) : work_results[fp] # NoResult}

Lifecycle == INSTANCE BatchLifecycle WITH
                current <- on_batch_id,
                recorded <- RecordedItems,
                stopped <- stop_requested

(* The Orchestrator implements BatchLifecycle: batches start one at a time *)
(* in submission order, with no result recorded for their items; results   *)
(* of the current batch are never lost and only arrive before it ends and  *)
(* before a stop, whatever stale callbacks, hot-swaps, cancels and retries *)
(* interleave; done needs every item recorded and removed needs deletion.  *)
ImplementsLifecycle == Lifecycle!Spec

(* Under the fairness of the master and manager threads, the Orchestrator *)
(* also keeps the lifecycle's liveness promise: a started batch becomes    *)
(* running unless deleted, each of its items eventually gets a result      *)
(* while it runs, and it ends once it can.                                 *)
ImplementsLifecycleLive == Lifecycle!FairSpec

(* Every batch the master thread starts eventually ends: it is marked done *)
(* or its files are removed after deletion.                                *)
BatchCompletes ==
    \A b \in Batches : status[b] = "running" ~> status[b] \in {"done", "removed"}
====
