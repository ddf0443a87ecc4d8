# TLA+ models of batchkit's Orchestrator

This directory holds TLA+ models of `src/batchkit/orchestrator.py`, the
supervisor of the batch-processing kit, and the TLC configurations that
check them. Everything in a module is translated from that file. The
collaborators that are not under `src/` (EndpointManager, the status
provider, the submitter and the caller of `cancel_running_batch`) are modelled
from `spec.md`, and PROJECT.json marks them `spec_modelled`.

## 1. Inventory

### Components and their state

| Component | Code | State | Operations |
|---|---|---|---|
| Work queue and accounting | `__init__` 71-92 | `_file_queue`, `_file_queue_size`, `_in_progress`, `_in_progress_owner`, `_work_results`, `_batch_completion_evt`, `_stop_requested`, `_old_managers`, `_on_batch_id`, all under `_accounting_lock` (an RLock), with `_file_queue_cond` on the same lock | see below |
| Work distribution | `steal_work` 320-354 | (the accounting) | take the queue head; re-enqueue it and return the sentinel on a language mismatch; wait on the condition when the queue is empty |
| Outcome callbacks | `notify_work_success` 365-382, `notify_work_failure` 384-413, `_merge_results` 356-363 | (the accounting) | drop callbacks of retired managers or after stop; merge `attempts`; re-enqueue a retryable failure while `attempts - 1 < MAX_RETRIES`; signal completion when the queue and in-progress are empty |
| Hot-swap engine | `hotswap_endpoint_managers` 415-538 | `_endpoint_managers`, `_endpoint_generation` | reload the config; keep managers whose config, processor type and running state are unchanged; create `HotswapGen{g}_{name}` managers for the rest; retire the deleted ones into `_old_managers`; move their in-progress items back to the queue; `notify_all` |
| Cancellation and stop | `cancel_running_batch` 295-318, `request_stop` 245-293 | `_stop_requested`, `_misc_lock`, `_config_notifier` | cancel drains the queue, clears in-progress and retires the fleet; stop drains the queue, stops managers, puts `None` on the submission queue and sets the event and the summary gate |
| Master loop | `_master_thread_loop` 548-647, `_master_finalize` 540-546 | `_on_batch_type`, `_summarizer` | get a request; skip it if deleted; hot-swap; exit on stop or start the batch (reset results, enqueue the items); set running, or cancel if deleted meanwhile; wait for the event; write the final summary; mark the batch done, or delete its files |
| Run-summary publisher | `_run_summary_loop` 115-134, `write_summary_information` 183-243 | `_run_summary_thread_gate`, `_run_summary_lock` | wait on the gate; snapshot the accounting under the lock; write the summary under `_run_summary_lock` |
| Debug loop | `__debug_loop` 136-181 | none | reads and logs counters |
| EndpointManager (not in src) | interface | its `_stop_requested`, its workers | calls `steal_work` and the two callbacks from its own threads |
| Status provider (not in src) | interface | status enum, deleted marks, `lock` | `is_deleted`, `change_status_enum`, `delete_batch`, `set_run_summary` |
| ConfigWatcher | `notify_file_modified` 93-94 | the config file | calls `hotswap_endpoint_managers` when the file changes |

### How they interact

Four kinds of thread touch the accounting through `_accounting_lock`: the
master thread, every EndpointManager thread (via `steal_work` and the
callbacks), the file notifier thread (hot-swap), and the callers of
`cancel_running_batch` and `request_stop`. The summary thread takes
`_run_summary_lock` and then `_accounting_lock`. The master thread signals the
batch's end through `_batch_completion_evt`. The status provider's lock is
taken separately, never under `_accounting_lock`.

### What is hard

- A retired manager's callbacks can arrive after the hot-swap or cancel that
  retired it. By then its item may be queued again or owned by another
  manager.
- The hot-swap has to move work back to the queue atomically with retiring
  its owners.
- `cancel_running_batch` identifies the batch through `_on_batch_id`, which is
  stale between batches.
- Retries count attempts by adding them up across managers, with an
  off-by-one-prone budget check.
- The master thread waits on an event that only callbacks, cancel and stop
  set.
- The lock order between the master's finalisation, which holds the
  accounting lock while taking the summary lock, and the summary thread, which
  takes them in the opposite order.
- A manager eliminated by a language mismatch is stopped but not put in
  `old_managers` (line 343), so callbacks for items its other workers hold
  are still honoured. Spec §9 leaves this as an open question. The model
  follows the code, and `OwnershipMatchesWork` and `ItemAccounted` would
  catch the other choice, which strands the item.
- `notify()` wakes a single waiter, while `notify_all()` wakes all of them.

### What makes each component correct

- **Accounting.**
  - A filepath is queued at most once and never both queued and in progress.
  - In-progress entries are exactly the work of managers whose callbacks are
    honoured.
  - Recorded attempts are at most `MAX_RETRIES + 1`.
  - The start-of-batch assertions hold.
  - No loss (invariant 1 and P6): while a batch that is not deleted runs,
    each of its items is queued, in progress or recorded.
  - P4: while a batch runs, the completion event is set exactly when the
    queue and in-progress are both empty.
- **Master loop.**
  - A batch is marked done only with every item recorded, unless stopped.
  - Every started batch eventually ends.
  - `join()` returns after `request_stop`.
- **Hot-swap.** No tracked item is lost or duplicated, and retired managers
  never regain work.
- **Summary publisher.** `done` comes after the final summary, and no summary
  is written for a finished batch.

## 2. Modules

### `Orchestrator.tla`: the work-distribution core

Each block that runs under `_accounting_lock` is one action, and so is the
status-lock block. The variables keep the code's names:
- `file_queue` is `_file_queue`; its length stands for `_file_queue_size`,
  which every block updates together with the queue.
- `in_progress_owner` is `_in_progress` and `_in_progress_owner` together. The
  code always updates the two with the same keys.
- `work_results` is `_work_results`. `NoResult` stands for both None and an
  absent key.
- `stop_requested`, `old_managers`, `endpoint_managers`,
  `endpoint_generation`, `on_batch_id`, `on_batch_type` and
  `batch_completion_evt` are the fields of the same names.
- A manager is the pair `<<generation, endpoint_name>>`, which is its
  `HotswapGen{g}_{name}` name. `manager_config` records its `endpoint_config`
  and its processor type.
- `manager_stopped` is the set of managers whose `_stop_requested` is set.
  This includes a manager that eliminated itself on a language mismatch.
  Line 330 does not filter such a manager, because it is not in
  `_old_managers`. Its other worker threads, blocked at line 352, can still
  wake up and steal. `StealSlots` gives them `Conc - 1` slots, because one
  thread has left with the sentinel.
- `held` holds the items that managers' workers are processing.
- `master_pc` and `request` are the master thread's position and its current
  request.
- `submission`, `status`, `deleted` and `cancel_pending` stand for the
  submission queue and the status provider.

Actions:
- The operations: `steal_work`, `notify_work_success`, `notify_work_failure`
  (reached through `WorkSucceeds` and `WorkFails`), `hotswap_endpoint_managers`
  (with `Reconfigure`), `cancel_running_batch` and `request_stop`.
- One action per master-thread block: `MasterGet`, `MasterCheckDeleted`,
  `MasterHotswap`, `MasterStart`, `MasterSetRunning`, `MasterCancel` and
  `MasterFinish`.
- The environment: `ConfigChange` (a file write followed by the notifier's
  hot-swap), `Submit`, `MarkDeleted` and `DeleterCancels`.

Abstractions, each chosen because no property tells the difference:
- Payloads, log messages and summary contents are left out.
- Case-insensitive language comparison is equality of model values.
- An `endpoint_config` is an opaque model value with a language.
- The order in which the hot-swap re-enqueues freed items is any order. The
  code uses the insertion order of the dict.
- A consumer waiting on the condition variable is a manager whose steal is
  not enabled yet.
- The config file write and the notifier's hot-swap are one step.

### `OrchestratorShutdown.tla`: locks, run summaries and the end of the process

This is a lock-level view of the master thread, the run-summary thread,
`request_stop` and the work callbacks. A step is what a thread does between
two lock requests. The accounting is reduced to `progress`, the number of
results recorded in the current batch; `Orchestrator.tla` models it in full.
The variables:
- `acc_owner` and `rsl_owner` hold the owners of `_accounting_lock` and
  `_run_summary_lock`, with `NoThread` meaning free. The RLock's reentrance
  shows in `TakeSnapshot`, which the master may run while it holds the lock.
- `master_pc` and `summary_pc` are the threads' positions.
- `evt`, `gate` and `stop_requested` are `_batch_completion_evt`,
  `_run_summary_thread_gate` and `_stop_requested`.
- `snap[t]` is the `<<batch id, progress>>` snapshot that thread t took in
  `write_summary_information` and has not written yet.
- `written[b]` is the progress of the last summary written for batch b
  by `set_run_summary` (-1 means none). It is the per-batch mode.
- `singleton_file` is the `<<batch id, progress>>` of the last summary
  written to `singleton_run_summary_path`, the one file of singleton mode
  (lines 225-230).

The master's actions:
- `MGet` covers `get()` and the `_on_batch_type` block.
- `MHotswap` is the hot-swap's lock block.
- `MStart` is the batch-start block. After a stop, it is
  `_master_finalize` entered with the lock held.
- `MFinalize` is the finalize step once it has `_run_summary_lock`.
- `MWait` waits on the event.
- `MSumLock`, `MSumSnap` and `MSumWrite` write the final summary.
- `MStatus` marks the batch done, and `MClearGate` clears the gate.

The summary thread's actions follow `_run_summary_loop`: `SLoop`, `SGate`,
`SLock`, `SSnap` and `SWrite`. `request_stop` is its accounting block.
`WorkDone` is a `notify_work_success` that records one result and sets the
event on the last one.

### `BatchLifecycle.tla`: what the Orchestrator promises

`BatchLifecycle.tla` is the abstract specification. It has no queue, no
managers and no locks. Its state:
- the status of each batch;
- the deleted batches;
- the current batch;
- the set of its items that have a result;
- whether a stop was requested.

Its actions and what each allows:
- `Submit`: batches are handed over in id order.
- `Start`: the next batch starts only after the current one has ended. It
  starts with nothing recorded. Only deleted batches may be passed over.
- `Run`: the batch becomes running.
- `Record`: an item of the current batch gets its result. This happens only
  before the batch ends and before a stop, and a result is never lost.
- `Finish`: the batch becomes done or removed. Done needs every item
  recorded, unless stopped. Removed needs a deletion.
- `Delete` and `Stop`.

`Orchestrator.tla` instantiates it as `Lifecycle` with this refinement
mapping:
- `current` is `on_batch_id`.
- `recorded` is `RecordedItems`: the filepaths of the current batch's work
  items whose `_work_results` entry is not None.
- `stopped` is `stop_requested`.
- `status`, `deleted`, `Batches` and `BatchFiles` keep their names.

The property `ImplementsLifecycle == Lifecycle!Spec` is checked by the
`lifecycle_refinement` run. Every Orchestrator step is one abstract step or a
stutter:
- `MasterStart` is `Start`;
- a callback that records a first result is `Record`;
- `MasterSetRunning` is `Run`;
- `MasterFinish` is `Finish`;
- everything else (queue moves, hot-swaps, retries, stale callbacks) stutters.
`BatchLifecycle` also states the liveness promise as `Fairness`:
- `Run`, `Finish` and each item's `Record` are weakly fair;
- `Start` is not, because a deleted batch is skipped and a stop ends the loop.

`ImplementsLifecycleLive == Lifecycle!FairSpec` checks that the Orchestrator's
`FairSpec` implements this as well (the `lifecycle_liveness` run).

The abstract module is written from `spec.md` (sections 3, 4.5 and 8), so its
map entries are `spec_modelled`.

## 3. Runs

The Orchestrator runs use `MC_Orchestrator.tla`. It has two files f1 (English) and f2 (no
language), two endpoints (e1 English, e2 French, and a changed e1 config
`cEn2`) and two batches, `<<f1, f2>>` and `<<f1>>`. Batch 2 reuses f1, so late
callbacks of batch 1 meet the same filepath. The other bounds are
`MaxRetries = 1` with one attempt per result (finding 5 shows why) and one config file write. The safety
run lets a manager process two items at once (`Conc = 2`), so it can hit a
language mismatch or be retired while it still holds an item. The other runs
use `Conc = 1` to stay within their time budget.

| Run | cfg | Expect | Checks |
|---|---|---|---|
| orchestrator_safety | MC_Orchestrator_safety.cfg | pass | `TypeOK`, `ItemTrackedOnce`, `OwnershipMatchesWork`, `RetryBound`, `StartAssertion`, `CompletionIffQuiescent`, `ItemAccounted`, `DoneOnlyWhenAllRecorded`. The environment includes unloadable and unconstructable config files, deletions at any time, late cancel calls and stop, in singleton-summary mode. `Conc = 2`, about 2.4M states. |
| lifecycle_refinement | MC_Orchestrator_refinement.cfg | pass | `ImplementsLifecycle` under the same environment with `Conc = 1`. About 1.8M states. |
| lifecycle_liveness | MC_Orchestrator_lifecycle_live.cfg | pass | `ImplementsLifecycleLive` under `FairSpec`, in the environment of the liveness run. About 430K states. |
| mixed_language | MC_Orchestrator_mixed.cfg | violation | `BatchCompletes` fails for a batch of one English and one French item: see finding 4. |
| orchestrator_liveness | MC_Orchestrator_live.cfg | pass | `BatchCompletes` under `FairSpec`. Only valid config files are written, and cancel calls arrive before the master has finished their batch. |
| late_cancel | MC_Orchestrator_latecancel.cfg | violation | `BatchCompletes` fails: see finding 1. |
| empty_batch | MC_Orchestrator_empty.cfg | violation | `BatchCompletes` fails: see finding 2. |
| multi_attempt_results | MC_Orchestrator_multiattempt.cfg | violation | `RetryBound` fails when a worker result can report 1 or 2 attempts: see finding 5. |
| shutdown | MC_OrchestratorShutdown.cfg | pass | Per-batch summaries under `FairSpec`. `FinalSummaryComplete`: a done batch's last summary reports every item. `SummaryHistoryMonotone`: a batch's summaries never go backwards. `StopTerminates`: the master exits after `request_stop`. |
| shutdown_singleton_safety | MC_OrchestratorShutdown_singleton_safety.cfg | pass | `SingletonSummaryInOrder`: the one singleton summary file never goes back to an earlier batch, or to fewer results, across all batches. `_master_finalize` is included. |
| shutdown_singleton | MC_OrchestratorShutdown_singleton.cfg | violation | `StopTerminates` fails: see finding 3. |

The shutdown runs use `MC_OrchestratorShutdown.tla`: two batches of two items
each, queued at the start, and a stop that may come at any moment. Two items
let the summary thread snapshot a batch half done. Two batches let a stale
summary thread cross a batch boundary and let stop arrive between batches.

`CHECK_DEADLOCK FALSE` is used because the orchestrator legitimately blocks
forever on an empty submission queue once every batch is processed.

Why these bounds are enough:
- One retry lets an item fail, be retried and exhaust its budget.
- Two endpoints with different languages let a manager be eliminated by a
  mismatch while another serves the item.
- Two batches with a shared filepath give a cross-batch stale callback.
- One config write, together with the master's per-batch hot-swap, gives
  generations 0 to 3, retirement mid-batch and the re-enqueue of in-progress
  work.

### Fairness

`WF_vars(Master)`: the master thread keeps running while it can.

`WF_vars(Managing)`: some EndpointManager acts while any of them can. Every
EndpointManager is a live thread whose workers report each item they hold.
This collective fairness is weaker than fairness per manager. It is enough
because a batch gives the managers only finitely many steps: retries are
bounded, and mismatches stop managers.

No fairness is assumed for the environment: config writes, submissions,
deletions, cancels and stop.

The abstract fairness of `BatchLifecycle` is not assumed; it is checked. The
Orchestrator's two WF conditions are enough to give it, when config files
are valid and cancel calls are timely.

In `OrchestratorShutdown`, the master thread, the summary thread and the work
callbacks are weakly fair. Each is a live thread, or a manager reporting an
item it holds. The sleeps between summary rounds do not change that.

## 4. Findings

1. **A late cancel kills the next batch's fleet.**
   - The master thread hot-swaps for batch n+1 at line 566, but
     `_on_batch_id` still names batch n until line 580.
   - The deleter's `cancel_running_batch(n)` can arrive in that window, for
     instance because batch n was deleted and the master already finished it.
     It then passes the check at line 301, then stops and retires the new
     managers.
   - Batch n+1's items stay queued, and it never completes unless the config
     file changes.
2. **An empty batch never completes.** Only the callbacks, cancel and stop set
   `_batch_completion_evt`. A request whose `make_work_items` yields nothing
   leaves the master waiting at line 607 forever.

3. **`join()` can hang after `request_stop` with a singleton run summary.**
   Here is the interleaving:
   - The summary thread passes the gate, takes `_run_summary_lock` (line 202)
     and waits for `_accounting_lock` (line 206).
   - Meanwhile the master thread reads the `None` that `request_stop` queued.
     It takes `_accounting_lock` (line 568), sees the stop and calls
     `_master_finalize` (line 570). That waits for `_run_summary_lock`.
   - Each thread holds the lock the other waits for.
   TLC finds this interleaving when the stop comes between batches, right
   after the final summary of the previous batch.

4. **A mixed-language batch can stall** (line 339). A language mismatch
   re-enqueues the item at the tail and eliminates the asking manager until
   the next batch. Take an English item and a French item, with one English
   and one French endpoint:
   - the French manager takes the English item first and eliminates itself;
   - the English manager then takes the French item and eliminates itself.
   No manager is left, and the batch never completes unless the config file
   changes. `spec.md` §4.2 describes this elimination, but P1/P4 and the
   scenarios promise that batches complete. The spec does not mention mixed
   batches at all (a spec gap).

5. **The retry budget does not bound attempts reported in batches** (line
   400).
   - The budget check `attempts - 1 < MAX_RETRIES` runs on the merged count
     before the re-enqueue. The next result's `attempts` is then added
     unchecked.
   - `spec.md` §4.3 defines that field as the attempts made since the last
     merge, so it may be more than 1.
   - With `MAX_RETRIES = 1`, TLC finds this: a failure with 1 attempt is
     retried, and the retry succeeds after 2 attempts. Three attempts are
     then recorded, while P2 promises at most 2.
   - P2 holds only if every result reports exactly one attempt. That is the
     assumption of the other runs (`AttemptsReported = {1}`).

## 5. Not modelled (yet) and why

- A lost `notify()` wake-up (line 342) is not a separate hazard:
  - every `notify()` follows a put on the queue;
  - the woken thread either takes the item or, on a mismatch, puts it back
    and calls `notify()` again;
  - retired managers and the stop are woken by `notify_all()`;
  - a thread that is not waiting checks the queue before it waits again.
  So an item is stranded only when no eligible manager is left, which is
  finding 4. The model therefore lets any non-stopped manager steal whenever
  the queue is non-empty.

- Failures of the summary write: `allow_fail` only logs them, and the summary
  thread's loop catches every exception.
- The debug loop: it only reads and logs.
- The contents of the run summary and `write_single_output_json`: data
  formatting.
- The `current_process().pid` check in `request_stop`: the model's stop comes
  from the creator process.
- EndpointManager internals: they are outside `src/`. The model takes from the
  spec that a manager stops stealing once stopped or eliminated, and that its
  workers report every item they hold.
