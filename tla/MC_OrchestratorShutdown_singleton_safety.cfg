\* Singleton run summary: the one summary file is written in order across
\* batches, including the final _master_finalize step after request_stop.
CONSTANTS
    Batches <- MC_Batches
    ItemsPerBatch = 2
    Singleton = TRUE
    StopSentinel = StopSentinel
    NoThread = NoThread
SPECIFICATION Spec
PROPERTY SingletonSummaryInOrder
\* The master thread ends blocked on the empty submission queue, or exited,
\* or in the lock-order deadlock that the shutdown_singleton run reports.
CHECK_DEADLOCK FALSE
