\* Singleton run summary: _master_finalize takes _run_summary_lock while
\* holding _accounting_lock; the summary thread takes them the other way round.
CONSTANTS
    Batches <- MC_Batches
    ItemsPerBatch = 2
    Singleton = TRUE
    StopSentinel = StopSentinel
    NoThread = NoThread
SPECIFICATION FairSpec
PROPERTY StopTerminates
\* Without a stop the master thread ends blocked on the empty submission queue.
CHECK_DEADLOCK FALSE
