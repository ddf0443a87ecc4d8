\* Per-batch run summaries: summary history order, P7, and termination
\* after request_stop.
CONSTANTS
    Batches <- MC_Batches
    ItemsPerBatch = 2
    Singleton = FALSE
    StopSentinel = StopSentinel
    NoThread = NoThread
SPECIFICATION FairSpec
INVARIANT TypeOK FinalSummaryComplete
PROPERTY SummaryHistoryMonotone StopTerminates
\* Without a stop the master thread ends blocked on the empty submission queue.
CHECK_DEADLOCK FALSE
