\* A batch whose make_work_items yields no work item is never signalled
\* complete: nothing ever sets _batch_completion_evt.
CONSTANTS
    f1 = f1  f2 = f2  e1 = e1  e2 = e2  en = en  fr = fr
    cEn = cEn  cFr = cFr  cEn2 = cEn2  T1 = T1
    NoLang = NoLang  NoResult = NoResult  NoType = NoType  Stub = Stub  StopSentinel = StopSentinel
    LoadError = LoadError  CtorError = CtorError
    BadConfigFiles = {}
    Items <- MC_Items
    Endpoints <- MC_Endpoints
    Langs <- MC_Langs
    EndpointConfigs <- MC_EndpointConfigs
    CfgLang <- MC_CfgLang
    ItemLang <- MC_ItemLang
    Batches <- MC_Batches
    BatchFiles <- MC_BatchFilesEmpty
    Types <- MC_Types
    BatchType <- MC_BatchType
    Configs <- MC_ConfigsLive
    InitConfig <- MC_InitConfig
    MaxRetries = 1
    AttemptsReported = {1}
    Conc = 1
    MaxConfigChanges = 1
    Singleton = FALSE
    LateCancel = FALSE
SPECIFICATION FairSpec
PROPERTY BatchCompletes
\* The master thread legitimately blocks forever on an empty submission queue.
CHECK_DEADLOCK FALSE
