\* Safety of the accounting under every environment the code faces:
\* bad configuration files, deletions, late cancel calls, stop.
CONSTANTS
    f1 = f1  f2 = f2  e1 = e1  e2 = e2  en = en  fr = fr
    cEn = cEn  cFr = cFr  cEn2 = cEn2  T1 = T1
    NoLang = NoLang  NoResult = NoResult  NoType = NoType  Stub = Stub  StopSentinel = StopSentinel
    LoadError = LoadError  CtorError = CtorError
    BadConfigFiles = {LoadError, CtorError}
    Items <- MC_Items
    Endpoints <- MC_Endpoints
    Langs <- MC_Langs
    EndpointConfigs <- MC_EndpointConfigs
    CfgLang <- MC_CfgLang
    ItemLang <- MC_ItemLang
    Batches <- MC_Batches
    BatchFiles <- MC_BatchFiles
    Types <- MC_Types
    BatchType <- MC_BatchType
    Configs <- MC_Configs
    InitConfig <- MC_InitConfig
    MaxRetries = 1
    AttemptsReported = {1}
    Conc = 2
    MaxConfigChanges = 1
    Singleton = TRUE
    LateCancel = TRUE
SPECIFICATION Spec
INVARIANT TypeOK ItemTrackedOnce OwnershipMatchesWork RetryBound StartAssertion
          CompletionIffQuiescent ItemAccounted
PROPERTY DoneOnlyWhenAllRecorded
\* The master thread legitimately blocks forever on an empty submission queue.
CHECK_DEADLOCK FALSE
