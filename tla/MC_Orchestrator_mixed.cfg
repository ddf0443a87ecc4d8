\* A batch mixing English and French items, with one English and one French
\* endpoint: every started batch should still end.
CONSTANTS
    f1 = f1  f2 = f2  e1 = e1  e2 = e2  en = en  fr = fr
    cEn = cEn  cFr = cFr  cEn2 = cEn2  T1 = T1
    NoLang = NoLang  NoResult = NoResult  NoType = NoType  Stub = Stub  StopSentinel = StopSentinel
    LoadError = LoadError  CtorError = CtorError
    BadConfigFiles = {}
    Items <- MC_Items
    Endpoints <- MC_Endpoints
    Langs <- MC_Langs
    EndpointConfigs <- MC_EndpointConfigs
    CfgLang <- MC_CfgLang
    ItemLang <- MC_ItemLangMixed
    Batches <- MC_Batches
    BatchFiles <- MC_BatchFiles
    Types <- MC_Types
    BatchType <- MC_BatchType
    Configs <- MC_ConfigsLive
    InitConfig <- MC_InitConfig
    MaxRetries = 1
    AttemptsReported = {1}
    Conc = 1
    MaxConfigChanges = 1
    Singleton = FALSE
    LateCancel = FALSE
SPECIFICATION FairSpec
PROPERTY BatchCompletes
\* The master thread legitimately blocks forever on an empty submission queue.
CHECK_DEADLOCK FALSE
