--------------------------- MODULE MC_Orchestrator ---------------------------
(* Finite instances of Orchestrator for TLC.                               *)
EXTENDS Orchestrator, TLC

CONSTANTS f1, f2, e1, e2, en, fr, cEn, cFr, cEn2, T1

MC_Items == {f1, f2}
MC_Endpoints == {e1, e2}
MC_Langs == {en, fr}
MC_EndpointConfigs == {cEn, cFr, cEn2}
\* cEn2 is a different endpoint_config with the same language as cEn.
MC_CfgLang == (cEn :> en) @@ (cFr :> fr) @@ (cEn2 :> en)
\* f1 is tagged English, f2 carries no language.
MC_ItemLang == (f1 :> en) @@ (f2 :> NoLang)
\* A mixed-language batch: f1 English, f2 French (both languages are served).
MC_ItemLangMixed == (f1 :> en) @@ (f2 :> fr)
MC_Batches == 1..2
\* Batch 2 reuses filepath f1, so late callbacks of batch 1 can meet it.
MC_BatchFiles == (1 :> <<f1, f2>>) @@ (2 :> <<f1>>)
\* A batch whose make_work_items yields nothing.
MC_BatchFilesEmpty == (1 :> <<f1, f2>>) @@ (2 :> <<>>)
MC_Types == {T1}
MC_BatchType == (1 :> T1) @@ (2 :> T1)
\* Both endpoints; e1 only; e1 with a changed config of the same language.
MC_Configs == { (e1 :> cEn) @@ (e2 :> cFr), (e1 :> cEn), (e1 :> cEn2) @@ (e2 :> cFr) }
MC_InitConfig == (e1 :> cEn) @@ (e2 :> cFr)
\* For the liveness run: a mid-batch change of e1's endpoint_config.
MC_ConfigsLive == { (e1 :> cEn2) @@ (e2 :> cFr) }
====
