----------------------- MODULE MC_OrchestratorShutdown -----------------------
(* Finite instances of OrchestratorShutdown for TLC.                       *)
EXTENDS OrchestratorShutdown

MC_Batches == 1..2
====
