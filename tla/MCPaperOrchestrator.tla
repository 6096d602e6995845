------------------------ MODULE MCPaperOrchestrator ------------------------
(* A small instance of PaperOrchestrator: two signals on one symbol. *)
EXTENDS PaperOrchestrator

MCDeployments == {{"serial"}, {"cadence"}, {"registry"}}
=============================================================================
