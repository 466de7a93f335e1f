------------------------ MODULE MCHealingOrchestrator ------------------------
(* The healing orchestrator on a small instance.                           *)
EXTENDS HealingOrchestrator

CONSTANTS s1, s2, i1, i2

=============================================================================
