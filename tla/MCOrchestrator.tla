--------------------------- MODULE MCOrchestrator ---------------------------
(* Small instances of Orchestrator for TLC: issues in a fixed order of      *)
(* dispatch, none blocked by another.                                       *)
EXTENDS Orchestrator

CONSTANTS i1, i2

MCPriority == [i \in Issues |-> IF i = i1 THEN 1 ELSE 2]
Independent == [i \in Issues |-> {}]
=============================================================================
