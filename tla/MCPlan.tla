-------------------------------- MODULE MCPlan --------------------------------
(* Questions of two cells at most: a guard against the dropping of one is    *)
(* mostly another cell.  Of any number, PlannedIsTold is the theorem.        *)
EXTENDS Plan

MCCellSets == {{}} \union { {a, b} : a, b \in Cell }
=============================================================================
