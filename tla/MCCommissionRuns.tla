-------------------------- MODULE MCCommissionRuns --------------------------
(* CommissionRuns on a small instance. *)
EXTENDS CommissionRuns, TLC

CONSTANTS p1, p2

(* One placement has one record, another (if any is left) all the rest. *)
MCPlacements == IF Cardinality(Records) = 1 THEN {p1} ELSE {p1, p2}
MCPlacementOf == LET last == CHOOSE r \in Records : TRUE
                 IN [r \in Records |-> IF r = last THEN p1 ELSE p2]

MCSymmetry == Permutations(Requests)
=============================================================================
