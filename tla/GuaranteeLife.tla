----------------------------- MODULE GuaranteeLife -----------------------------
(***************************************************************************)
(* What a guarantee period promises: it is open until it either expires    *)
(* clean or is triggered, and then it stays as it is.  What a trigger      *)
(* charges, it charges at once.                                            *)
(***************************************************************************)
CONSTANT Chargeable      \* what a trigger may charge: commission records

VARIABLES state, charged

TypeOK == /\ state \in {"Active", "Triggered", "ExpiredClean"}
          /\ charged \subseteq Chargeable

Init == state = "Active" /\ charged = {}

Trigger == /\ state = "Active" /\ state' = "Triggered"
           /\ charged' \in SUBSET Chargeable

Expire == /\ state = "Active" /\ state' = "ExpiredClean"
          /\ UNCHANGED charged

Spec == Init /\ [][Trigger \/ Expire]_<<state, charged>>
=============================================================================
