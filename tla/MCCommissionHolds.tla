-------------------------- MODULE MCCommissionHolds --------------------------
(***************************************************************************)
(* CommissionHolds on a small instance: one placement.  In half of the     *)
(* behaviours anything may happen at once, fail or be imported, with one   *)
(* invoice; in the other half (serial) one request is served after the     *)
(* other and nothing fails, with two invoices and more statuses.           *)
(***************************************************************************)
EXTENDS CommissionHolds, TLC

CONSTANTS p1, r1, r2, i1, i2, ph1, q1, q2

VARIABLE serial

MCPlacementOf == [r \in Records |-> p1]
MCPhasesOf == [p \in Placements |-> Phases]

(* r1 is contingency commission, r2 belongs to the phase, billed by i2.     *)
MCPhaseOf == [r \in Records |-> IF r = r2 THEN ph1 ELSE None]
MCInvoiceOf == [ph \in Phases |-> i2]
MCBilledTo == [i \in Invoices |-> p1]

MCSymmetry == Permutations(Requests)

MCInit == Init /\ serial \in BOOLEAN

(* The concurrent behaviours know i2 only, issued and then paid.            *)
OneInvoice == /\ invoice'[i1] = "absent"
              /\ invoice'[i2] \in {"absent", "Issued", "Paid"}
              /\ invoice[i2] = "Paid" => invoice'[i2] = "Paid"
              /\ \A q \in Requests : req'[q].to \in {"Paid", None}

(* A request that nothing fails in.                                         *)
Served(q) == \/ \E i \in Invoices, s \in Targets : UpdateInvoiceRequest(q, i, s)
             \/ UpdateInvoice(q)
             \/ ReleaseGate(q) /\ recs' = releaseCollectionGate(BilledTo[req[q].inv])
             \/ SelectPhases(q)
             \/ SelectHeld(q)
             \/ PayPhase(q)
             \/ WriteJournal(q)
             \/ Calculate(q)
             \/ Guarantee(q)

MCNext == /\ UNCHANGED serial
          /\ \/ ~serial /\ Next /\ OneInvoice
             \/ serial /\ Surroundings
             \/ serial /\ \E q \in Requests :
                            /\ \A other \in Requests \ {q} : At(other, "idle")
                            /\ Served(q)

MCSpec == MCInit /\ [][MCNext]_<<vars, serial>>

-----------------------------------------------------------------------------
(* The promises that concurrent requests can break. *)

(* If requests do not overlap nothing is held without a reason: not for the *)
(* invoices of a placement that are all paid (handleUpdateInvoice), nor for *)
(* the paid invoice of a phase (releasePhaseCollectionGate), nor for a      *)
(* period that has expired cleanly (processGuaranteeExpiredRecalc).         *)
SerialReleases == serial => PaidReleases /\ PhasePaidReleases /\ ExpiredReleases
=============================================================================
