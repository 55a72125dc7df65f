---------------------------- MODULE MCBillingPhases ----------------------------
(***************************************************************************)
(* Small instances of Placements and BillingPhases, of the encryption of   *)
(* the amounts that they store, of the requests and reports that read them *)
(* (PortalReads, Reports) and of the pages that change them (EditorPages). *)
(* A behaviour is about one of these.                                      *)
(***************************************************************************)
EXTENDS BillingPhases, FieldEncryption, Reports, EditorPages, TLC

CONSTANTS p1, p2, c1, c2, c3, i1, i2, r1, r2, q1, q2, b1, b2, a1, x1, e1, e2, e3,
          s1, s2

VARIABLE subject

Patch(start, days, status, confidential) ==
  [start |-> start, days |-> days, status |-> status, confidential |-> confidential]

MCBodies == {Patch(1, Absent, Absent, Absent), Patch(Absent, 2, Absent, TRUE),
             Patch(2, 1, Absent, FALSE),
             Patch(Absent, Absent, "ContributorsAssigned", Absent),
             Patch(Absent, Absent, "Active", Absent)}

MCPhases == {<<p1, "retainer">>, <<p1, "delivery">>}

Rows(status) == [p \in Placements |->
                   IF p = p1 THEN [NoRow EXCEPT !.status = status] ELSE NoRow]

Scene(rows, splits, links, credits, operations) ==
  [rows |-> rows, splits |-> splits, links |-> links, credits |-> credits,
   operations |-> operations]

NoSplits == [c \in Contributors |-> None]

Split == [NoSplits EXCEPT ![c1] = [place |-> p1, pct |-> 1],
                          ![c2] = [place |-> p2, pct |-> 1]]

NoPhases == [ph \in MCPhases |-> "absent"]

(* The operations that meet on one table or share a contributor.            *)
MCScenes ==
  {Scene(Rows("absent"), NoSplits, NoPhases, {}, {"create"}),
   Scene(Rows("Created"), NoSplits, NoPhases, {}, {"patch"}),
   Scene(Rows("ContributorsAssigned"), NoSplits, NoPhases, {},
         {"attribution", "patchStatus"}),
   Scene(Rows("Created"), NoSplits, NoPhases, {}, {"add", "delete", "finalize"}),
   Scene([Rows("Active") EXCEPT ![p2].status = "Closed"], Split, NoPhases, {},
         {"delete", "createPhase", "credit", "calculate"}),
   Scene(Rows("Active"), Split,
         [NoPhases EXCEPT ![<<p1, "retainer">>] = i1],
         {<<<<p1, "retainer">>, c1>>},
         {"link", "calculate", "pay"})}

(* Two payouts of one placement; two placements of different clients that   *)
(* one producer is credited on.                                             *)
MCDealOf == [s \in Shares |-> p1]
MCLineOf == r1 :> c1 @@ r2 :> c2
MCPlaceOf == c1 :> p1 @@ c2 :> p2
MCClientOf == p1 :> "a" @@ p2 :> "b"
MCProducerOf == [c \in Credits |-> "a"]
MCNetOf == r1 :> 1 @@ r2 :> 2

MCInit == /\ Init /\ EncryptionInit
          /\ subject \in {"phases", "encryption", "reads", "reports", "pages"}
          /\ subject # "encryption" => kms = "dev"
          /\ subject # "phases" => desk = {"create"}
          /\ IF subject = "reads" THEN ReadsInit ELSE ReadsBegin
          /\ IF subject = "reports" THEN ReportsInit ELSE ReportsBegin
          /\ IF subject = "pages" THEN PagesInit ELSE PagesBegin

MCNext ==
  /\ UNCHANGED subject
  /\ \/ /\ subject = "phases"
        /\ Next
        /\ UNCHANGED <<encryptionVars, readVars, reportVars, pageVars>>
     \/ /\ subject = "encryption"
        /\ EncryptionNext
        /\ UNCHANGED <<vars, readVars, reportVars, pageVars>>
     \/ /\ subject = "reads"
        /\ ReadsNext
        /\ UNCHANGED <<vars, encryptionVars, reportVars, pageVars>>
     \/ /\ subject = "reports"
        /\ ReportsNext
        /\ UNCHANGED <<vars, encryptionVars, readVars, pageVars>>
     \/ /\ subject = "pages"
        /\ PagesNext
        /\ UNCHANGED <<vars, encryptionVars, readVars, reportVars>>

MCSpec == MCInit /\ [][MCNext]_<<vars, encryptionVars, readVars, reportVars, pageVars,
                                subject>>

(* The types of the modules. *)
MCTypeOK == TypeOK /\ EncryptionTypeOK /\ ReadsTypeOK /\ ReportsTypeOK /\ PagesTypeOK

(* What is shared out, or reported as shared out, adds up: the splits of a  *)
(* placement and the figures of a report (handleAddContributor,             *)
(* getExecutiveAnalytics, getTeamCommissionSummary).                        *)
SumsAgree == FinalizedFits /\ FiguresAgree

Symmetry == Permutations({q1, q2}) \cup Permutations({b1, b2})
=============================================================================
