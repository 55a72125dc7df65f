--------------------------- MODULE CommissionPricing ---------------------------
(***************************************************************************)
(* What a commission amounts to: the calculation of a placement resolves   *)
(* a plan version for one contributor after the other, while versions are  *)
(* activated and invoices paid, and prices each with the five stages of    *)
(* the calculation engine.                                                 *)
(*                                                                         *)
(* Amounts and rates are whole numbers: a split is given in parts of       *)
(* Whole, and a credited base is in parts of the same kind.                *)
(***************************************************************************)
EXTENDS PlanVersions, SequencesExt

CONSTANTS Contributors,   \* the contributors of the placement, oldest first
          ProducerOf,     \* producer_id of a contributor
          SplitOf,        \* split_pct of a contributor, in parts of Whole
          Whole,
          FeeAmount, CompensationBase,
          RulesOf,        \* rules_snapshot of a version
          Bills,          \* the invoices of the placement
          Rows,           \* ids for commission records
          Calcs           \* slots for the calculations and payments served

Credited == Range(Contributors)
RateTypes == {"gross_fee", "net_fee_income"}
Tiers == Seq([threshold : Nat, rate : Nat])

(* validateTiers *)
Ascending(tiers) ==
  \A i \in 2..Len(tiers) : tiers[i].threshold > tiers[i - 1].threshold

ASSUME ContributorsAssumption == /\ Contributors \in Seq(Credited)
                                 /\ ProducerOf \in [Credited -> Producers]
                                 /\ SplitOf \in [Credited -> 0..Whole]
ASSUME RowsAssumption == IsFiniteSet(Rows)
ASSUME AmountsAssumption == {Whole, FeeAmount, CompensationBase} \subseteq Nat
ASSUME RulesAssumption ==
  \A v \in Versions : /\ RulesOf[v].rate_type \in RateTypes
                      /\ {RulesOf[v].base_rate, RulesOf[v].desk_cost} \subseteq Nat
                      /\ RulesOf[v].tiers \in Tiers /\ Ascending(RulesOf[v].tiers)

VARIABLES paid,      \* the invoices that are Paid
          window,    \* whether today is inside the guarantee window
          priced,    \* commission_records, None if there is no such row
          shown,     \* the tier progress that a producer is shown, or None
          calc

rows == <<paid, window, priced, shown>>
pricing == <<paid, window, priced, shown, calc>>

Answers == {"unknown", "yes", "no"}

Calculation == [pc : {"idle", "resolve", "plan", "fallback", "insert", "release"},
                next : 1..Len(Contributors) + 1, version : Versions \cup {None},
                collected : Answers, inside : Answers]

Record == [contributor : Credited, version : Versions, rate : Nat, gross : Nat,
           drawn : Nat, net : Nat, status : {"Accrued", "Held", "Payable"},
           reason : {"none", "collection_gate", "guarantee_hold"}]

Progress == [version : Versions, production : Nat, rate : Nat, next : Nat \cup {None}]

ASSUME NullAssumption == /\ None \notin Record /\ None \notin Progress
                         /\ None \notin [threshold : Nat, rate : Nat]

PricingTypeOK == /\ paid \subseteq Bills
                 /\ window \in BOOLEAN
                 /\ priced \in [Rows -> Record \cup {None}]
                 /\ shown \in Progress \cup {None}
                 /\ calc \in [Calcs -> Calculation]

NoCalculation == [pc |-> "idle", next |-> 1, version |-> None,
                  collected |-> "unknown", inside |-> "unknown"]

PricingInit == /\ paid = {}
               /\ window \in BOOLEAN
               /\ priced = [r \in Rows |-> None]
               /\ shown = None
               /\ calc = [k \in Calcs |-> NoCalculation]

Inserted == {r \in Rows : priced[r] # None}

-----------------------------------------------------------------------------
(* The engine: its five stages, one after the other *)

(* A split of zero is refused; a larger one than Whole there is not. *)
calculateBase(rules, c) ==
  SplitOf[c] * (IF rules.rate_type = "net_fee_income" THEN CompensationBase
                                                       ELSE FeeAmount)

SelectTier(tiers, production) ==
  FoldLeft(LAMBDA tier, t :
             IF /\ production >= t.threshold
                /\ tier = None \/ t.threshold > tier.threshold
               THEN t ELSE tier,
           None, tiers)

AppliedRate(rules, production) ==
  LET tier == SelectTier(rules.tiers, production)
  IN  IF tier = None THEN rules.base_rate ELSE tier.rate

applyTiers(rules, credited, ytdGross) ==
  LET rate == AppliedRate(rules, ytdGross + credited)
  IN  [rate |-> rate, gross |-> Max({0, credited - rules.desk_cost}) * rate]

recoverDraw(gross, drawBalance) ==
  LET drawn == Min({gross, Max({0, drawBalance})})
  IN  [drawn |-> drawn, net |-> gross - drawn]

gateOnCollection(net, collected) ==
  [net |-> IF collected THEN net ELSE 0, forCollection |-> ~collected,
   forGuarantee |-> FALSE]

applyGuaranteeHold(gated, inside) ==
  IF inside THEN [gated EXCEPT !.net = 0, !.forGuarantee = TRUE] ELSE gated

(* The handler supplies neither: both amounts are encrypted (resolveYtdGross, *)
(* resolveDrawBalance).                                                     *)
YtdGross == 0
DrawBalance == 0

(* The record that is inserted for contributor c. *)
runCalculationPipeline(c, v, collected, inside) ==
  LET tiered == applyTiers(RulesOf[v], calculateBase(RulesOf[v], c), YtdGross)
      recovery == recoverDraw(tiered.gross, DrawBalance)
      final == applyGuaranteeHold(gateOnCollection(recovery.net, collected), inside)
  IN  [contributor |-> c, version |-> v, rate |-> tiered.rate,
       gross |-> tiered.gross, drawn |-> recovery.drawn, net |-> final.net,
       status |-> IF final.forCollection \/ final.forGuarantee THEN "Held"
                                                               ELSE "Accrued",
       reason |-> CASE final.forCollection -> "collection_gate"
                    [] ~final.forCollection /\ final.forGuarantee -> "guarantee_hold"
                    [] OTHER -> "none"]

(* The sort by threshold is stable. *)
SortedTiers(tiers) ==
  LET order == CHOOSE p \in [DOMAIN tiers -> DOMAIN tiers] :
        \A i, j \in DOMAIN tiers : i < j =>
          \/ tiers[p[i]].threshold < tiers[p[j]].threshold
          \/ tiers[p[i]].threshold = tiers[p[j]].threshold /\ p[i] < p[j]
  IN  [i \in DOMAIN tiers |-> tiers[order[i]]]

(* The rate and the next threshold that the portal shows a producer: the    *)
(* last tier, in ascending order, that the production has reached.          *)
computeTierProgress(rules, production) ==
  LET sorted == SortedTiers(rules.tiers)
      matched == Max({0} \cup {i \in DOMAIN sorted : production >= sorted[i].threshold})
  IN  [rate |-> IF matched = 0 THEN rules.base_rate ELSE sorted[matched].rate,
       next |-> IF matched < Len(sorted) THEN sorted[matched + 1].threshold ELSE None]

-----------------------------------------------------------------------------
(* POST /placements/:id/calculate *)

CalcAt(k, pc) == calc[k].pc = pc

CalculateRequest(k) ==
  /\ CalcAt(k, "idle") /\ Contributors # <<>>
  /\ calc' = [calc EXCEPT ![k].pc = "resolve"]
  /\ UNCHANGED rows

Answer(b) == IF b THEN "yes" ELSE "no"

(* A placement without an invoice is not collected. *)
resolveInvoiceCollected(k) ==
  /\ CalcAt(k, "resolve") /\ calc[k].collected = "unknown"
  /\ calc' = [calc EXCEPT ![k].collected = Answer(Bills # {} /\ Bills \subseteq paid)]
  /\ UNCHANGED rows

resolveInsideGuaranteeWindow(k) ==
  /\ CalcAt(k, "resolve") /\ calc[k].inside = "unknown"
  /\ calc' = [calc EXCEPT ![k].inside = Answer(window)]
  /\ UNCHANGED rows

(* Both queries have been answered. *)
Resolved(k) ==
  /\ CalcAt(k, "resolve")
  /\ calc[k].collected # "unknown" /\ calc[k].inside # "unknown"
  /\ calc' = [calc EXCEPT ![k].pc = "plan"]
  /\ UNCHANGED rows

Contributor(k) == Contributors[calc[k].next]

ActiveVersions == {v \in Versions : version[v].status = "Active"}
AssignedTo(c) == {v \in Versions : <<v, ProducerOf[c]>> \in assigned}

Price(k, v) == calc' = [calc EXCEPT ![k].pc = "insert", ![k].version = v]

(* Mutant: the assignment decides, whatever the status of the version. *)
ResolveAssignedAny(k) ==
  /\ CalcAt(k, "plan")
  /\ LET found == AssignedTo(Contributor(k))
     IN  IF found = {} THEN calc' = [calc EXCEPT ![k].pc = "fallback"]
                       ELSE \E v \in found : Price(k, v)
  /\ UNCHANGED rows

(* The Active version that the producer was assigned to last: any, as       *)
(* assigned does not tell the order.                                        *)
resolveActivePlanVersion(k) ==
  /\ CalcAt(k, "plan")
  /\ LET found == AssignedTo(Contributor(k)) \cap ActiveVersions
     IN  IF found = {} THEN calc' = [calc EXCEPT ![k].pc = "fallback"]
                       ELSE \E v \in found : Price(k, v)
  /\ UNCHANGED rows

(* The Active version of the organisation with the latest effective_at: any. *)
(* If there is none the answer is 422, and what has been inserted stays.    *)
FallbackVersion(k) ==
  /\ CalcAt(k, "fallback")
  /\ IF ActiveVersions = {} THEN calc' = [calc EXCEPT ![k] = NoCalculation]
                            ELSE \E v \in ActiveVersions : Price(k, v)
  /\ UNCHANGED rows

NextContributor(k) ==
  calc' = [calc EXCEPT ![k] =
             IF calc[k].next < Len(Contributors)
               THEN [calc[k] EXCEPT !.pc = "plan", !.next = calc[k].next + 1, !.version = None]
               ELSE NoCalculation]

(* The pipeline throws for a split of zero (422). *)
InsertPriced(k, r) ==
  /\ CalcAt(k, "insert")
  /\ r \notin Inserted
  /\ IF SplitOf[Contributor(k)] = 0
       THEN /\ calc' = [calc EXCEPT ![k] = NoCalculation]
            /\ UNCHANGED priced
       ELSE /\ priced' = [priced EXCEPT ![r] =
                 runCalculationPipeline(Contributor(k), calc[k].version,
                   calc[k].collected = "yes", calc[k].inside = "yes")]
            /\ NextContributor(k)
  /\ UNCHANGED <<paid, window, shown>>

(* A statement throws, or the server stops. *)
FailCalculation(k) ==
  /\ Failures
  /\ ~CalcAt(k, "idle")
  /\ calc' = [calc EXCEPT ![k] = NoCalculation]
  /\ UNCHANGED rows

-----------------------------------------------------------------------------
(* What goes on around a calculation *)

(* PATCH /invoices/:id to Paid, and then the release of the gate. *)
PayBill(k, b) ==
  /\ CalcAt(k, "idle")
  /\ b \notin paid
  /\ paid' = paid \cup {b}
  /\ calc' = [calc EXCEPT ![k].pc = "release"]
  /\ UNCHANGED <<window, priced, shown>>

releaseCollectionGate(k) ==
  /\ CalcAt(k, "release")
  /\ priced' = [r \in Rows |->
       IF r \in Inserted /\ priced[r].status = "Held" /\ priced[r].reason = "collection_gate"
         THEN [priced[r] EXCEPT !.status = "Payable", !.reason = "none"]
         ELSE priced[r]]
  /\ calc' = [calc EXCEPT ![k] = NoCalculation]
  /\ UNCHANGED <<paid, window, shown>>

(* guarantee_ends passes. *)
WindowCloses ==
  /\ window
  /\ window' = FALSE
  /\ UNCHANGED <<paid, priced, shown, calc>>

Gross == [r \in Inserted |-> priced[r].gross]

(* GET /me/tier-progress: the amounts that are not Held count as production. *)
getTierProgressForProducer(a) ==
  LET counted == {r \in Inserted : /\ ProducerOf[priced[r].contributor] = a
                                   /\ priced[r].status # "Held"}
      production == MapThenSumSet(LAMBDA r : Gross[r], counted)
  IN  /\ \E v \in ActiveVersions :
           /\ <<v, a>> \in assigned
           /\ LET progress == computeTierProgress(RulesOf[v], production)
              IN  shown' = [version |-> v, production |-> production,
                            rate |-> progress.rate, next |-> progress.next]
      /\ UNCHANGED <<paid, window, priced, calc>>

Calculate(k) == \/ CalculateRequest(k)
                \/ resolveInvoiceCollected(k)
                \/ resolveInsideGuaranteeWindow(k)
                \/ Resolved(k)
                \/ resolveActivePlanVersion(k)
                \/ FallbackVersion(k)
                \/ \E r \in Rows : InsertPriced(k, r)

Pay(k) == \/ \E b \in Bills : PayBill(k, b)
          \/ releaseCollectionGate(k)

PricingNext == \/ \E k \in Calcs : Calculate(k) \/ Pay(k) \/ FailCalculation(k)
               \/ \E a \in Producers : getTierProgressForProducer(a)
               \/ WindowCloses

(* Any number of calculations and payments while the versions go on. *)
PricingSpec ==
  Init /\ PricingInit
    /\ [][\/ Next /\ UNCHANGED pricing
          \/ PricingNext /\ UNCHANGED vars]_<<vars, pricing>>

-----------------------------------------------------------------------------
(* What the component promises. *)

(* The rate that the rules give for an amount of production. *)
RateFor(rules, production) ==
  LET reached == {t \in Range(rules.tiers) : t.threshold <= production}
  IN  IF reached = {} THEN rules.base_rate
        ELSE (CHOOSE t \in reached : \A u \in reached : u.threshold <= t.threshold).rate

(* What the rules of version v give contributor c. *)
Owed(v, c) ==
  LET base == calculateBase(RulesOf[v], c)
  IN  IF base <= RulesOf[v].desk_cost THEN 0
        ELSE (base - RulesOf[v].desk_cost) * RateFor(RulesOf[v], base)

(* The amounts of a record are those of the rules of the version it names,  *)
(* whatever was activated between the query for the rules and the INSERT;   *)
(* and the version was in force then: a Draft prices nothing                *)
(* (resolveActivePlanVersion, handleCalculateCommission).                   *)
PricedByRules ==
  \A r \in Inserted : LET record == priced[r] IN
    /\ version[record.version].status \in {"Active", "Superseded"}
    /\ record.gross = Owed(record.version, record.contributor)
    /\ record.status = "Accrued" => record.net + record.drawn = record.gross

(* A record that was never held was calculated after the placement had been *)
(* paid for in full and its guarantee window had passed, and its hold names *)
(* the gate as long as the gate holds (gateOnCollection,                    *)
(* applyGuaranteeHold).                                                     *)
AccruedIsCollected ==
  \A r \in Inserted : priced[r].status = "Accrued" => /\ Bills # {} /\ Bills \subseteq paid
                                                      /\ ~window

(* The rate that the portal shows for a production is the rate that the     *)
(* engine applies at that production, and the threshold shown is the next   *)
(* that the production has not reached (computeTierProgress, applyTiers).   *)
ProgressAgrees ==
  shown # None =>
    LET rules == RulesOf[shown.version]
        above == {t.threshold : t \in {u \in Range(rules.tiers) :
                                          u.threshold > shown.production}}
    IN  /\ shown.rate = AppliedRate(rules, shown.production)
        /\ shown.next = IF above = {} THEN None ELSE Min(above)

(* A commission is priced by the rules that applied, accrues when it is     *)
(* earned, and is what the producer was shown (handleCalculateCommission    *)
(* and getTierProgressForProducer).                                         *)
PriceSound == PricedByRules /\ AccruedIsCollected /\ ProgressAgrees

-----------------------------------------------------------------------------
(* What the documentation promises and the code does not do. *)

(* A released record pays what its rules give: the payment of the invoice   *)
(* has net_payable posted again (phase-commission-engine.md).               *)
ReleasedPaysNet ==
  \A r \in Inserted : priced[r].status = "Payable" =>
                        priced[r].net + priced[r].drawn = priced[r].gross

(* The contributors of one placement who are assigned to versions of the    *)
(* same plan are priced by the same version.                                *)
PricedAlike ==
  \A r, s \in Inserted : PlanOf[priced[r].version] = PlanOf[priced[s].version] =>
                           priced[r].version = priced[s].version

(* A refused calculation leaves no records. *)
CalculationWhole ==
  (\A k \in Calcs : CalcAt(k, "idle")) =>
    \A c \in Credited : Cardinality({r \in Inserted : priced[r].contributor = c}) =
      Cardinality({r \in Inserted : priced[r].contributor = Contributors[1]})
=============================================================================
