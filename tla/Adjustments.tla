------------------------------ MODULE Adjustments ------------------------------
(***************************************************************************)
(* Refunds and credit memos: a Finance Admin posts an amount to the ledger *)
(* of a commission record.  The handler reads the ledger, inserts the row  *)
(* and names the rows it had read in the audit entry, so that the entries  *)
(* tell whether a row was removed.  Amounts and types are left out.        *)
(***************************************************************************)
EXTENDS CommissionRecords, Sequences, FiniteSets

CONSTANTS Posts      \* the posts, and the rows they insert

VARIABLES ledger,    \* commission_record_adjustments of a record, oldest first
          priors,    \* prior_adjustment_ids of the audit entry of a post
          posting    \* what the handler of a post is doing

ledgerVars == <<ledger, priors, posting>>

Posting == [pc : {"new", "read", "insert", "audit", "done", "failed"}, record : Records,
            read : SUBSET Posts]

InLedger(r) == {ledger[r][i] : i \in DOMAIN ledger[r]}

(* A post that was not refused is in the ledger of its record, once. *)
LedgerTypeOK ==
  /\ posting \in [Posts -> Posting]
  /\ priors \in [Posts -> SUBSET Posts]
  /\ DOMAIN ledger = Records
  /\ \A r \in Records :
       /\ Len(ledger[r]) = Cardinality(InLedger(r))
       /\ InLedger(r) = {a \in Posts : posting[a].record = r
                                        /\ posting[a].pc \in {"audit", "done"}}

LedgerInit ==
  /\ ledger = [r \in Records |-> <<>>]
  /\ priors = [a \in Posts |-> {}]
  /\ posting \in [Posts -> {[pc |-> "new", record |-> r, read |-> {}] : r \in Records}]

PostingAt(a, pc) == posting[a].pc = pc

(* The amount, its type and its reason are valid, and the record is one of  *)
(* the placement (422 otherwise).                                           *)
PostAdjustment(a) ==
  /\ PostingAt(a, "new")
  /\ posting' = [posting EXCEPT ![a].pc = IF Exists(posting[a].record) THEN "read" ELSE "failed"]
  /\ UNCHANGED <<ledger, priors>>

ReadPriors(a) ==
  /\ PostingAt(a, "read")
  /\ posting' = [posting EXCEPT ![a].pc = "insert", ![a].read = InLedger(posting[a].record)]
  /\ UNCHANGED <<ledger, priors>>

InsertAdjustment(a) ==
  /\ PostingAt(a, "insert")
  /\ ledger' = [ledger EXCEPT ![posting[a].record] = Append(@, a)]
  /\ posting' = [posting EXCEPT ![a].pc = "audit"]
  /\ UNCHANGED priors

(* Best effort. *)
WriteAdjustmentAudit(a) ==
  /\ PostingAt(a, "audit")
  /\ priors' \in {priors, [priors EXCEPT ![a] = posting[a].read]}
  /\ posting' = [posting EXCEPT ![a].pc = "done"]
  /\ UNCHANGED ledger

(* A statement throws (500). *)
PostFails(a) ==
  /\ posting[a].pc \in {"read", "insert"}
  /\ posting' = [posting EXCEPT ![a].pc = "failed"]
  /\ UNCHANGED <<ledger, priors>>

LedgerNext ==
  \E a \in Posts : \/ PostAdjustment(a) \/ ReadPriors(a) \/ InsertAdjustment(a)
                   \/ WriteAdjustmentAudit(a) \/ PostFails(a)

-----------------------------------------------------------------------------
(* What the audit entries of a record name nests, although posts overlap    *)
(* and each reads before it inserts: of two entries one names all that the  *)
(* other does.  Rows that differ both ways would mean that one was removed  *)
(* (handlePostAdjustment: "append-only invariant verification").            *)
PriorsNest ==
  \A a, b \in Posts : posting[a].record = posting[b].record =>
    priors[a] \subseteq priors[b] \/ priors[b] \subseteq priors[a]

(* What does not hold: two posts at the same time do not name each other,   *)
(* so that an entry does not tell of every row before its own.              *)
PriorsComplete ==
  \A a, b \in Posts :
    PostingAt(a, "done") /\ PostingAt(b, "done") /\ posting[a].record = posting[b].record
    /\ a # b => a \in priors[b] \/ b \in priors[a]
=============================================================================
