------------------------------ MODULE ReviewScreen ------------------------------
(***************************************************************************)
(* The run review page of the browser                                     *)
(* (apps/web/src/components/finance/CommissionRunReview.tsx): the screen   *)
(* it shows, the calls it has out, and the one run at the server that it   *)
(* is about, which other admins work on too.                               *)
(*                                                                         *)
(* A call is sent, answered and handled.  The server answers it in one     *)
(* step; CommissionRuns has the statements of the handlers.  A call or its *)
(* answer may get lost, and answers arrive in any order.                   *)
(***************************************************************************)
EXTENDS Naturals, FiniteSets

CONSTANTS Rows,    \* the commission records of the run
          Posts    \* slots for the calls of the page

VARIABLES server,  \* the run: status, individually approved rows, open discrepancies
          screen,  \* the state of the component
          post     \* its calls

screenVars == <<server, screen, post>>

Snapshot == [status : {"Open", "Approved"}, reviewed : SUBSET Rows]

NoSnapshot == [status |-> "Open", reviewed |-> {}]

Screen == [phase : {"start", "loading", "queue", "error", "batch-approved", "finalized"},
           data : Snapshot, starting : BOOLEAN, approving : Rows \cup {"none"},
           batchApproving : BOOLEAN, finalizing : BOOLEAN,
           blocked : BOOLEAN, mutationError : BOOLEAN]

Post == [pc : {"idle", "sent", "answered"},
         kind : {"start", "queue", "approve", "batch", "finalize"},
         row : Rows \cup {"none"}, from : {"queue", "batch-approved"}, reload : BOOLEAN,
         reply : {"none", "ok", "409", "422", "failed"}, data : Snapshot]

ScreenTypeOK ==
  /\ server \in [status : {"Open", "Approved"}, reviewed : SUBSET Rows, gap : BOOLEAN]
  /\ screen \in Screen
  /\ post \in [Posts -> Post]
  /\ \A p \in Posts : (post[p].pc = "answered") <=> (post[p].reply # "none")
  /\ screen.finalizing = \E p \in Posts : post[p].pc # "idle" /\ post[p].kind = "finalize"

NoPost == [pc |-> "idle", kind |-> "queue", row |-> "none", from |-> "queue",
           reload |-> FALSE, reply |-> "none", data |-> NoSnapshot]

ScreenInit ==
  /\ server \in [status : {"Open"}, reviewed : {{}}, gap : BOOLEAN]
  /\ screen = [phase |-> "start", data |-> NoSnapshot, starting |-> FALSE,
               approving |-> "none", batchApproving |-> FALSE, finalizing |-> FALSE,
               blocked |-> FALSE, mutationError |-> FALSE]
  /\ post = [p \in Posts |-> NoPost]

Send(p, call) ==
  /\ post[p].pc = "idle"
  /\ post' = [post EXCEPT ![p] = call]
  /\ UNCHANGED server

Request(kind) == [NoPost EXCEPT !.pc = "sent", !.kind = kind]

QueueRequest == Request("queue")

-----------------------------------------------------------------------------
(* What the user clicks, with the buttons as CommissionRunReviewView        *)
(* disables them.                                                           *)

ClickStart(p) ==
  /\ screen.phase = "start" /\ ~screen.starting
  /\ Send(p, Request("start"))
  /\ screen' = [screen EXCEPT !.starting = TRUE]

ClickLoad(p) ==
  /\ screen.phase = "start" /\ ~screen.starting
  /\ Send(p, QueueRequest)
  /\ screen' = [screen EXCEPT !.phase = "loading"]

(* Only the row whose approval was clicked last has its button disabled.    *)
ClickApprove(p, r) ==
  /\ screen.phase = "queue" /\ r \notin screen.data.reviewed /\ screen.approving # r
  /\ Send(p, [Request("approve") EXCEPT !.row = r])
  /\ screen' = [screen EXCEPT !.approving = r, !.mutationError = FALSE]

ClickBatchApprove(p) ==
  /\ screen.phase = "queue" /\ screen.data.status = "Open"
  /\ screen.data.reviewed = Rows /\ ~screen.batchApproving
  /\ Send(p, Request("batch"))
  /\ screen' = [screen EXCEPT !.batchApproving = TRUE, !.mutationError = FALSE]

ClickFinalize(p) ==
  /\ \/ screen.phase = "queue" /\ screen.data.status = "Open"
     \/ screen.phase = "batch-approved"
  /\ ~screen.finalizing
  /\ Send(p, [Request("finalize") EXCEPT !.from = screen.phase])
  /\ screen' = [screen EXCEPT !.finalizing = TRUE, !.blocked = FALSE,
                              !.mutationError = FALSE]

-----------------------------------------------------------------------------
(* The server *)

Answered(p, reply) ==
  post' = [post EXCEPT ![p].pc = "answered", ![p].reply = reply,
             ![p].data = [status |-> server'.status, reviewed |-> server'.reviewed]]

(* 409 on an approved run; the reviews are required by both approvals, the  *)
(* acknowledgments by finalize alone.                                       *)
Refusal(call) ==
  IF server.status = "Approved" THEN "409"
  ELSE IF \/ call.kind = "finalize" /\ server.gap
          \/ call.kind \in {"finalize", "batch"} /\ server.reviewed # Rows
         THEN "422" ELSE "none"

Serve(p) ==
  /\ post[p].pc = "sent"
  /\ UNCHANGED screen
  /\ \/ /\ post[p].kind \in {"start", "queue"}
        /\ UNCHANGED server
        /\ Answered(p, "ok")
     \/ /\ post[p].kind \in {"approve", "batch", "finalize"}
        /\ LET refusal == Refusal(post[p])
           IN IF refusal # "none"
                THEN UNCHANGED server /\ Answered(p, refusal)
                ELSE /\ server' = IF post[p].kind = "approve"
                                    THEN [server EXCEPT !.reviewed = @ \cup {post[p].row}]
                                    ELSE [server EXCEPT !.status = "Approved"]
                     /\ Answered(p, "ok")

(* The call does not reach the server, or its answer not the browser. *)
Lose(p) ==
  /\ post[p].pc = "sent" \/ (post[p].pc = "answered" /\ post[p].reply # "failed")
  /\ post' = [post EXCEPT ![p].pc = "answered", ![p].reply = "failed"]
  /\ UNCHANGED <<server, screen>>

(* Another admin reviews, acknowledges, loads a report, or approves the run. *)
OtherAdmin ==
  /\ server.status = "Open"
  /\ \/ \E r \in Rows \ server.reviewed : server' = [server EXCEPT !.reviewed = @ \cup {r}]
     \/ \E gap \in BOOLEAN \ {server.gap} : server' = [server EXCEPT !.gap = gap]
     \/ server.reviewed = Rows /\ server' = [server EXCEPT !.status = "Approved"]
  /\ UNCHANGED <<screen, post>>

-----------------------------------------------------------------------------
(* What the page does with an answer *)

Handled(p) == post' = [post EXCEPT ![p] = NoPost] /\ UNCHANGED server

Handles(p, kind) == post[p].pc = "answered" /\ post[p].kind = kind

Ok(p) == post[p].reply = "ok"

(* loadQueue, from handleStart, handleLoadRun or handleApproveRecord: the   *)
(* slot goes on as the call for the queue.                                  *)
LoadQueue(p, reload) ==
  /\ post' = [post EXCEPT ![p] = [QueueRequest EXCEPT !.reload = reload]]
  /\ screen' = [screen EXCEPT !.phase = "loading"]
  /\ UNCHANGED server

HandleStart(p) ==
  /\ Handles(p, "start")
  /\ IF Ok(p)
       THEN LoadQueue(p, FALSE)
       ELSE /\ Handled(p)
            /\ screen' = [screen EXCEPT !.starting = FALSE]

(* Mutant: an answer that is no queue is not caught. *)
HandleQueueUncaught(p) ==
  /\ Handles(p, "queue")
  /\ Handled(p)
  /\ screen' = [screen EXCEPT !.phase = IF Ok(p) THEN "queue" ELSE @,
                              !.data = IF Ok(p) THEN post[p].data ELSE @,
                              !.approving = IF post[p].reload THEN "none" ELSE @]

HandleQueue(p) ==
  /\ Handles(p, "queue")
  /\ Handled(p)
  /\ screen' = [screen EXCEPT !.phase = IF Ok(p) THEN "queue" ELSE "error",
                              !.data = IF Ok(p) THEN post[p].data ELSE NoSnapshot,
                              !.starting = FALSE,
                              !.approving = IF post[p].reload THEN "none" ELSE @]

HandleApprove(p) ==
  /\ Handles(p, "approve")
  /\ IF Ok(p)
       THEN LoadQueue(p, TRUE)
       ELSE /\ Handled(p)
            /\ screen' = [screen EXCEPT !.mutationError = TRUE, !.approving = "none"]

Refused(p) == [screen EXCEPT !.blocked = @ \/ post[p].reply = "422",
                             !.mutationError = @ \/ post[p].reply # "422"]

HandleBatchApprove(p) ==
  /\ Handles(p, "batch")
  /\ Handled(p)
  /\ screen' = [(IF Ok(p) THEN [screen EXCEPT !.phase = "batch-approved"] ELSE Refused(p))
                  EXCEPT !.batchApproving = FALSE]

(* Mutant: an answer that is no refusal leaves the button disabled. *)
HandleFinalizeStuck(p) ==
  /\ Handles(p, "finalize")
  /\ Handled(p)
  /\ screen' = (IF Ok(p) THEN [screen EXCEPT !.phase = "finalized", !.finalizing = FALSE]
                         ELSE Refused(p))

HandleFinalize(p) ==
  /\ Handles(p, "finalize")
  /\ Handled(p)
  /\ screen' = [(IF Ok(p) THEN [screen EXCEPT !.phase = "finalized"] ELSE Refused(p))
                  EXCEPT !.finalizing = FALSE]

Handle(p) == \/ HandleStart(p) \/ HandleQueue(p) \/ HandleApprove(p)
             \/ HandleBatchApprove(p) \/ HandleFinalize(p)

Click(p) == \/ ClickStart(p) \/ ClickLoad(p)
            \/ \E r \in Rows : ClickApprove(p, r)
            \/ ClickBatchApprove(p) \/ ClickFinalize(p)

ScreenNext == \/ \E p \in Posts : Click(p) \/ Serve(p) \/ Lose(p) \/ Handle(p)
              \/ OtherAdmin

(* A call that was sent is answered or fails, and the browser runs what is  *)
(* waiting for the answer.                                                  *)
ScreenFair == \A p \in Posts : WF_screenVars(Serve(p) \/ Lose(p)) /\ WF_screenVars(Handle(p))

ScreenSpec == ScreenInit /\ [][ScreenNext]_screenVars /\ ScreenFair

-----------------------------------------------------------------------------
(* In whatever order the answers come, the page says that the run is        *)
(* approved or finalized only when it is, and shows no row as approved that *)
(* is not (handleBatchApprove, handleFinalize, loadQueue).                  *)
ScreenTellsApproved ==
  /\ screen.phase \in {"batch-approved", "finalized"} => server.status = "Approved"
  /\ screen.data.reviewed \subseteq server.reviewed
  /\ screen.data.status = "Approved" => server.status = "Approved"

(* The page does not stay at "Loading" or "Finalizing": a lost call ends in *)
(* a message (the catch and finally of each handler).                       *)
ScreenSettles ==
  /\ screen.phase = "loading" ~> screen.phase # "loading"
  /\ screen.finalizing ~> ~screen.finalizing

(* The page says of an approved run: "Proceed to finalize to hand off to    *)
(* payroll" (CommissionRunReview.tsx:538).  The server refuses each such    *)
(* finalize with 409, for the run is approved already                       *)
(* (handleFinalizeCommissionRun).                                           *)
ApprovedCanFinalize ==
  \A p \in Posts : post[p].kind = "finalize" /\ post[p].from = "batch-approved" =>
                     post[p].reply # "409"

-----------------------------------------------------------------------------
(* What does not hold.  A queue that was asked for before the run was       *)
(* finalized replaces the page that says so, and offers "Finalize" again.   *)
FinalizedStays == [][screen.phase = "finalized" => screen'.phase = "finalized"]_screenVars

(* What blocked an earlier finalize is still shown next to "Run approved":  *)
(* only a click on "Finalize" clears it.                                    *)
BlockedClears == screen.phase = "batch-approved" => ~screen.blocked
=============================================================================
