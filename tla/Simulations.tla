----------------------------- MODULE Simulations -----------------------------
(***************************************************************************)
(* Deal simulations: a producer asks for a forecast, which a worker makes  *)
(* as a task of the queue, and the page of the producer polls for it.      *)
(*                                                                         *)
(* The server inserts the simulation_run, enqueues its task, links the     *)
(* two, mints a token and writes it into the payload of the task: five     *)
(* statements, of which any may be the last, and from the second on a      *)
(* worker may claim the task.  The worker posts the forecast with the      *)
(* token of the payload, not with its own, and never completes the task:   *)
(* the task of a finished simulation is recovered and run again, until it  *)
(* is dead.                                                                *)
(*                                                                         *)
(* A simulation is named by its task.  Only tokens of SimTokens are minted *)
(* for simulations; the workers claim with the others.                     *)
(***************************************************************************)
EXTENDS TaskQueue

CONSTANTS SimTokens,     \* ids (jti) of the tokens minted for simulations
          Polls          \* how often a page asks for the forecast

ASSUME SimTokensAssumption == SimTokens \subseteq Tokens
ASSUME PollsAssumption == Polls \in Nat \ {0}

VARIABLES request,     \* where the handler of the POST of the simulation is
          embedded,    \* payload.result_token of the task
          linked,      \* simulation_run.job_id is set
          forecast,    \* simulation_run.result_json: the attempt that made it
          work,        \* claims of simulation tasks that workers hold
          page         \* the page that waits for the forecast

simVars == <<request, embedded, linked, forecast, work, page>>

RequestStages == {"none", "enqueue", "link", "mint", "embed", "answered", "failed"}

WorkStages == {"forecast", "post", "read", "write"}

(* token: the result_token that was in the payload when the task was claimed. *)
SimWork == [task : Tasks, attempt : 1 .. MaxAttempts, token : Tokens, stage : WorkStages]

Page == [view : {"none", "waiting", "shown", "unavailable", "error"}, left : 0 .. Polls]

SimTypeOK == /\ request \in [Tasks -> RequestStages]
             /\ embedded \in [Tasks -> SimTokens \cup {None}]
             /\ linked \subseteq Tasks
             /\ forecast \in [Tasks -> (1 .. MaxAttempts) \cup {None}]
             /\ work \subseteq SimWork
             /\ page \in [Tasks -> Page]

SimInit == /\ request = [t \in Tasks |-> "none"]
           /\ embedded = [t \in Tasks |-> None]
           /\ linked = {}
           /\ forecast = [t \in Tasks |-> None]
           /\ work = {}
           /\ page = [t \in Tasks |-> [view |-> "none", left |-> 0]]

-----------------------------------------------------------------------------
(* POST /producer/simulations/{actual, hypothetical} *)

(* The deal is the producer's own; insertSimulationRun. *)
RequestSimulation(t) ==
  /\ request[t] = "none"
  /\ request' = [request EXCEPT ![t] = "enqueue"]
  /\ UNCHANGED <<vars, embedded, linked, forecast, work, page>>

EnqueueSimulation(t) ==
  /\ request[t] = "enqueue"
  /\ Enqueue(t)
  /\ request' = [request EXCEPT ![t] = "link"]
  /\ UNCHANGED <<embedded, linked, forecast, work, page>>

LinkTask(t) ==
  /\ request[t] = "link"
  /\ linked' = linked \cup {t}
  /\ request' = [request EXCEPT ![t] = "mint"]
  /\ UNCHANGED <<vars, embedded, forecast, work, page>>

(* Mutant: the payload has the token before the request is answered. *)
MintAndEmbed(t, k) ==
  /\ request[t] = "mint" /\ TaskOf[k] = t
  /\ Mint(k)
  /\ embedded' = [embedded EXCEPT ![t] = k]
  /\ request' = [request EXCEPT ![t] = "embed"]
  /\ UNCHANGED <<linked, forecast, work, page>>

MintSimulationToken(t, k) ==
  /\ request[t] = "mint" /\ TaskOf[k] = t
  /\ Mint(k)
  /\ request' = [request EXCEPT ![t] = "embed"]
  /\ UNCHANGED <<embedded, linked, forecast, work, page>>

(* The payload is written whatever has become of the task; then the answer, *)
(* and the page starts to poll.                                             *)
EmbedToken(t, k) ==
  /\ request[t] = "embed" /\ TaskOf[k] = t /\ token[k] # "unminted"
  /\ embedded' = [embedded EXCEPT ![t] = k]
  /\ request' = [request EXCEPT ![t] = "answered"]
  /\ page' = [page EXCEPT ![t] = [view |-> "waiting", left |-> Polls]]
  /\ UNCHANGED <<vars, linked, forecast, work>>

(* A statement throws (500), or the server stops: what is done stays done. *)
RequestBreaks(t) ==
  /\ request[t] \in {"enqueue", "link", "mint", "embed"}
  /\ request' = [request EXCEPT ![t] = "failed"]
  /\ page' = [page EXCEPT ![t].view = "error"]
  /\ UNCHANGED <<vars, embedded, linked, forecast, work>>

-----------------------------------------------------------------------------
(* The worker: processOnce, processSimulationTask *)

Rework(w, stage) == work' = (work \ {w}) \cup {[w EXCEPT !.stage = stage]}

Leave(w) == work' = work \ {w}

(* A payload without a token is dropped at once (simulation_payload_        *)
(* incomplete); the task stays claimed.                                     *)
ClaimSimulation(t, k) ==
  /\ ClaimReplyLost(t, k)
  /\ work' = IF embedded[t] = None THEN work
             ELSE work \cup {[task |-> t, attempt |-> task[t].attempt + 1,
                              token |-> embedded[t], stage |-> "forecast"]}
  /\ UNCHANGED <<request, embedded, linked, forecast, page>>

(* The forecast is made and posted; or the engine fails, or the worker      *)
(* stops, and nothing is posted.                                            *)
PostForecast(w) ==
  /\ w.stage = "forecast"
  /\ Rework(w, "post") \/ Leave(w)
  /\ UNCHANGED <<vars, request, embedded, linked, forecast, page>>

(* handleSubmitSimulationResult, up to consumeWorkerToken. *)
ConsumeSimToken(w) ==
  /\ w.stage = "post"
  /\ IF token[w.token] = "unused" /\ w.token \notin expired
       THEN /\ token' = [token EXCEPT ![w.token] = "consumed"]
            /\ Rework(w, "read")
       ELSE Leave(w) /\ UNCHANGED token
  /\ UNCHANGED <<task, expired, jobs, request, embedded, linked, forecast, page>>

(* getSimulationRunById: the run is there, nothing deletes it. *)
ReadSimulation(w) ==
  /\ w.stage = "read"
  /\ Rework(w, "write")
  /\ UNCHANGED <<vars, request, embedded, linked, forecast, page>>

(* setSimulationRunResult: WHERE id AND org_id, whatever is there. *)
WriteForecast(w) ==
  /\ w.stage = "write"
  /\ forecast' = [forecast EXCEPT ![w.task] = w.attempt]
  /\ Leave(w)
  /\ UNCHANGED <<vars, request, embedded, linked, page>>

(* A statement throws, or the server stops. *)
SubmitFails(w) ==
  /\ w.stage \in {"post", "read", "write"}
  /\ Leave(w)
  /\ UNCHANGED <<vars, request, embedded, linked, forecast, page>>

-----------------------------------------------------------------------------
(* pollForForecast *)

(* Mutant: the last poll is one too late. *)
PollOnceMore(t) ==
  /\ page[t].view = "waiting"
  /\ page' = [page EXCEPT ![t] =
               IF forecast[t] # None THEN [view |-> "shown", left |-> @.left]
               ELSE [view |-> IF @.left < 0 THEN "unavailable" ELSE "waiting",
                     left |-> @.left - 1]]
  /\ UNCHANGED <<vars, request, embedded, linked, forecast, work>>

(* Mutant: the polls are not counted. *)
PollUncounted(t) ==
  /\ page[t].view = "waiting"
  /\ page' = [page EXCEPT ![t].view = IF forecast[t] # None THEN "shown" ELSE "waiting"]
  /\ UNCHANGED <<vars, request, embedded, linked, forecast, work>>

Poll(t) ==
  /\ page[t].view = "waiting"
  /\ page' = [page EXCEPT ![t] =
               CASE forecast[t] # None -> [view |-> "shown", left |-> @.left]
                 [] forecast[t] = None /\ @.left = 1 -> [view |-> "unavailable", left |-> 0]
                 [] OTHER -> [view |-> "waiting", left |-> @.left - 1]]
  /\ UNCHANGED <<vars, request, embedded, linked, forecast, work>>

(* The GET fails: the error ends the wait. *)
PollFails(t) ==
  /\ page[t].view = "waiting"
  /\ page' = [page EXCEPT ![t].view = "error"]
  /\ UNCHANGED <<vars, request, embedded, linked, forecast, work>>

-----------------------------------------------------------------------------
(* The clocks and the sweep go on; the tokens of the workers are renewed    *)
(* before they expire.                                                      *)
QueueGoesOn ==
  /\ \/ \E t \in Tasks : LeaseExpires(t) \/ RetryDue(t)
     \/ \E k \in SimTokens : TokenExpires(k)
     \/ \E t \in Tasks, k \in Tokens \ SimTokens : ClaimReplyLost(t, k)
     \/ Recover
  /\ UNCHANGED simVars

SimNext == \/ \E t \in Tasks : \/ RequestSimulation(t) \/ EnqueueSimulation(t)
                               \/ LinkTask(t) \/ RequestBreaks(t)
                               \/ Poll(t) \/ PollFails(t)
           \/ \E t \in Tasks, k \in SimTokens : MintSimulationToken(t, k) \/ EmbedToken(t, k)
           \/ \E t \in Tasks, k \in Tokens \ SimTokens : ClaimSimulation(t, k)
           \/ \E w \in work : \/ PostForecast(w) \/ ConsumeSimToken(w)
                              \/ ReadSimulation(w) \/ WriteForecast(w) \/ SubmitFails(w)
           \/ QueueGoesOn

allVars == <<vars, simVars>>

(* In the browser the timer of a page that waits fires, and its GET ends:   *)
(* with an answer, unless the wait is over by then.                         *)
PagesPoll == \A t \in Tasks : WF_allVars(Poll(t))

-----------------------------------------------------------------------------
(* A forecast is stored once, although the task is run again after it and   *)
(* slow workers overlap (handleSubmitSimulationResult: the UPDATE itself    *)
(* does not look); and with the token of its simulation, no earlier than    *)
(* the link to the task: neither a run that is not linked nor one that was  *)
(* answered 500 before the token was embedded can get one.                  *)
ForecastOnce ==
  [][\A t \in Tasks : forecast'[t] # forecast[t] =>
       forecast[t] = None /\ t \in linked /\ request[t] = "answered"]_allVars

(* Every page that waits comes to an end, whatever becomes of the task, the *)
(* worker and the token; and if the forecast is there before the last poll, *)
(* the page shows it, unless the GET fails (pollForForecast).               *)
PageSettles ==
  \A t \in Tasks :
    /\ page[t].view = "waiting" ~> page[t].view \in {"shown", "unavailable", "error"}
    /\ page[t].view = "waiting" /\ forecast[t] # None ~> page[t].view \in {"shown", "error"}

-----------------------------------------------------------------------------
(* What a reader may expect and the code does not do. *)

(* "left for retry": the task of a finished simulation is run again.        *)
FinishedIsNotRetried ==
  [][\A t \in Tasks : forecast[t] # None => task'[t].attempt = task[t].attempt]_allVars
=============================================================================
