------------------------------- MODULE TaskQueue -------------------------------
(***************************************************************************)
(* The task queue: tasks are claimed by workers under a lease, and their   *)
(* results are submitted with a single-use token.                          *)
(*                                                                         *)
(* A claim is one UPDATE and so is the recovery of stale claims.  Taking a *)
(* result is not: the handler consumes the token, reads the task and       *)
(* writes the result in three statements.  A job is one execution of a     *)
(* task by some worker, from its claim until its POST is answered; there   *)
(* may be any number of workers, and several may share a token.  A worker  *)
(* that crashes, whose agent fails, or that knows no such agent, drops its *)
(* job and tells nobody.                                                   *)
(*                                                                         *)
(* Time is the flags lease, due and expired, which turn over at any        *)
(* moment.  The agents are alike: one agent_type.                          *)
(***************************************************************************)
EXTENDS Integers, FiniteSets

CONSTANTS Tasks,         \* ids of tasks, one for each idempotency_key
          Tokens,        \* ids (jti) of worker tokens
          TaskOf,        \* the task_id a token is minted for
          MaxAttempts,   \* max_attempts of every task
          None           \* NULL

ASSUME TaskOfAssumption == TaskOf \in [Tokens -> Tasks]
ASSUME MaxAttemptsAssumption == MaxAttempts \in Nat \ {0}
ASSUME NoTokenAssumption == None \notin Tokens /\ None \notin Nat

VARIABLES task,      \* task_queue
          token,     \* worker_tokens, but for expires_at
          expired,   \* the tokens whose expires_at has passed
          jobs       \* what the workers are doing

vars == <<task, token, expired, jobs>>

(* running, submitting and failed are in the CHECK constraint of the table, *)
(* and no statement writes them.                                            *)
Statuses == {"absent", "pending", "claimed", "completed", "dead"}

(* by: the token the task was claimed with (claimed_by, delegated_token).   *)
(* result: the attempt whose result is stored.                              *)
TaskRow == [status : Statuses, attempt : 0 .. MaxAttempts,
            by : Tokens \cup {None}, lease : {"none", "live", "expired"},
            due : BOOLEAN, result : (1 .. MaxAttempts) \cup {None}]

(* The statement the handler of the job's POST runs next, if there is one.  *)
Stages == {"running", "consume", "readTask", "write"}

Job == [task : Tasks, attempt : 1 .. MaxAttempts, token : Tokens, stage : Stages]

TypeOK == /\ task \in [Tasks -> TaskRow]
          /\ token \in [Tokens -> {"unminted", "unused", "consumed"}]
          /\ expired \subseteq Tokens
          /\ jobs \subseteq Job

Init == /\ task = [t \in Tasks |->
                    [status |-> "absent", attempt |-> 0, by |-> None,
                     lease |-> "none", due |-> TRUE, result |-> None]]
        /\ token = [k \in Tokens |-> "unminted"]
        /\ expired = {}
        /\ jobs = {}

Replace(j, stage) == jobs' = (jobs \ {j}) \cup {[j EXCEPT !.stage = stage]}

Drop(j) == jobs' = jobs \ {j}

-----------------------------------------------------------------------------
(* POST /tasks; with a known idempotency_key it changes nothing. *)
Enqueue(t) ==
  /\ task[t].status = "absent"
  /\ task' = [task EXCEPT ![t].status = "pending"]
  /\ UNCHANGED <<token, expired, jobs>>

(* POST /agents/credentials; neither the task nor other tokens of the same  *)
(* task are looked at.                                                      *)
Mint(k) ==
  /\ token[k] = "unminted"
  /\ token' = [token EXCEPT ![k] = "unused"]
  /\ UNCHANGED <<task, expired, jobs>>

(* The signature and the expiry of the token are all that POST /tasks/claim *)
(* checks: neither its task_id nor whether it is consumed.                  *)
MayClaim(k) == token[k] # "unminted" /\ k \notin expired

Claimable(t) == task[t].status = "pending" /\ task[t].due

ClaimedBy(row, k) == [row EXCEPT !.status = "claimed", !.attempt = @ + 1,
                                 !.by = k, !.lease = "live"]

(* Mutant: the attempt is counted when the claim is recovered. *)
ClaimUncounted(t, k) ==
  /\ Claimable(t) /\ MayClaim(k)
  /\ task' = [task EXCEPT ![t].status = "claimed", ![t].by = k, ![t].lease = "live",
                          ![t].attempt = IF @ = 0 THEN 1 ELSE @]
  /\ jobs' = jobs \cup {[task |-> t, attempt |-> task'[t].attempt, token |-> k,
                         stage |-> "running"]}
  /\ UNCHANGED <<token, expired>>

(* SKIP LOCKED may pass over the task with the best priority: the claim is  *)
(* of any task that may be claimed.                                         *)
Claim(t, k) ==
  /\ Claimable(t) /\ MayClaim(k)
  /\ task' = [task EXCEPT ![t] = ClaimedBy(@, k)]
  /\ jobs' = jobs \cup {[task |-> t, attempt |-> task[t].attempt + 1, token |-> k,
                         stage |-> "running"]}
  /\ UNCHANGED <<token, expired>>

(* The claim is made, but its reply does not reach the worker. *)
ClaimReplyLost(t, k) ==
  /\ Claimable(t) /\ MayClaim(k)
  /\ task' = [task EXCEPT ![t] = ClaimedBy(@, k)]
  /\ UNCHANGED <<token, expired, jobs>>

(* The worker crashes, or its agent fails. *)
AbandonJob(j) ==
  /\ j.stage = "running"
  /\ Drop(j)
  /\ UNCHANGED <<task, token, expired>>

-----------------------------------------------------------------------------
(* POST /tasks/:id/result *)

(* The token must be bound to the task of the path.  A worker keeps one     *)
(* token and claims tasks that the token is not bound to: those are refused *)
(* here.                                                                    *)
Submit(j) ==
  /\ j.stage = "running"
  /\ IF TaskOf[j.token] = j.task /\ j.token \notin expired
       THEN Replace(j, "consume")
       ELSE Drop(j)
  /\ UNCHANGED <<task, token, expired>>

(* The UPDATE that tests and sets consumed_at. *)
Consume(j) ==
  /\ j.stage = "consume"
  /\ IF token[j.token] = "unused" /\ j.token \notin expired
       THEN /\ token' = [token EXCEPT ![j.token] = "consumed"]
            /\ Replace(j, "readTask")
       ELSE Drop(j) /\ UNCHANGED token
  /\ UNCHANGED <<task, expired>>

ReadTask(j) ==
  /\ j.stage = "readTask"
  /\ IF task[j.task].status = "completed" THEN Drop(j) ELSE Replace(j, "write")
  /\ UNCHANGED <<task, token, expired>>

(* WHERE id: whoever holds the task by now, and whatever its status.        *)
WriteResult(j) ==
  /\ j.stage = "write"
  /\ task' = [task EXCEPT ![j.task].status = "completed",
                          ![j.task].result = j.attempt]
  /\ Drop(j)
  /\ UNCHANGED <<token, expired>>

(* The body cannot be read (400), the agent_type differs (403), a statement *)
(* throws, or the server stops.                                             *)
RequestFails(j) ==
  /\ j.stage # "running"
  /\ Drop(j)
  /\ UNCHANGED <<task, token, expired>>

-----------------------------------------------------------------------------
(* recoverStaleClaims *)

Stale == {t \in Tasks : task[t].status = "claimed" /\ task[t].lease = "expired"}

(* Mutant: an off-by-one in the number of attempts. *)
RecoveredOnceMore(row) ==
  LET last == row.attempt > MaxAttempts
  IN [row EXCEPT !.status = IF last THEN "dead" ELSE "pending",
                 !.by = None, !.lease = "none", !.due = last]

Recovered(row) ==
  LET last == row.attempt >= MaxAttempts
  IN [row EXCEPT !.status = IF last THEN "dead" ELSE "pending",
                 !.by = None, !.lease = "none",
                 !.due = last]      \* next_retry_at: NULL, or after a backoff

(* Whoever calls it: no server of the repository starts the sweep.          *)
Recover ==
  /\ Stale # {}
  /\ task' = [t \in Tasks |-> IF t \in Stale THEN Recovered(task[t]) ELSE task[t]]
  /\ UNCHANGED <<token, expired, jobs>>

-----------------------------------------------------------------------------
(* Time passes. *)
LeaseExpires(t) ==
  /\ task[t].lease = "live"
  /\ task' = [task EXCEPT ![t].lease = "expired"]
  /\ UNCHANGED <<token, expired, jobs>>

RetryDue(t) ==
  /\ ~task[t].due
  /\ task' = [task EXCEPT ![t].due = TRUE]
  /\ UNCHANGED <<token, expired, jobs>>

TokenExpires(k) ==
  /\ token[k] # "unminted" /\ k \notin expired
  /\ expired' = expired \cup {k}
  /\ UNCHANGED <<task, token, jobs>>

-----------------------------------------------------------------------------
Work(j) == AbandonJob(j) \/ Submit(j)

TakeResult(j) == Consume(j) \/ ReadTask(j) \/ WriteResult(j) \/ RequestFails(j)

Next == \/ \E t \in Tasks : Enqueue(t) \/ LeaseExpires(t) \/ RetryDue(t)
        \/ \E k \in Tokens : Mint(k) \/ TokenExpires(k)
        \/ \E t \in Tasks, k \in Tokens : Claim(t, k) \/ ClaimReplyLost(t, k)
        \/ \E j \in jobs : Work(j) \/ TakeResult(j)
        \/ Recover

Spec == Init /\ [][Next]_vars

-----------------------------------------------------------------------------
(* What the queue promises. *)

(* Retries are bounded: a task whose attempts are used up is not offered    *)
(* again, and only such a task is dead (recoverStaleClaims, claimNextTask). *)
BoundedRetry ==
  \A t \in Tasks : /\ task[t].status = "pending" => task[t].attempt < MaxAttempts
                   /\ task[t].status = "dead" => task[t].attempt = MaxAttempts

(* No two workers ever hold the same attempt of a task, although claims,    *)
(* recoveries and slow workers overlap (claimNextTask).                     *)
AttemptExclusive ==
  \A i, j \in jobs : i.task = j.task /\ i.attempt = j.attempt => i = j

(* A token gets at most one request past its check (consumeWorkerToken).    *)
TokenSingleUse ==
  \A i, j \in jobs : {i.stage, j.stage} \subseteq {"readTask", "write"} =>
    token[i.token] = "consumed" /\ (i.token = j.token => i = j)

(* Whatever is claimed and submitted, one worker does it: one for each      *)
(* attempt, one request for each token (claimNextTask, consumeWorkerToken). *)
ClaimsExclusive == AttemptExclusive /\ TokenSingleUse

(* A completed task is not offered, retried or declared dead again.         *)
CompletedIsFinal ==
  [][\A t \in Tasks : task[t].status = "completed" =>
                        task'[t].status = "completed"]_vars

(* What an enqueuer sees of a task: a claim that is recovered with attempts *)
(* left, or a result that arrives late or twice, makes no difference to it. *)
LifeOf(row) == CASE row.status \in {"pending", "claimed"} -> "open"
                 [] row.status = "completed" -> "done"
                 [] row.status = "dead" -> "givenUp"
                 [] OTHER -> "absent"

lives == [t \in Tasks |-> LifeOf(task[t])]
attempts == [t \in Tasks |-> task[t].attempt]

Life == INSTANCE TaskLife WITH life <- lives, tries <- attempts

(* The queue implements what TaskLife promises.                             *)
LivesAsPromised == Life!Spec

-----------------------------------------------------------------------------
(* What the documentation promises and the code does not do. *)

(* Dead-worker lease recovery: no claim lasts for ever.  Nothing calls      *)
(* startStaleClaimRecovery.                                                 *)
ClaimsEnd == \A t \in Tasks : task[t].status = "claimed" ~> task[t].status # "claimed"

(* dead is terminal (TQ-P-004). *)
DeadIsTerminal ==
  [][\A t \in Tasks : task[t].status = "dead" => task'[t].status = "dead"]_vars

(* A recovered task and a slow original worker do not both submit (TQ-T-001). *)
OneResult ==
  [][\A t \in Tasks : task[t].result # None => task'[t].result = task[t].result]_vars
=============================================================================
