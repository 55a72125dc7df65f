---------------------------- MODULE TaskQueueProofs ----------------------------
(***************************************************************************)
(* Theorems about TaskQueue, for any number of tasks, tokens and attempts, *)
(* and about MCSpec, where simulations are queued as well.                 *)
(*                                                                         *)
(* The type of a row depends on the bound on retries: a claim adds one to  *)
(* attempt, and stays within MaxAttempts only because a pending task has   *)
(* attempts left.  That no two jobs have the same attempt needs that the   *)
(* attempts in flight are behind the counter of the task, and the promise  *)
(* of TaskLife needs it too: a result is written only after a try.         *)
(*                                                                         *)
(* A forecast is stored once because the token in the payload of the task  *)
(* is the only one its claims carry, and consuming it lets one of them     *)
(* past: SimInv says so, and that the token comes after the link.          *)
(***************************************************************************)
EXTENDS MCSimulations, TLAPS

(* The attempts in flight are behind the counter of their task.             *)
JobsCounted == \A j \in jobs : j.attempt <= task[j.task].attempt

(* A task that has not been enqueued has not been tried. *)
Untried == \A t \in Tasks : task[t].status = "absent" => task[t].attempt = 0

Rows == TypeOK /\ BoundedRetry /\ Untried

Inv == Rows /\ JobsCounted /\ AttemptExclusive /\ TokenSingleUse

-----------------------------------------------------------------------------
(* What Recovered makes of a row. *)
LEMMA RecoveredRow ==
  ASSUME NEW row \in TaskRow
  PROVE  /\ Recovered(row) \in TaskRow
         /\ Recovered(row).attempt = row.attempt
         /\ Recovered(row).result = row.result
         /\ Recovered(row).status \in {"pending", "dead"}
         /\ Recovered(row).status = "pending" => row.attempt < MaxAttempts
         /\ Recovered(row).status = "dead" => row.attempt = MaxAttempts
<1>1. row.attempt \in 0 .. MaxAttempts /\ MaxAttempts \in Nat
  BY MaxAttemptsAssumption DEF TaskRow
<1>2. row.attempt >= MaxAttempts <=> row.attempt = MaxAttempts
  BY <1>1
<1>3. CASE row.attempt = MaxAttempts
  BY <1>1, <1>2, <1>3 DEF Recovered, TaskRow, Statuses
<1>4. CASE row.attempt # MaxAttempts
  <2>1. ~(row.attempt >= MaxAttempts) /\ row.attempt < MaxAttempts
    BY <1>1, <1>4
  <2>2. Recovered(row) = [row EXCEPT !.status = "pending", !.by = None,
                                     !.lease = "none", !.due = FALSE]
    <3>1. (row.attempt >= MaxAttempts) = FALSE
      BY <2>1
    <3>2. QED
      BY ONLY <3>1, Zenon DEF Recovered
  <2>3. QED
    BY <2>1, <2>2 DEF TaskRow, Statuses
<1>5. QED
  BY <1>3, <1>4

(* A claim makes a row of a row that may be claimed. *)
LEMMA ClaimedRow ==
  ASSUME NEW row \in TaskRow, NEW k \in Tokens, row.attempt < MaxAttempts
  PROVE  /\ ClaimedBy(row, k) \in TaskRow
         /\ ClaimedBy(row, k).status = "claimed"
         /\ ClaimedBy(row, k).attempt = row.attempt + 1
         /\ row.attempt + 1 \in 1 .. MaxAttempts
<1>1. row.attempt \in 0 .. MaxAttempts /\ MaxAttempts \in Nat
  BY MaxAttemptsAssumption DEF TaskRow
<1>2. row.attempt + 1 \in 1 .. MaxAttempts /\ row.attempt + 1 \in 0 .. MaxAttempts
  BY <1>1
<1>3. QED
  BY <1>1, <1>2 DEF ClaimedBy, TaskRow, Statuses

(* Moving a job on to another statement keeps the jobs what they are. *)
LEMMA ReplacedJobs ==
  ASSUME TypeOK, NEW j \in jobs, NEW stage \in Stages, Replace(j, stage)
  PROVE  /\ jobs' \subseteq Job
         /\ \A i \in jobs' : i \in jobs \/ i = [j EXCEPT !.stage = stage]
BY DEF TypeOK, Job, Replace

-----------------------------------------------------------------------------
LEMMA RowsInit == Init => Rows
BY MaxAttemptsAssumption, NoTokenAssumption
   DEF Init, Rows, TypeOK, BoundedRetry, Untried, TaskRow, Statuses, Job

(* Every step keeps the types and the bound on retries. *)
LEMMA RowsStep == Rows /\ [Next]_vars => Rows'
<1>1. SUFFICES ASSUME Rows, [Next]_vars PROVE Rows'
  OBVIOUS
<1> USE MaxAttemptsAssumption, NoTokenAssumption
<1>2. \A t \in Tasks : task[t] \in TaskRow
  BY <1>1 DEF Rows, TypeOK
<1>3. ASSUME NEW t \in Tasks, Enqueue(t) PROVE Rows'
  BY <1>1, <1>2, <1>3 DEF Rows, TypeOK, BoundedRetry, Untried, Enqueue, TaskRow, Statuses
<1>4. ASSUME NEW t \in Tasks, LeaseExpires(t) PROVE Rows'
  BY <1>1, <1>2, <1>4 DEF Rows, TypeOK, BoundedRetry, Untried, LeaseExpires, TaskRow
<1>5. ASSUME NEW t \in Tasks, RetryDue(t) PROVE Rows'
  BY <1>1, <1>2, <1>5 DEF Rows, TypeOK, BoundedRetry, Untried, RetryDue, TaskRow
<1>6. ASSUME NEW k \in Tokens, Mint(k) PROVE Rows'
  BY <1>1, <1>6 DEF Rows, TypeOK, BoundedRetry, Untried, Mint
<1>7. ASSUME NEW k \in Tokens, TokenExpires(k) PROVE Rows'
  BY <1>1, <1>7 DEF Rows, TypeOK, BoundedRetry, Untried, TokenExpires
<1>8. ASSUME NEW t \in Tasks, NEW k \in Tokens, Claim(t, k) \/ ClaimReplyLost(t, k)
      PROVE  Rows'
  <2>1. task[t].attempt < MaxAttempts
    BY <1>1, <1>8 DEF Rows, BoundedRetry, Claim, ClaimReplyLost, Claimable
  <2>2. /\ ClaimedBy(task[t], k) \in TaskRow
        /\ ClaimedBy(task[t], k).status = "claimed"
        /\ task[t].attempt + 1 \in 1 .. MaxAttempts
    BY <1>2, <2>1, ClaimedRow
  <2>3. task' = [task EXCEPT ![t] = ClaimedBy(@, k)]
    BY <1>8 DEF Claim, ClaimReplyLost
  <2>4. task' \in [Tasks -> TaskRow] /\ task'[t].status = "claimed"
        /\ \A u \in Tasks \ {t} : task'[u] = task[u]
    BY <1>1, <2>2, <2>3 DEF Rows, TypeOK
  <2>5. jobs' \subseteq Job
    <3>1. CASE Claim(t, k)
      BY <1>1, <2>2, <3>1 DEF Claim, Rows, TypeOK, Job, Stages
    <3>2. CASE ClaimReplyLost(t, k)
      BY <1>1, <3>2 DEF ClaimReplyLost, Rows, TypeOK
    <3>3. QED
      BY <1>8, <3>1, <3>2
  <2>6. token' = token /\ expired' = expired
    BY <1>8 DEF Claim, ClaimReplyLost
  <2>7. QED
    BY <1>1, <2>4, <2>5, <2>6 DEF Rows, TypeOK, BoundedRetry, Untried
<1>9. ASSUME NEW j \in jobs, Work(j) PROVE Rows'
  BY <1>1, <1>9, ReplacedJobs
  DEF Rows, TypeOK, BoundedRetry, Untried, Work, AbandonJob, Submit, Drop, Stages
<1>10. ASSUME NEW j \in jobs, Consume(j) PROVE Rows'
  <2>1. j.token \in Tokens
    BY <1>1 DEF Rows, TypeOK, Job
  <2>2. QED
    BY <1>1, <1>10, <2>1, ReplacedJobs
    DEF Rows, TypeOK, BoundedRetry, Untried, Consume, Drop, Stages
<1>11. ASSUME NEW j \in jobs, ReadTask(j) PROVE Rows'
  BY <1>1, <1>11, ReplacedJobs DEF Rows, TypeOK, BoundedRetry, Untried, ReadTask, Drop, Stages
<1>12. ASSUME NEW j \in jobs, WriteResult(j) PROVE Rows'
  <2>1. j.task \in Tasks /\ j.attempt \in 1 .. MaxAttempts
    BY <1>1 DEF Rows, TypeOK, Job
  <2>2. task' \in [Tasks -> TaskRow]
    BY <1>1, <1>2, <1>12, <2>1 DEF Rows, TypeOK, WriteResult, TaskRow, Statuses
  <2>3. BoundedRetry' /\ Untried'
    BY <1>1, <1>2, <1>12, <2>1 DEF Rows, TypeOK, BoundedRetry, Untried, WriteResult, TaskRow
  <2>4. QED
    BY <1>1, <1>12, <2>2, <2>3 DEF Rows, TypeOK, WriteResult, Drop
<1>13. ASSUME NEW j \in jobs, RequestFails(j) PROVE Rows'
  BY <1>1, <1>13 DEF Rows, TypeOK, BoundedRetry, Untried, RequestFails, Drop
<1>14. ASSUME Recover PROVE Rows'
  <2>1. \A t \in Tasks : task'[t] = IF t \in Stale THEN Recovered(task[t]) ELSE task[t]
    BY <1>14 DEF Recover
  <2>2. task' \in [Tasks -> TaskRow]
    BY <1>2, <1>14, RecoveredRow DEF Recover
  <2>3. BoundedRetry' /\ Untried'
    BY <1>1, <1>2, <2>1, RecoveredRow DEF Rows, BoundedRetry, Untried
  <2>4. QED
    BY <1>1, <1>14, <2>2, <2>3 DEF Rows, TypeOK, Recover
<1>15. CASE UNCHANGED vars
  BY <1>1, <1>15 DEF Rows, TypeOK, BoundedRetry, Untried, vars
<1>16. QED
  BY <1>1, <1>3, <1>4, <1>5, <1>6, <1>7, <1>8, <1>9, <1>10, <1>11, <1>12, <1>13,
     <1>14, <1>15
  DEF Next, TakeResult

LEMMA RowsInvariance == Spec => []Rows
BY RowsInit, RowsStep, PTL DEF Spec

(* The rows and the jobs have their types.                                  *)
THEOREM TypeCorrect == Spec => []TypeOK
<1>1. Rows => TypeOK
  BY DEF Rows
<1>2. QED
  BY <1>1, RowsInvariance, PTL

(* A task is offered and given up as its attempts allow, whatever the       *)
(* interleaving of claims, submissions and recoveries.                      *)
THEOREM RetriesBounded == Spec => []BoundedRetry
<1>1. Rows => BoundedRetry
  BY DEF Rows
<1>2. QED
  BY <1>1, RowsInvariance, PTL

-----------------------------------------------------------------------------
(* What a job is moved to is the same attempt with the same token. *)
LEMMA MovedJob ==
  ASSUME NEW j \in Job, NEW stage \in Stages
  PROVE  LET moved == [j EXCEPT !.stage = stage]
         IN /\ moved.task = j.task /\ moved.attempt = j.attempt
            /\ moved.token = j.token /\ moved.stage = stage
BY DEF Job

(* Leaving a job out, or moving one, keeps the attempts apart. *)
LEMMA FewerJobs ==
  ASSUME TypeOK, AttemptExclusive, jobs' \subseteq jobs
  PROVE  AttemptExclusive'
BY DEF AttemptExclusive

LEMMA MovedApart ==
  ASSUME TypeOK, AttemptExclusive, NEW j \in jobs, NEW stage \in Stages, Replace(j, stage)
  PROVE  AttemptExclusive'
<1>1. SUFFICES ASSUME NEW i \in jobs', NEW k \in jobs',
                      i.task = k.task, i.attempt = k.attempt
               PROVE  i = k
  BY DEF AttemptExclusive
<1> DEFINE moved == [j EXCEPT !.stage = stage]
<1>2. moved.task = j.task /\ moved.attempt = j.attempt
  BY MovedJob DEF TypeOK
<1>3. /\ i \in jobs \ {j} \/ i = moved
      /\ k \in jobs \ {j} \/ k = moved
  BY DEF Replace
<1>4. QED
  BY <1>1, <1>2, <1>3 DEF AttemptExclusive

(* Every step keeps the attempts in flight behind the counters, and apart.  *)
LEMMA AttemptsStep ==
  Rows /\ JobsCounted /\ AttemptExclusive /\ [Next]_vars
    => JobsCounted' /\ AttemptExclusive'
<1>1. SUFFICES ASSUME Rows, JobsCounted, AttemptExclusive, [Next]_vars
               PROVE  JobsCounted' /\ AttemptExclusive'
  OBVIOUS
<1> USE MaxAttemptsAssumption
<1>2. /\ \A t \in Tasks : task[t] \in TaskRow
      /\ \A j \in jobs : j \in Job /\ j.task \in Tasks /\ j.attempt \in 1 .. MaxAttempts
      /\ TypeOK
  BY <1>1 DEF Rows, TypeOK, Job
<1>3. ASSUME \A t \in Tasks : task'[t].attempt = task[t].attempt, jobs' \subseteq jobs
      PROVE  JobsCounted' /\ AttemptExclusive'
  BY <1>1, <1>2, <1>3, FewerJobs DEF JobsCounted
<1>4. ASSUME task' = task, NEW j \in jobs, NEW stage \in Stages, Replace(j, stage)
      PROVE  JobsCounted' /\ AttemptExclusive'
  <2>1. AttemptExclusive'
    BY <1>1, <1>2, <1>4, MovedApart
  <2> DEFINE moved == [j EXCEPT !.stage = stage]
  <2>2. moved.task = j.task /\ moved.attempt = j.attempt
    BY <1>2, MovedJob
  <2>3. \A i \in jobs' : i \in jobs \/ i = moved
    BY <1>4 DEF Replace
  <2>4. QED
    BY <1>1, <1>4, <2>1, <2>2, <2>3 DEF JobsCounted
<1>5. ASSUME NEW t \in Tasks, Enqueue(t) \/ LeaseExpires(t) \/ RetryDue(t)
      PROVE  JobsCounted' /\ AttemptExclusive'
  <2>1. \A u \in Tasks : task'[u].attempt = task[u].attempt
    BY <1>2, <1>5 DEF Enqueue, LeaseExpires, RetryDue, TypeOK, TaskRow
  <2>2. QED
    BY <1>3, <1>5, <2>1 DEF Enqueue, LeaseExpires, RetryDue
<1>6. ASSUME NEW k \in Tokens, Mint(k) \/ TokenExpires(k)
      PROVE  JobsCounted' /\ AttemptExclusive'
  BY <1>3, <1>6 DEF Mint, TokenExpires
<1>7. ASSUME NEW t \in Tasks, NEW k \in Tokens, Claim(t, k) \/ ClaimReplyLost(t, k)
      PROVE  JobsCounted' /\ AttemptExclusive'
  <2> DEFINE new == [task |-> t, attempt |-> task[t].attempt + 1, token |-> k,
                     stage |-> "running"]
  <2>1. task[t].attempt < MaxAttempts /\ task[t].attempt \in Nat
    BY <1>1, <1>2, <1>7 DEF Rows, BoundedRetry, Claim, ClaimReplyLost, Claimable, TaskRow
  <2>2. /\ task'[t].attempt = task[t].attempt + 1
        /\ \A u \in Tasks \ {t} : task'[u] = task[u]
    BY <1>2, <1>7, <2>1, ClaimedRow DEF Claim, ClaimReplyLost, TypeOK
  <2>3. \A j \in jobs' : j \in jobs \/ j = new
    BY <1>7 DEF Claim, ClaimReplyLost
  <2>4. \A j \in jobs : j.task = t => j.attempt <= task[t].attempt
    BY <1>1 DEF JobsCounted
  <2>5. JobsCounted'
    BY <1>1, <1>2, <2>1, <2>2, <2>3, <2>4 DEF JobsCounted, TaskRow
  <2>6. \A j \in jobs : ~(j.task = new.task /\ j.attempt = new.attempt)
    BY <1>2, <2>1, <2>4
  <2>7. AttemptExclusive'
    BY <1>1, <2>3, <2>6 DEF AttemptExclusive
  <2>8. QED
    BY <2>5, <2>7
<1>8. ASSUME NEW j \in jobs, AbandonJob(j) \/ RequestFails(j)
      PROVE  JobsCounted' /\ AttemptExclusive'
  BY <1>3, <1>8 DEF AbandonJob, RequestFails, Drop
<1>9. ASSUME NEW j \in jobs, Submit(j) \/ Consume(j) \/ ReadTask(j)
      PROVE  JobsCounted' /\ AttemptExclusive'
  BY <1>3, <1>4, <1>9 DEF Submit, Consume, ReadTask, Drop, Stages
<1>10. ASSUME NEW j \in jobs, WriteResult(j)
       PROVE  JobsCounted' /\ AttemptExclusive'
  <2>1. \A u \in Tasks : task'[u].attempt = task[u].attempt
    BY <1>2, <1>10 DEF WriteResult, TypeOK, TaskRow
  <2>2. QED
    BY <1>3, <1>10, <2>1 DEF WriteResult, Drop
<1>11. ASSUME Recover PROVE JobsCounted' /\ AttemptExclusive'
  <2>1. \A u \in Tasks : task'[u].attempt = task[u].attempt
    BY <1>2, <1>11, RecoveredRow DEF Recover
  <2>2. QED
    BY <1>3, <1>11, <2>1 DEF Recover
<1>12. CASE UNCHANGED vars
  BY <1>1, <1>12 DEF vars, JobsCounted, AttemptExclusive
<1>13. QED
  BY <1>1, <1>5, <1>6, <1>7, <1>8, <1>9, <1>10, <1>11, <1>12
  DEF Next, Work, TakeResult

(* Every step keeps the requests past the check of their token apart.       *)
LEMMA TokensStep == Rows /\ TokenSingleUse /\ [Next]_vars => TokenSingleUse'
<1>1. SUFFICES ASSUME Rows, TokenSingleUse, [Next]_vars PROVE TokenSingleUse'
  OBVIOUS
<1>2. TypeOK /\ \A j \in jobs : j \in Job /\ j.token \in Tokens
  BY <1>1 DEF Rows, TypeOK, Job
<1> DEFINE past == {"readTask", "write"}
<1>3. ASSUME \A k \in Tokens : token[k] = "consumed" => token'[k] = "consumed",
             \A j \in jobs' : j.stage \in past => j \in jobs
      PROVE  TokenSingleUse'
  BY <1>1, <1>2, <1>3 DEF TokenSingleUse
<1>4. ASSUME NEW k \in Tokens, Mint(k) PROVE TokenSingleUse'
  BY <1>2, <1>3, <1>4 DEF Mint, TypeOK
<1>5. ASSUME NEW t \in Tasks, NEW k \in Tokens, Claim(t, k) PROVE TokenSingleUse'
  BY <1>3, <1>5 DEF Claim
<1>6. ASSUME NEW j \in jobs, AbandonJob(j) \/ RequestFails(j) \/ WriteResult(j)
      PROVE  TokenSingleUse'
  BY <1>3, <1>6 DEF AbandonJob, RequestFails, WriteResult, Drop
<1>7. ASSUME NEW j \in jobs, Submit(j) PROVE TokenSingleUse'
  <2> DEFINE moved == [j EXCEPT !.stage = "consume"]
  <2>1. moved.stage = "consume"
    BY <1>2, MovedJob DEF Stages
  <2>2. \A i \in jobs' : i \in jobs \/ i = moved
    BY <1>7 DEF Submit, Replace, Drop
  <2>3. QED
    BY <1>3, <1>7, <2>1, <2>2 DEF Submit
<1>8. ASSUME NEW j \in jobs, Consume(j) PROVE TokenSingleUse'
  <2>1. CASE ~(token[j.token] = "unused" /\ j.token \notin expired)
    BY <1>3, <1>8, <2>1 DEF Consume, Drop
  <2>2. CASE token[j.token] = "unused" /\ j.token \notin expired
    <3> DEFINE moved == [j EXCEPT !.stage = "readTask"]
    <3>1. jobs' = (jobs \ {j}) \cup {moved} /\ token' = [token EXCEPT ![j.token] = "consumed"]
      BY <1>8, <2>2 DEF Consume, Replace
    <3>2. moved.token = j.token
      BY <1>2
    <3>3. \A i \in jobs : i.stage \in past => i.token # j.token
      BY <1>1, <2>2 DEF TokenSingleUse
    <3>4. \A i \in jobs' : i.stage \in past => token'[i.token] = "consumed"
      BY <1>1, <1>2, <3>1, <3>2 DEF TokenSingleUse, TypeOK
    <3>5. ASSUME NEW i \in jobs', NEW k \in jobs', i.stage \in past, k.stage \in past,
                 i.token = k.token
          PROVE  i = k
      BY <1>1, <3>1, <3>2, <3>3, <3>5 DEF TokenSingleUse
    <3>6. QED
      BY <3>4, <3>5 DEF TokenSingleUse
  <2>3. QED
    BY <2>1, <2>2
<1>9. ASSUME NEW j \in jobs, ReadTask(j) PROVE TokenSingleUse'
  <2>1. CASE jobs' \subseteq jobs
    BY <1>3, <1>9, <2>1 DEF ReadTask
  <2>2. CASE Replace(j, "write")
    <3> DEFINE moved == [j EXCEPT !.stage = "write"]
    <3>1. moved.token = j.token /\ j.stage \in past /\ token' = token
      BY <1>2, <1>9 DEF ReadTask, Job
    <3>2. \A i \in jobs' : i \in jobs \ {j} \/ i = moved
      BY <2>2 DEF Replace
    <3>3. \A i \in jobs' : i.stage \in past => token'[i.token] = "consumed"
      BY <1>1, <3>1, <3>2 DEF TokenSingleUse
    <3>4. \A i \in jobs \ {j} : i.stage \in past => i.token # moved.token
      BY <1>1, <3>1 DEF TokenSingleUse
    <3>5. ASSUME NEW i \in jobs', NEW k \in jobs', i.stage \in past, k.stage \in past,
                 i.token = k.token
          PROVE  i = k
      BY <1>1, <3>2, <3>4, <3>5 DEF TokenSingleUse
    <3>6. QED
      BY <3>3, <3>5 DEF TokenSingleUse
  <2>3. QED
    BY <1>9, <2>1, <2>2 DEF ReadTask, Drop
<1>10. CASE token' = token /\ jobs' = jobs
  BY <1>3, <1>10
<1>11. QED
  BY <1>1, <1>4, <1>5, <1>6, <1>7, <1>8, <1>9, <1>10
  DEF Next, Work, TakeResult, Enqueue, LeaseExpires, RetryDue, TokenExpires,
      ClaimReplyLost, Recover, vars

LEMMA InvInit == Init => Inv
BY RowsInit DEF Init, Inv, JobsCounted, AttemptExclusive, TokenSingleUse

LEMMA InvStep == Inv /\ [Next]_vars => Inv'
BY RowsStep, AttemptsStep, TokensStep DEF Inv

LEMMA Invariance == Spec => []Inv
BY InvInit, InvStep, PTL DEF Spec

(* However many workers claim, crash, lose replies and submit late, no two  *)
(* of them have the same attempt of a task.                                 *)
THEOREM AttemptsExclusive == Spec => []AttemptExclusive
<1>1. Inv => AttemptExclusive
  BY DEF Inv
<1>2. QED
  BY <1>1, Invariance, PTL

(* And no token lets two requests past its check (consumeWorkerToken).      *)
THEOREM TokensSingleUse == Spec => []TokenSingleUse
<1>1. Inv => TokenSingleUse
  BY DEF Inv
<1>2. QED
  BY <1>1, Invariance, PTL

(* A completed task stays completed: a claim wants it pending, a recovery   *)
(* wants it claimed.                                                        *)
THEOREM CompletionFinal == Spec => CompletedIsFinal
<1>1. Rows /\ [Next]_vars =>
        [\A t \in Tasks : task[t].status = "completed" => task'[t].status = "completed"]_vars
  <2>1. SUFFICES ASSUME Rows, Next, NEW t \in Tasks, task[t].status = "completed"
                 PROVE  task'[t].status = "completed"
    BY DEF vars
  <2>2. \A u \in Tasks : task[u] \in TaskRow
    BY <2>1 DEF Rows, TypeOK
  <2>3. ASSUME NEW u \in Tasks, Enqueue(u) \/ LeaseExpires(u) \/ RetryDue(u)
        PROVE  task'[t].status = "completed"
    BY <2>1, <2>2, <2>3 DEF Rows, TypeOK, Enqueue, LeaseExpires, RetryDue, TaskRow
  <2>4. ASSUME NEW u \in Tasks, NEW k \in Tokens, Claim(u, k) \/ ClaimReplyLost(u, k)
        PROVE  task'[t].status = "completed"
    BY <2>1, <2>2, <2>4 DEF Rows, TypeOK, Claim, ClaimReplyLost, Claimable
  <2>5. ASSUME NEW j \in jobs, WriteResult(j)
        PROVE  task'[t].status = "completed"
    BY <2>1, <2>2, <2>5 DEF Rows, TypeOK, WriteResult, TaskRow
  <2>6. CASE Recover
    BY <2>1, <2>6 DEF Recover, Stale
  <2>7. CASE task' = task
    BY <2>1, <2>7
  <2>8. QED
    BY <2>1, <2>3, <2>4, <2>5, <2>6, <2>7
    DEF Next, Mint, TokenExpires, Work, TakeResult, AbandonJob, Submit, Consume,
        ReadTask, RequestFails
<1>2. Spec => []Rows
  BY RowsInit, RowsStep, PTL DEF Spec
<1>3. QED
  BY <1>1, <1>2, PTL DEF Spec, CompletedIsFinal

-----------------------------------------------------------------------------
LEMMA LifeCases ==
  ASSUME NEW row \in TaskRow
  PROVE  /\ row.status \in {"pending", "claimed"} => LifeOf(row) = "open"
         /\ row.status = "completed" => LifeOf(row) = "done"
         /\ row.status = "dead" => LifeOf(row) = "givenUp"
         /\ row.status = "absent" => LifeOf(row) = "absent"
BY DEF LifeOf

(* A step that keeps the life and the attempts of every task is a stutter.  *)
LEMMA SameLives ==
  ASSUME \A t \in Tasks : /\ LifeOf(task'[t]) = LifeOf(task[t])
                          /\ task'[t].attempt = task[t].attempt
  PROVE  lives' = lives /\ attempts' = attempts
BY DEF lives, attempts

(* A step that changes the life of one task only. *)
LEMMA OneLife ==
  ASSUME NEW u \in Tasks,
         \A t \in Tasks \ {u} : task'[t] = task[t],
         task'[u].attempt = task[u].attempt
  PROVE  /\ lives' = [lives EXCEPT ![u] = LifeOf(task'[u])]
         /\ attempts' = attempts
BY DEF lives, attempts

(* Every step of the queue is a step of TaskLife, or changes nothing there. *)
LEMMA LifeStep == Inv /\ Inv' /\ [Next]_vars => [Life!Next]_<<lives, attempts>>
<1>1. SUFFICES ASSUME Inv, Inv', [Next]_vars PROVE [Life!Next]_<<lives, attempts>>
  OBVIOUS
<1>2. /\ \A t \in Tasks : task[t] \in TaskRow /\ task'[t] \in TaskRow
      /\ task \in [Tasks -> TaskRow]
      /\ \A j \in jobs : j \in Job /\ j.task \in Tasks /\ j.attempt \in 1 .. MaxAttempts
  BY <1>1 DEF Inv, Rows, TypeOK, Job
<1>3. \A t \in Tasks : lives[t] = LifeOf(task[t]) /\ attempts[t] = task[t].attempt
  BY DEF lives, attempts
<1>4. ASSUME NEW t \in Tasks, Enqueue(t) PROVE Life!Next
  <2>1. /\ \A u \in Tasks \ {t} : task'[u] = task[u]
        /\ task'[t].attempt = task[t].attempt
        /\ task[t].status = "absent" /\ task'[t].status = "pending"
    BY <1>2, <1>4 DEF Enqueue, TaskRow
  <2>2. LifeOf(task[t]) = "absent" /\ LifeOf(task'[t]) = "open"
    BY <1>2, <2>1, LifeCases
  <2>3. Life!Offer(t)
    BY <1>3, <2>1, <2>2, OneLife DEF Life!Offer
  <2>4. QED
    BY <2>3 DEF Life!Next
<1>5. ASSUME NEW t \in Tasks, LeaseExpires(t) \/ RetryDue(t)
      PROVE  UNCHANGED <<lives, attempts>>
  <2>1. \A u \in Tasks : task'[u].status = task[u].status /\ task'[u].attempt = task[u].attempt
    BY <1>2, <1>5 DEF LeaseExpires, RetryDue, TaskRow
  <2>2. \A u \in Tasks : LifeOf(task'[u]) = LifeOf(task[u])
    BY <2>1 DEF LifeOf
  <2>3. QED
    BY <2>1, <2>2, SameLives
<1>6. ASSUME NEW t \in Tasks, NEW k \in Tokens, Claim(t, k) \/ ClaimReplyLost(t, k)
      PROVE  Life!Next
  <2>1. task[t].status = "pending" /\ task[t].attempt < MaxAttempts
    BY <1>1, <1>6 DEF Inv, Rows, BoundedRetry, Claim, ClaimReplyLost, Claimable
  <2>2. /\ task'[t].status = "claimed" /\ task'[t].attempt = task[t].attempt + 1
        /\ \A u \in Tasks \ {t} : task'[u] = task[u]
    BY <1>2, <1>6, <2>1, ClaimedRow DEF Claim, ClaimReplyLost
  <2>3. \A u \in Tasks : LifeOf(task'[u]) = LifeOf(task[u])
    BY <1>2, <2>1, <2>2, LifeCases
  <2>4. lives' = lives /\ lives[t] = "open"
    BY <1>2, <1>3, <2>1, <2>3, LifeCases DEF lives
  <2>5. attempts' = [attempts EXCEPT ![t] = @ + 1] /\ attempts[t] < MaxAttempts
    BY <2>1, <2>2 DEF attempts
  <2>6. Life!Try(t)
    BY <2>4, <2>5 DEF Life!Try
  <2>7. QED
    BY <2>6 DEF Life!Next
<1>7. ASSUME NEW j \in jobs, WriteResult(j) PROVE [Life!Next]_<<lives, attempts>>
  <2> DEFINE t == j.task
  <2>1. /\ \A u \in Tasks \ {t} : task'[u] = task[u]
        /\ task'[t].attempt = task[t].attempt
        /\ task'[t].status = "completed"
    BY <1>2, <1>7 DEF WriteResult, TaskRow
  <2>2. t \in Tasks /\ task[t].attempt > 0
    BY <1>1, <1>2, MaxAttemptsAssumption DEF Inv, JobsCounted, TaskRow
  <2>3. task[t].status # "absent"
    BY <1>1, <2>2 DEF Inv, Rows, Untried
  <2>4. LifeOf(task'[t]) = "done"
    BY <1>2, <2>1, <2>2, LifeCases
  <2>5. lives' = [lives EXCEPT ![t] = "done"] /\ attempts' = attempts
    BY <2>1, <2>2, <2>4, OneLife
  <2>6. CASE task[t].status = "completed"
    <3>1. lives[t] = "done"
      BY <1>2, <1>3, <2>2, <2>6, LifeCases
    <3>2. lives' = lives
      BY <2>2, <2>5, <3>1 DEF lives
    <3>3. QED
      BY <2>5, <3>2
  <2>7. CASE task[t].status # "completed"
    <3>1. lives[t] \in {"open", "givenUp"}
      BY <1>2, <1>3, <2>2, <2>3, <2>7, LifeCases DEF TaskRow, Statuses
    <3>2. Life!Finish(t)
      BY <1>3, <2>2, <2>5, <3>1 DEF Life!Finish
    <3>3. QED
      BY <2>2, <3>2 DEF Life!Next
  <2>8. QED
    BY <2>6, <2>7
<1>8. ASSUME Recover PROVE Life!Next
  <2> DEFINE S == {t \in Stale : task'[t].status = "dead"}
  <2>1. \A t \in Tasks : task'[t] = IF t \in Stale THEN Recovered(task[t]) ELSE task[t]
    BY <1>8 DEF Recover
  <2>2. \A t \in Tasks : task'[t].attempt = task[t].attempt
    BY <1>2, <2>1, RecoveredRow
  <2>3. \A t \in Stale : lives[t] = "open"
    BY <1>2, <1>3, LifeCases DEF Stale
  <2>4. \A t \in S : attempts[t] = MaxAttempts
    BY <1>2, <1>3, <2>1, RecoveredRow DEF Stale
  <2>5. \A t \in Tasks : LifeOf(task'[t]) = IF t \in S THEN "givenUp" ELSE lives[t]
    <3>1. ASSUME NEW t \in S PROVE LifeOf(task'[t]) = "givenUp"
      BY <1>2, <3>1, LifeCases DEF Stale
    <3>2. ASSUME NEW t \in Stale \ S PROVE LifeOf(task'[t]) = "open"
      BY <1>2, <2>1, <3>2, RecoveredRow, LifeCases DEF Stale
    <3>3. ASSUME NEW t \in Tasks \ Stale PROVE LifeOf(task'[t]) = lives[t]
      BY <1>3, <2>1, <3>3
    <3>4. QED
      BY <2>3, <3>1, <3>2, <3>3
  <2>6. lives' = [t \in Tasks |-> IF t \in S THEN "givenUp" ELSE lives[t]]
    BY <2>5 DEF lives
  <2>7. attempts' = attempts
    BY <2>2 DEF attempts
  <2>8. S \in SUBSET Tasks /\ Life!GiveUp(S)
    BY <2>3, <2>4, <2>6, <2>7 DEF Life!GiveUp, Stale
  <2>9. QED
    BY <2>8 DEF Life!Next
<1>9. CASE task' = task
  <2>1. lives' = lives /\ attempts' = attempts
    BY <1>9 DEF lives, attempts
  <2>2. QED
    BY <2>1
<1>10. QED
  BY <1>1, <1>4, <1>5, <1>6, <1>7, <1>8, <1>9
  DEF Next, Mint, TokenExpires, Work, TakeResult, AbandonJob, Submit, Consume,
      ReadTask, RequestFails, vars

(* To whoever enqueues it, a task is what TaskLife says: tried a bounded    *)
(* number of times, given up only after the last try, done only after one.  *)
THEOREM QueueImplementsLife == Spec => LivesAsPromised
<1>1. Init => Life!Init
  <2>1. SUFFICES ASSUME Init PROVE Life!Init
    OBVIOUS
  <2>2. \A t \in Tasks : task[t].status = "absent" /\ task[t].attempt = 0
    BY <2>1 DEF Init
  <2>3. \A t \in Tasks : LifeOf(task[t]) = "absent"
    BY <2>2 DEF LifeOf
  <2>4. QED
    BY <2>2, <2>3 DEF Life!Init, lives, attempts
<1>2. QED
  BY <1>1, Invariance, LifeStep, PTL DEF Spec, LivesAsPromised, Life!Spec

(* One worker for each attempt and one request for each token, for any      *)
(* number of workers (claimNextTask, consumeWorkerToken).                   *)
THEOREM ClaimsAreExclusive == Spec => []ClaimsExclusive
BY AttemptsExclusive, TokensSingleUse, PTL DEF ClaimsExclusive

-----------------------------------------------------------------------------
(* Simulations beside the queue: to the tables of the queue a step of       *)
(* MCSpec is one of the queue, or the use of one more token.                *)

UsesToken ==
  \E k \in Tokens : /\ token[k] = "unused"
                    /\ token' = [token EXCEPT ![k] = "consumed"]
                    /\ UNCHANGED <<task, expired, jobs>>

(* The token in a payload is that of the task, linked and answered by then. *)
Embedded ==
  \A t \in Tasks :
    /\ request[t] \in {"mint", "embed", "answered"} => t \in linked
    /\ embedded[t] # None => TaskOf[embedded[t]] = t /\ request[t] = "answered"

(* A claim carries the token of the payload; past its check it has used the *)
(* token up, and no other claim of the task gets there, then or later.      *)
Past == {w \in work : w.stage \in {"read", "write"}}

Carried ==
  /\ \A w \in work : w.token = embedded[w.task]
  /\ \A w \in Past : token[w.token] = "consumed" /\ forecast[w.task] = None
  /\ \A v, w \in Past : v.task = w.task => v = w
  /\ \A t \in Tasks : forecast[t] # None =>
       embedded[t] # None /\ token[embedded[t]] = "consumed"

Polling == \A t \in Tasks : page[t].view = "waiting" => page[t].left > 0

SimInv == SimTypeOK /\ Embedded /\ Carried /\ Polling

TogetherInv == Inv /\ SimInv

LEMMA TogetherStart == MCInit => TogetherInv
<1>1. SUFFICES ASSUME MCInit PROVE TogetherInv
  OBVIOUS
<1>2. SimInv
  <2>1. SimInit
    BY <1>1 DEF MCInit
  <2>2. Polls \in Nat /\ [view |-> "none", left |-> 0] \in Page
    BY PollsAssumption DEF Page
  <2>3. SimTypeOK
    BY <2>1, <2>2 DEF SimInit, SimTypeOK, RequestStages
  <2>4. Embedded /\ Carried /\ Polling
    BY <2>1 DEF SimInit, Embedded, Carried, Past, Polling
  <2>5. QED
    BY <2>3, <2>4 DEF SimInv
<1>3. Inv
  <2>1. CASE setting = "tasks"
    BY <1>1, <2>1, InvInit DEF MCInit
  <2>2. CASE setting # "tasks"
    <3>1. /\ Init!1 /\ Init!3 /\ Init!4
          /\ token = [k \in Tokens |-> IF k = k3 THEN "unused" ELSE "unminted"]
      BY <1>1, <2>2 DEF MCInit
    <3>2. token \in [Tokens -> {"unminted", "unused", "consumed"}]
      BY <3>1
    <3>3. Rows
      BY <3>1, <3>2, MaxAttemptsAssumption, NoTokenAssumption
      DEF Rows, TypeOK, BoundedRetry, Untried, TaskRow, Statuses, Job
    <3>4. QED
      BY <3>1, <3>3 DEF Inv, JobsCounted, AttemptExclusive, TokenSingleUse
  <2>3. QED
    BY <2>1, <2>2
<1>4. QED
  BY <1>2, <1>3 DEF TogetherInv

(* The queue: a token more that is used disturbs no job.                    *)
LEMMA UsesTokenStep == ASSUME Inv, UsesToken PROVE Inv'
<1>1. PICK k \in Tokens : /\ token[k] = "unused" /\ token' = [token EXCEPT ![k] = "consumed"]
                          /\ UNCHANGED <<task, expired, jobs>>
  BY DEF UsesToken
<1>2. token' \in [Tokens -> {"unminted", "unused", "consumed"}]
      /\ \A o \in Tokens : token[o] = "consumed" => token'[o] = "consumed"
  BY <1>1 DEF Inv, Rows, TypeOK
<1>3. Rows'
  BY <1>1, <1>2 DEF Inv, Rows, TypeOK, BoundedRetry, Untried
<1>4. \A j \in jobs : j.token \in Tokens
  BY DEF Inv, Rows, TypeOK, Job
<1>5. TokenSingleUse'
  BY <1>1, <1>2, <1>4 DEF Inv, TokenSingleUse
<1>6. JobsCounted' /\ AttemptExclusive'
  BY <1>1 DEF Inv, JobsCounted, AttemptExclusive
<1>7. QED
  BY <1>3, <1>5, <1>6 DEF Inv

LEMMA SimQueueStep == ASSUME SimNext, SimTypeOK PROVE [Next]_vars \/ UsesToken
<1>1. ASSUME NEW t \in Tasks,
             \/ RequestSimulation(t) \/ EnqueueSimulation(t)
             \/ LinkTask(t) \/ RequestBreaks(t) \/ Poll(t) \/ PollFails(t)
      PROVE  [Next]_vars
  <2>1. CASE EnqueueSimulation(t)
    BY <2>1 DEF EnqueueSimulation, Next
  <2>2. CASE ~EnqueueSimulation(t)
    BY <1>1, <2>2 DEF RequestSimulation, LinkTask, RequestBreaks, Poll, PollFails
  <2>3. QED
    BY <2>1, <2>2
<1>2. ASSUME NEW t \in Tasks, NEW k \in SimTokens, MintSimulationToken(t, k) \/ EmbedToken(t, k)
      PROVE  [Next]_vars
  BY <1>2, SimTokensAssumption DEF MintSimulationToken, EmbedToken, Next
<1>3. ASSUME NEW t \in Tasks, NEW k \in Tokens \ SimTokens, ClaimSimulation(t, k)
      PROVE  [Next]_vars
  BY <1>3 DEF ClaimSimulation, Next
<1>4. ASSUME NEW w \in work, \/ PostForecast(w) \/ ConsumeSimToken(w)
                             \/ ReadSimulation(w) \/ WriteForecast(w) \/ SubmitFails(w)
      PROVE  [Next]_vars \/ UsesToken
  <2>1. CASE ConsumeSimToken(w)
    <3>1. w.token \in Tokens
      BY DEF SimTypeOK, SimWork
    <3>2. QED
      BY <2>1, <3>1 DEF ConsumeSimToken, UsesToken, vars
  <2>2. CASE ~ConsumeSimToken(w)
    BY <1>4, <2>2 DEF PostForecast, ReadSimulation, WriteForecast, SubmitFails
  <2>3. QED
    BY <2>1, <2>2
<1>5. CASE QueueGoesOn
  BY <1>5, SimTokensAssumption DEF QueueGoesOn, Next
<1>6. QED
  BY <1>1, <1>2, <1>3, <1>4, <1>5 DEF SimNext

LEMMA QueueStep == ASSUME TogetherInv, [MCNext]_allAndSetting PROVE [Next]_vars \/ UsesToken
<1>1. CASE MCNext /\ SimNext
  BY <1>1, SimQueueStep DEF TogetherInv, SimInv
<1>2. CASE MCNext /\ ~SimNext
  BY <1>2 DEF MCNext
<1>3. CASE UNCHANGED allAndSetting
  BY <1>3 DEF allAndSetting
<1>4. QED
  BY <1>1, <1>2, <1>3

(* Tokens are used up for good. *)
LEMMA UsedForGood ==
  ASSUME Inv, [Next]_vars \/ UsesToken
  PROVE  \A k \in Tokens : token[k] = "consumed" => token'[k] = "consumed"
<1>1. token \in [Tokens -> {"unminted", "unused", "consumed"}] /\ \A j \in jobs : j.token \in Tokens
  BY DEF Inv, Rows, TypeOK, Job
<1>2. ASSUME NEW k \in Tokens, Mint(k)
      PROVE  \A o \in Tokens : token[o] = "consumed" => token'[o] = "consumed"
  BY <1>1, <1>2 DEF Mint
<1>3. ASSUME NEW j \in jobs, Consume(j)
      PROVE  \A o \in Tokens : token[o] = "consumed" => token'[o] = "consumed"
  BY <1>1, <1>3 DEF Consume
<1>4. CASE UsesToken
  BY <1>1, <1>4 DEF UsesToken
<1>5. CASE token' = token
  BY <1>5
<1>6. QED
  BY <1>2, <1>3, <1>4, <1>5
  DEF Next, vars, Work, TakeResult, Enqueue, LeaseExpires, RetryDue, TokenExpires, Claim,
      ClaimReplyLost, AbandonJob, Submit, ReadTask, WriteResult, RequestFails, Recover

(* A step of the handler of one request, or of a page.                      *)
LEMMA RequestStep ==
  ASSUME SimInv, \A k \in Tokens : token[k] = "consumed" => token'[k] = "consumed",
         NEW t \in Tasks, NEW stage \in RequestStages \ {"answered"}, request[t] # "answered",
         request' = [request EXCEPT ![t] = stage], UNCHANGED <<embedded, forecast, work>>,
         linked' \subseteq Tasks, linked \subseteq linked',
         stage \in {"mint", "embed"} => t \in linked',
         page' \in [Tasks -> Page], Polling'
  PROVE  SimInv'
<1>1. /\ request \in [Tasks -> RequestStages] /\ SimTokens \subseteq Tokens
      /\ embedded \in [Tasks -> SimTokens \cup {None}] /\ \A w \in work : w.token \in Tokens
  BY SimTokensAssumption DEF SimInv, SimTypeOK, SimWork
<1>2. SimTypeOK'
  BY <1>1 DEF SimInv, SimTypeOK
<1>3. Embedded'
  BY <1>1 DEF SimInv, Embedded
<1>4. Carried'
  BY <1>1 DEF SimInv, Carried, Past
<1>5. QED
  BY <1>2, <1>3, <1>4 DEF SimInv

(* A claim goes on, or ends.                                                *)
LEMMA WorkStep ==
  ASSUME SimInv, \A k \in Tokens : token[k] = "consumed" => token'[k] = "consumed",
         NEW w \in work, NEW stage \in {"post", "read", "write"}, Rework(w, stage) \/ Leave(w),
         UNCHANGED <<request, embedded, linked, forecast, page>>,
         Rework(w, stage) /\ stage \in {"read", "write"} =>
           /\ token'[w.token] = "consumed" /\ forecast[w.task] = None
           /\ \A v \in Past : v.task = w.task => v = w
  PROVE  SimInv'
<1> DEFINE moved == [w EXCEPT !.stage = stage]
<1>1. /\ moved \in SimWork /\ moved.token = w.token /\ moved.task = w.task /\ moved.stage = stage
      /\ \A v \in work : v.token \in Tokens /\ v.task \in Tasks
  BY DEF SimInv, SimTypeOK, SimWork, WorkStages
<1>2. (\A v \in work' : v \in work \ {w} \/ (v = moved /\ Rework(w, stage)))
  BY DEF Rework, Leave
<1> HIDE DEF moved
<1>3. SimTypeOK'
  BY <1>1, <1>2 DEF SimInv, SimTypeOK
<1>4. Embedded' /\ Polling'
  BY DEF SimInv, Embedded, Polling
<1>5. \A v \in work' : v.token = embedded'[v.task]
  BY <1>1, <1>2 DEF SimInv, Carried
<1>6. \A v \in Past' : \/ v \in Past \ {w}
                       \/ v = moved /\ Rework(w, stage) /\ stage \in {"read", "write"}
  BY <1>1, <1>2 DEF Past
<1>7. \A v \in Past : v \in work
  BY DEF Past
<1>8. \A v \in Past' : token'[v.token] = "consumed" /\ forecast'[v.task] = None
  BY <1>1, <1>6, <1>7 DEF SimInv, Carried
<1>9. \A u, v \in Past' : u.task = v.task => u = v
  BY <1>1, <1>6 DEF SimInv, Carried
<1>10. \A t \in Tasks : forecast'[t] # None =>
         embedded'[t] # None /\ token'[embedded'[t]] = "consumed"
  BY SimTokensAssumption DEF SimInv, SimTypeOK, Carried
<1>11. QED
  BY <1>3, <1>4, <1>5, <1>8, <1>9, <1>10 DEF SimInv, Carried

LEMMA EmbedStep ==
  ASSUME SimInv, NEW t \in Tasks, NEW k \in SimTokens, EmbedToken(t, k) PROVE SimInv'
<1>1. /\ request \in [Tasks -> RequestStages] /\ embedded \in [Tasks -> SimTokens \cup {None}]
      /\ page \in [Tasks -> Page] /\ UNCHANGED <<token, linked, forecast, work>>
      /\ request[t] = "embed" /\ TaskOf[k] = t
      /\ request' = [request EXCEPT ![t] = "answered"] /\ embedded' = [embedded EXCEPT ![t] = k]
      /\ page' = [page EXCEPT ![t] = [view |-> "waiting", left |-> Polls]]
  BY DEF SimInv, SimTypeOK, EmbedToken, vars
<1>2. embedded[t] = None
  BY <1>1 DEF SimInv, Embedded
<1>3. \A w \in work : w.task # t /\ w.task \in Tasks
  BY <1>2, NoTokenAssumption DEF SimInv, SimTypeOK, SimWork, Carried
<1>4. Polls \in 0 .. Polls /\ Polls > 0
  BY PollsAssumption
<1>5. page' \in [Tasks -> Page] /\ Polling'
  BY <1>1, <1>4 DEF SimInv, Polling, Page
<1>6. SimTypeOK'
  BY <1>1, <1>5 DEF SimInv, SimTypeOK, RequestStages
<1>7. Embedded'
  BY <1>1 DEF SimInv, Embedded
<1>8. \A u \in Tasks : forecast[u] # None => u # t
  BY <1>2 DEF SimInv, Carried
<1>9. Carried'
  BY <1>1, <1>3, <1>8 DEF SimInv, Carried, Past
<1>10. QED
  BY <1>5, <1>6, <1>7, <1>9 DEF SimInv

LEMMA ClaimSimStep ==
  ASSUME Rows, SimInv, NEW t \in Tasks, NEW k \in Tokens, ClaimSimulation(t, k) PROVE SimInv'
<1>1. UNCHANGED <<token, request, embedded, linked, forecast, page>>
  BY DEF ClaimSimulation, ClaimReplyLost
<1>2. CASE work' = work
  BY <1>1, <1>2 DEF SimInv, SimTypeOK, Embedded, Carried, Past, Polling
<1>3. CASE work' # work
  <2> DEFINE new == [task |-> t, attempt |-> task[t].attempt + 1, token |-> embedded[t],
                     stage |-> "forecast"]
  <2>1. embedded[t] # None /\ work' = work \cup {new}
    BY <1>3 DEF ClaimSimulation
  <2>2. task[t].attempt < MaxAttempts /\ task[t].attempt \in Nat
    BY MaxAttemptsAssumption DEF Rows, TypeOK, TaskRow, BoundedRetry, ClaimSimulation, ClaimReplyLost, Claimable
  <2>3. task[t].attempt + 1 \in 1 .. MaxAttempts /\ embedded[t] \in Tokens
    BY <2>1, <2>2, MaxAttemptsAssumption, SimTokensAssumption DEF SimInv, SimTypeOK
  <2>4. /\ new \in SimWork /\ new.stage = "forecast" /\ new.token = embedded[t] /\ new.task = t
    BY <2>3 DEF SimWork, WorkStages
  <2> HIDE DEF new
  <2>5. SimTypeOK'
    BY <1>1, <2>1, <2>4 DEF SimInv, SimTypeOK
  <2>6. Past' = Past
    BY <2>1, <2>4 DEF Past
  <2>7. Carried'
    BY <1>1, <2>1, <2>4, <2>6 DEF SimInv, Carried
  <2>8. QED
    BY <1>1, <2>5, <2>7 DEF SimInv, Embedded, Polling
<1>4. QED
  BY <1>2, <1>3

(* What WriteForecast finds: nothing stored, the run linked and answered.   *)
LEMMA WriteFinds ==
  ASSUME SimInv, NEW w \in work, w.stage = "write"
  PROVE  /\ w.task \in Tasks /\ forecast[w.task] = None
         /\ w.task \in linked /\ request[w.task] = "answered"
<1>1. w.task \in Tasks /\ w.token \in Tokens /\ w \in Past
  BY DEF SimInv, SimTypeOK, SimWork, Past
<1>2. embedded[w.task] # None /\ forecast[w.task] = None
  BY <1>1, NoTokenAssumption DEF SimInv, Carried
<1>3. QED
  BY <1>1, <1>2 DEF SimInv, Embedded

LEMMA WriteForecastStep == ASSUME SimInv, NEW w \in work, WriteForecast(w) PROVE SimInv'
<1>1. /\ w \in Past /\ w \in SimWork /\ w.task \in Tasks /\ w.attempt \in 1 .. MaxAttempts
      /\ w.token \in Tokens /\ forecast \in [Tasks -> (1 .. MaxAttempts) \cup {None}]
      /\ UNCHANGED <<token, request, embedded, linked, page>> /\ work' = work \ {w}
      /\ forecast' = [forecast EXCEPT ![w.task] = w.attempt]
  BY DEF SimInv, SimTypeOK, SimWork, Past, WriteForecast, Leave, vars
<1>2. SimTypeOK'
  BY <1>1 DEF SimInv, SimTypeOK
<1>3. Past' = Past \ {w}
  BY <1>1 DEF Past
<1>4. \A v \in Past' : v \in work /\ v.task \in Tasks /\ v.task # w.task
  BY <1>1, <1>3 DEF SimInv, SimTypeOK, SimWork, Carried, Past
<1>5. embedded[w.task] # None /\ token[embedded[w.task]] = "consumed"
  BY <1>1, NoTokenAssumption DEF SimInv, Carried
<1>6. Carried'
  BY <1>1, <1>3, <1>4, <1>5 DEF SimInv, Carried
<1>7. QED
  BY <1>1, <1>2, <1>6 DEF SimInv, Embedded, Polling

(* The page, or the queue, alone. *)
LEMMA PageStep ==
  ASSUME SimInv, \A k \in Tokens : token[k] = "consumed" => token'[k] = "consumed",
         UNCHANGED <<request, embedded, linked, forecast, work>>,
         page' \in [Tasks -> Page], Polling'
  PROVE  SimInv'
<1>1. SimTypeOK'
  BY DEF SimInv, SimTypeOK
<1>2. Embedded'
  BY DEF SimInv, Embedded
<1>3. \A w \in work : w.token \in Tokens
  BY DEF SimInv, SimTypeOK, SimWork
<1>4. \A t \in Tasks : embedded[t] # None => embedded[t] \in Tokens
  BY SimTokensAssumption DEF SimInv, SimTypeOK
<1>5. Carried'
  BY <1>3, <1>4 DEF SimInv, Carried, Past
<1>6. QED
  BY <1>1, <1>2, <1>5 DEF SimInv

LEMMA ViewStep ==
  ASSUME SimInv, NEW t \in Tasks, NEW view \in {"shown", "unavailable", "error"},
         NEW left \in 0 .. Polls, page' = [page EXCEPT ![t] = [view |-> view, left |-> left]]
  PROVE  page' \in [Tasks -> Page] /\ Polling'
<1>1. [view |-> view, left |-> left] \in Page /\ page \in [Tasks -> Page]
  BY DEF Page, SimInv, SimTypeOK
<1>2. QED
  BY <1>1 DEF SimInv, Polling

LEMMA ErrorStep ==
  ASSUME SimInv, NEW t \in Tasks, page' = [page EXCEPT ![t].view = "error"]
  PROVE  page' \in [Tasks -> Page] /\ Polling'
<1>1. page \in [Tasks -> Page]
  BY DEF SimInv, SimTypeOK
<1>2. QED
  BY <1>1 DEF SimInv, Polling, Page

LEMMA PollStep ==
  ASSUME SimInv, NEW t \in Tasks, Poll(t) PROVE page' \in [Tasks -> Page] /\ Polling'
<1>1. /\ page \in [Tasks -> Page] /\ page[t].view = "waiting" /\ page[t].left \in 0 .. Polls
      /\ page[t].left > 0 /\ Polls \in Nat
  BY PollsAssumption DEF SimInv, SimTypeOK, Page, Polling, Poll
<1>2. CASE forecast[t] # None
  <2>1. page' = [page EXCEPT ![t] = [view |-> "shown", left |-> page[t].left]]
    BY <1>2 DEF Poll
  <2>2. QED
    BY <1>1, <2>1, ViewStep
<1>3. CASE forecast[t] = None /\ page[t].left = 1
  <2>1. page' = [page EXCEPT ![t] = [view |-> "unavailable", left |-> 0]]
    BY <1>3 DEF Poll
  <2>2. 0 \in 0 .. Polls
    BY <1>1
  <2>3. QED
    BY <2>1, <2>2, ViewStep
<1>4. CASE forecast[t] = None /\ page[t].left # 1
  <2> DEFINE next == [view |-> "waiting", left |-> page[t].left - 1]
  <2>1. page' = [page EXCEPT ![t] = next]
    BY <1>4 DEF Poll
  <2>2. page[t].left - 1 \in 0 .. Polls /\ page[t].left - 1 > 0
    BY <1>1, <1>4
  <2>3. next \in Page /\ next.left > 0
    BY <2>2 DEF Page
  <2> HIDE DEF next
  <2>4. QED
    BY <1>1, <2>1, <2>3 DEF SimInv, Polling
<1>5. QED
  BY <1>2, <1>3, <1>4

LEMMA SimStep ==
  ASSUME Inv, SimInv, SimNext, \A k \in Tokens : token[k] = "consumed" => token'[k] = "consumed"
  PROVE  SimInv'
<1>1. /\ request \in [Tasks -> RequestStages] /\ page \in [Tasks -> Page] /\ linked \subseteq Tasks
      /\ Polling /\ Rows
  BY DEF SimInv, SimTypeOK, Inv
<1>2. ASSUME NEW t \in Tasks, RequestSimulation(t) \/ EnqueueSimulation(t) PROVE SimInv'
  <2>1. PICK stage \in {"enqueue", "link"} : request' = [request EXCEPT ![t] = stage]
    BY <1>2 DEF RequestSimulation, EnqueueSimulation
  <2>2. UNCHANGED <<embedded, linked, forecast, work, page>> /\ request[t] # "answered"
    BY <1>2 DEF RequestSimulation, EnqueueSimulation
  <2>3. QED
    BY <1>1, <2>1, <2>2, RequestStep DEF Polling, RequestStages
<1>3. ASSUME NEW t \in Tasks, LinkTask(t) PROVE SimInv'
  <2>1. /\ request[t] = "link" /\ request' = [request EXCEPT ![t] = "mint"]
        /\ linked' = linked \cup {t} /\ UNCHANGED <<embedded, forecast, work, page>>
    BY <1>3 DEF LinkTask
  <2>2. linked' \subseteq Tasks /\ linked \subseteq linked' /\ t \in linked'
    BY <1>1, <2>1
  <2>3. page' \in [Tasks -> Page] /\ Polling' /\ "mint" \in RequestStages
    BY <1>1, <2>1 DEF Polling, RequestStages
  <2>4. QED
    BY <2>1, <2>2, <2>3, RequestStep
<1>4. ASSUME NEW t \in Tasks, RequestBreaks(t) PROVE SimInv'
  <2>1. /\ request[t] # "answered" /\ request' = [request EXCEPT ![t] = "failed"]
        /\ page' = [page EXCEPT ![t].view = "error"]
        /\ UNCHANGED <<linked, embedded, forecast, work>>
    BY <1>4 DEF RequestBreaks
  <2>2. page' \in [Tasks -> Page] /\ Polling' /\ "failed" \in RequestStages
    BY <2>1, ErrorStep DEF RequestStages
  <2>3. QED
    BY <1>1, <2>1, <2>2, RequestStep
<1>5. ASSUME NEW t \in Tasks, Poll(t) \/ PollFails(t) PROVE SimInv'
  <2>1. page' \in [Tasks -> Page] /\ Polling'
    BY <1>5, PollStep, ErrorStep DEF PollFails
  <2>2. QED
    BY <1>5, <2>1, PageStep DEF Poll, PollFails
<1>6. ASSUME NEW t \in Tasks, NEW k \in SimTokens, MintSimulationToken(t, k) PROVE SimInv'
  <2>1. t \in linked
    BY <1>6 DEF MintSimulationToken, SimInv, Embedded
  <2>2. QED
    BY <1>1, <1>6, <2>1, RequestStep DEF MintSimulationToken, Polling, RequestStages
<1>7. ASSUME NEW w \in work, PostForecast(w) \/ SubmitFails(w) PROVE SimInv'
  BY <1>7, WorkStep DEF PostForecast, SubmitFails
<1>8. ASSUME NEW w \in work, ReadSimulation(w) PROVE SimInv'
  <2>1. w \in Past /\ w.token \in Tokens
    BY <1>8 DEF ReadSimulation, Past, SimInv, SimTypeOK, SimWork
  <2>2. token'[w.token] = "consumed" /\ forecast[w.task] = None
        /\ \A v \in Past : v.task = w.task => v = w
    BY <2>1 DEF SimInv, Carried
  <2>3. QED
    BY <1>8, <2>2, WorkStep DEF ReadSimulation
<1>9. ASSUME NEW w \in work, ConsumeSimToken(w) PROVE SimInv'
  <2>1. w.token \in Tokens /\ w.task \in Tasks /\ w.token = embedded[w.task]
    BY DEF SimInv, SimTypeOK, SimWork, Carried
  <2>2. CASE Leave(w)
    BY <1>9, <2>2, WorkStep DEF ConsumeSimToken
  <2>3. CASE token[w.token] = "unused" /\ Rework(w, "read")
            /\ token' = [token EXCEPT ![w.token] = "consumed"]
    <3>1. token'[w.token] = "consumed"
      BY <1>1, <2>1, <2>3 DEF Rows, TypeOK
    <3>2. forecast[w.task] = None
      BY <2>1, <2>3 DEF SimInv, Carried
    <3>3. \A v \in Past : v.task # w.task
      BY <2>1, <2>3 DEF SimInv, Carried, Past
    <3>4. QED
      BY <1>9, <2>3, <3>1, <3>2, <3>3, WorkStep DEF ConsumeSimToken
  <2>4. QED
    BY <1>9, <2>2, <2>3 DEF ConsumeSimToken
<1>10. CASE QueueGoesOn
  BY <1>1, <1>10, PageStep DEF QueueGoesOn, simVars, Polling
<1>11. QED
  BY <1>1, <1>2, <1>3, <1>4, <1>5, <1>6, <1>7, <1>8, <1>9, <1>10, EmbedStep, ClaimSimStep,
     WriteForecastStep DEF SimNext

LEMMA TogetherStep == TogetherInv /\ [MCNext]_allAndSetting => TogetherInv'
<1>1. SUFFICES ASSUME TogetherInv, [MCNext]_allAndSetting PROVE TogetherInv'
  OBVIOUS
<1>2. [Next]_vars \/ UsesToken
  BY <1>1, QueueStep
<1>3. Inv'
  BY <1>1, <1>2, InvStep, UsesTokenStep DEF TogetherInv
<1>4. \A k \in Tokens : token[k] = "consumed" => token'[k] = "consumed"
  BY <1>1, <1>2, UsedForGood DEF TogetherInv
<1>a. Inv /\ SimInv
  BY <1>1 DEF TogetherInv
<1>5. ASSUME SimNext PROVE SimInv'
  BY <1>a, <1>4, <1>5, SimStep
<1>6. ASSUME UNCHANGED simVars PROVE SimInv'
  <2>1. UNCHANGED <<request, embedded, linked, forecast, work>> /\ page' = page
    BY <1>6 DEF simVars
  <2>2. page' \in [Tasks -> Page] /\ Polling'
    BY <1>a, <2>1 DEF SimInv, SimTypeOK, Polling
  <2>3. QED
    BY <1>a, <1>4, <2>1, <2>2, PageStep
<1>7. QED
  BY <1>1, <1>3, <1>5, <1>6 DEF TogetherInv, MCNext, allAndSetting

LEMMA TogetherInvariance == MCSpec => []TogetherInv
BY TogetherStart, TogetherStep, PTL DEF MCSpec

(* The tables, the claims and the pages are typed, whether tasks or         *)
(* simulations are queued: no page polls more often than it may.            *)
THEOREM SimulationsTyped == MCSpec => []MCTypeOK
<1>1. TogetherInv => MCTypeOK
  BY DEF TogetherInv, Inv, Rows, SimInv, MCTypeOK
<1>2. QED
  BY <1>1, TogetherInvariance, PTL

(* A forecast is stored once, of a run that is linked and answered, however *)
(* often its task is recovered and however slow the workers are             *)
(* (handleSubmitSimulationResult, consumeWorkerToken).                      *)
THEOREM ForecastsAreSingle == MCSpec => ForecastOnce
<1>1. TogetherInv /\ [MCNext]_allAndSetting =>
        [\A t \in Tasks : forecast'[t] # forecast[t] =>
           forecast[t] = None /\ t \in linked /\ request[t] = "answered"]_allVars
  <2>1. SUFFICES ASSUME TogetherInv, [MCNext]_allAndSetting, NEW t \in Tasks,
                        forecast'[t] # forecast[t]
                 PROVE  forecast[t] = None /\ t \in linked /\ request[t] = "answered"
    OBVIOUS
  <2>2. PICK w \in work : WriteForecast(w)
    BY <2>1 DEF MCNext, allAndSetting, simVars, SimNext, RequestSimulation, EnqueueSimulation,
       LinkTask, RequestBreaks, Poll, PollFails, MintSimulationToken, EmbedToken, ClaimSimulation,
       PostForecast, ConsumeSimToken, ReadSimulation, SubmitFails, QueueGoesOn
  <2>3. w.task = t /\ w.stage = "write"
    BY <2>1, <2>2 DEF WriteForecast, TogetherInv, SimInv, SimTypeOK
  <2>4. QED
    BY <2>1, <2>3, WriteFinds DEF TogetherInv
<1>2. QED
  BY <1>1, TogetherInvariance, PTL DEF MCSpec, ForecastOnce

(* The simulations leave the promises of the queue as they are: their       *)
(* results never touch a task, only the token.                              *)
THEOREM SimulationsKeepQueue == MCSpec => []ClaimsExclusive /\ LivesAsPromised
<1>1. TogetherInv => ClaimsExclusive
  BY DEF TogetherInv, Inv, ClaimsExclusive
<1>2. TogetherInv /\ TogetherInv' /\ [MCNext]_allAndSetting => [Life!Next]_<<lives, attempts>>
  <2>1. SUFFICES ASSUME TogetherInv, TogetherInv', [MCNext]_allAndSetting
                 PROVE  [Life!Next]_<<lives, attempts>>
    OBVIOUS
  <2>2. CASE [Next]_vars
    BY <2>1, <2>2, LifeStep DEF TogetherInv
  <2>3. CASE UsesToken
    BY <2>3 DEF UsesToken, lives, attempts
  <2>4. QED
    BY <2>1, <2>2, <2>3, QueueStep
<1>3. MCInit => Life!Init
  <2>1. SUFFICES ASSUME MCInit PROVE Life!Init
    OBVIOUS
  <2>2. \A t \in Tasks : task[t].status = "absent" /\ task[t].attempt = 0
    BY <2>1 DEF MCInit, Init
  <2>3. \A t \in Tasks : LifeOf(task[t]) = "absent"
    BY <2>2 DEF LifeOf
  <2>4. QED
    BY <2>2, <2>3 DEF Life!Init, lives, attempts
<1>4. QED
  BY <1>1, <1>2, <1>3, TogetherInvariance, PTL DEF MCSpec, LivesAsPromised, Life!Spec
=============================================================================
