------------------------------- MODULE TaskLife --------------------------------
(***************************************************************************)
(* What whoever enqueues a task may rely on, without workers, leases or    *)
(* tokens: a task is tried at most MaxAttempts times, it is given up only  *)
(* after the last try, it is done only after a try, and done is for ever.  *)
(* A task that was given up may still turn out to be done.                 *)
(***************************************************************************)
EXTENDS Integers

CONSTANTS Tasks, MaxAttempts

VARIABLES life, tries

Init == /\ life = [t \in Tasks |-> "absent"]
        /\ tries = [t \in Tasks |-> 0]

Offer(t) == /\ life[t] = "absent"
            /\ life' = [life EXCEPT ![t] = "open"]
            /\ UNCHANGED tries

Try(t) == /\ life[t] = "open" /\ tries[t] < MaxAttempts
          /\ tries' = [tries EXCEPT ![t] = @ + 1]
          /\ UNCHANGED life

Finish(t) == /\ life[t] \in {"open", "givenUp"} /\ tries[t] > 0
             /\ life' = [life EXCEPT ![t] = "done"]
             /\ UNCHANGED tries

GiveUp(S) == /\ \A t \in S : life[t] = "open" /\ tries[t] = MaxAttempts
             /\ life' = [t \in Tasks |-> IF t \in S THEN "givenUp" ELSE life[t]]
             /\ UNCHANGED tries

Next == \/ \E t \in Tasks : Offer(t) \/ Try(t) \/ Finish(t)
        \/ \E S \in SUBSET Tasks : GiveUp(S)

Spec == Init /\ [][Next]_<<life, tries>>
=============================================================================
