---------------------------- MODULE MCSimulations ----------------------------
(* The queue on a small instance, in one of two settings: tasks and tokens *)
(* of any agent, or the simulations.                                       *)
EXTENDS Simulations, TLC

CONSTANTS t1, t2, k1, k3

VARIABLE setting

allAndSetting == <<vars, simVars, setting>>

MCTaskOf == [k \in Tokens |-> IF k = k3 THEN t2 ELSE t1]

(* In the setting of the simulations k3 is the token of the workers. *)
MCInit == /\ SimInit
          /\ \/ setting = "tasks" /\ Init
             \/ /\ setting = "simulations"
                /\ Init!1 /\ Init!3 /\ Init!4
                /\ token = [k \in Tokens |-> IF k = k3 THEN "unused" ELSE "unminted"]

MCNext == /\ UNCHANGED setting
          /\ \/ setting = "tasks" /\ Next /\ UNCHANGED simVars
             \/ setting = "simulations" /\ SimNext

MCSpec == MCInit /\ [][MCNext]_allAndSetting /\ PagesPoll

MCTypeOK == TypeOK /\ SimTypeOK
=============================================================================
