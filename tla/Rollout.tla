-------------------------------- MODULE Rollout --------------------------------
(***************************************************************************)
(* Deployments: scripts/gcp/deploy.ts checks the surroundings, opens a     *)
(* tunnel to the cluster and runs deploy.sh, which migrates the databases, *)
(* rolls out the API server, then the workers one type after the other,    *)
(* then the static files, each behind a gate.  deploy.sh can be run by     *)
(* hand as well.  Several people may deploy at once; a script may be       *)
(* killed, and kubectl may fail, at any step.                              *)
(*                                                                         *)
(* An image is good if its pods become Ready.  A deployment of Kubernetes  *)
(* is the sequence of its revisions, the latest last.                      *)
(***************************************************************************)
EXTENDS Naturals, Sequences

CONSTANTS Deployers,   \* slots for runs of the scripts
          Images, GoodImages,
          FirstImage,  \* what runs at the start
          Types,       \* how many types of worker there are
          MaxDeploys

ASSUME ImagesAssumption == GoodImages \subseteq Images /\ FirstImage \in GoodImages
ASSUME TypesAssumption == Types \in Nat /\ MaxDeploys \in Nat

VARIABLES app,        \* the revisions of commission-app
          workers,    \* those of each type of worker
          serving,    \* the image of the API pods that are Ready
          schema,     \* the images whose migrations have been applied
          passed,     \* history: the images of the server that passed the gate
          port,       \* who holds the local port 6443 of the tunnel
          job,        \* the runs of the scripts
          deploys,    \* runs so far
          overlapped  \* history: whether two ever ran at once

rolloutVars == <<app, workers, serving, schema, passed, port, job, deploys, overlapped>>

Nobody == "nobody"
ASSUME NobodyAssumption == Nobody \notin Deployers

Ended == {"idle", "done", "failed", "killed"}
Steps == {"doctor", "tunnel", "kubeconfig", "liveness", "migrate", "setImage", "status",
          "healthz", "undo", "setWorker", "workerStatus", "undoWorker", "static"}

Job == [pc : Ended \cup Steps, image : Images, via : {"deploy.ts", "deploy.sh"},
        app : Images, workers : [1..Types -> Images],  \* what ran when it began
        types : 0..Types,  \* its WORKER_TYPES: the first of them, by default none
        type : 0..Types,   \* the worker it is at
        alone : BOOLEAN, lost : BOOLEAN, kubeconfig : BOOLEAN]

Current(h) == h[Len(h)]

RolloutTypeOK ==
  /\ Len(app) >= 1 /\ \A i \in DOMAIN app : app[i] \in Images
  /\ \A i, j \in DOMAIN app : app[i] = app[j] => i = j
  /\ DOMAIN workers = 1..Types
  /\ \A w \in 1..Types : Len(workers[w]) >= 1
       /\ \A i \in DOMAIN workers[w] : workers[w][i] \in Images
  /\ serving \in GoodImages /\ schema \subseteq Images /\ passed \subseteq Images
  /\ port \in Deployers \cup {Nobody} /\ job \in [Deployers -> Job]
  /\ deploys \in 0..MaxDeploys /\ overlapped \in BOOLEAN

NoJob == [pc |-> "idle", image |-> FirstImage, via |-> "deploy.sh", app |-> FirstImage,
          workers |-> [w \in 1..Types |-> FirstImage], types |-> 0, type |-> 0,
          alone |-> TRUE, lost |-> FALSE, kubeconfig |-> FALSE]

RolloutInit ==
  /\ app = <<FirstImage>> /\ workers = [w \in 1..Types |-> <<FirstImage>>]
  /\ serving = FirstImage /\ schema = {FirstImage} /\ passed = {FirstImage}
  /\ port = Nobody /\ job = [d \in Deployers |-> NoJob]
  /\ deploys = 0 /\ overlapped = FALSE

-----------------------------------------------------------------------------
(* Kubernetes. *)

(* An image that a revision has already becomes the latest revision again.  *)
SetImage(h, image) ==
  IF \E i \in DOMAIN h : h[i] = image
    THEN LET i == CHOOSE i \in DOMAIN h : h[i] = image
         IN  Append(SubSeq(h, 1, i - 1) \o SubSeq(h, i + 1, Len(h)), image)
    ELSE Append(h, image)

(* rollout undo: the revision before the latest one becomes the latest.     *)
CanUndo(h) == Len(h) > 1
Undone(h) == SubSeq(h, 1, Len(h) - 2) \o <<h[Len(h)], h[Len(h) - 1]>>

PodsReady ==
  /\ serving # Current(app) /\ Current(app) \in GoodImages
  /\ serving' = Current(app)
  /\ UNCHANGED <<app, workers, schema, passed, port, job, deploys, overlapped>>

-----------------------------------------------------------------------------
(* Steps of a run. *)

Doing(d, pc) == job[d].pc = pc
Deploying(d) == job[d].pc \notin Ended
Go(d, pc) == job' = [job EXCEPT ![d].pc = pc]

(* The finally blocks: the kubeconfig is removed and the tunnel killed.  Of *)
(* a run that has ended only how it ended is kept.                          *)
Leave(d, pc, lost) ==
  /\ job' = [job EXCEPT ![d] = [NoJob EXCEPT !.pc = pc, !.lost = lost]]
  /\ port' = IF port = d THEN Nobody ELSE port

Cluster == <<app, workers, serving, schema, passed>>
Rest == <<deploys, overlapped>>

Start(d, image, via, types) ==
  /\ ~Deploying(d) /\ port # d /\ deploys < MaxDeploys
  /\ LET alone == \A e \in Deployers : ~Deploying(e)
     IN  /\ job' = [e \in Deployers |->
              IF e # d THEN [job[e] EXCEPT !.alone = @ /\ ~Deploying(e)]
              ELSE [NoJob EXCEPT !.pc = IF via = "deploy.ts" THEN "doctor" ELSE "migrate",
                                 !.image = image, !.via = via, !.types = types,
                                 !.app = Current(app),
                                 !.workers = [w \in 1..Types |-> Current(workers[w])],
                                 !.alone = alone]]
         /\ overlapped' = (overlapped \/ ~alone)
  /\ deploys' = deploys + 1
  /\ UNCHANGED <<Cluster, port>>

(* runDoctor, the state of the VM and of AlloyDB, the way to the database.  *)
RunDoctor(d) ==
  /\ Doing(d, "doctor")
  /\ \/ Go(d, "tunnel") /\ UNCHANGED port
     \/ Leave(d, "failed", FALSE)
  /\ UNCHANGED <<Cluster, Rest>>

(* ssh exits when the port is taken, but waitForTcpPort is content with     *)
(* whoever listens there.                                                   *)
StartTunnel(d) ==
  /\ Doing(d, "tunnel")
  /\ port' = IF port = Nobody THEN d ELSE port
  /\ Go(d, "kubeconfig")
  /\ UNCHANGED <<Cluster, Rest>>

BuildKubeconfig(d) ==
  /\ Doing(d, "kubeconfig")
  /\ \/ job' = [job EXCEPT ![d].pc = "liveness", ![d].kubeconfig = TRUE] /\ UNCHANGED port
     \/ Leave(d, "failed", FALSE)
  /\ UNCHANGED <<Cluster, Rest>>

(* kubectl goes through the tunnel, whoever holds it.                       *)
Reaches(d) == job[d].via = "deploy.sh" \/ port # Nobody

(* The deployment must have settled before it is touched, unless a signal   *)
(* ended kubectl: runCommand takes that for success.  --check-only ends     *)
(* here.                                                                    *)
RunLivenessChecks(d) ==
  /\ Doing(d, "liveness")
  /\ \/ \E signalled \in BOOLEAN :
          /\ signalled \/ (Reaches(d) /\ serving = Current(app))
          /\ (Go(d, "migrate") /\ UNCHANGED port) \/ Leave(d, "done", FALSE)
     \/ Leave(d, "failed", FALSE)
  /\ UNCHANGED <<Cluster, Rest>>

(* The Job that fails, or is not done in time, is deleted, whatever of the  *)
(* migrations it has made.                                                  *)
RunMigrationJob(d) ==
  /\ Doing(d, "migrate")
  /\ \/ Reaches(d) /\ schema' = schema \cup {job[d].image} /\ Go(d, "setImage") /\ UNCHANGED port
     \/ schema' \in {schema, schema \cup {job[d].image}} /\ Leave(d, "failed", FALSE)
  /\ UNCHANGED <<app, workers, serving, passed, Rest>>

RollServer(d) ==
  /\ Doing(d, "setImage") /\ Reaches(d)
  /\ app' = SetImage(app, job[d].image) /\ Go(d, "status")
  /\ UNCHANGED <<workers, serving, schema, passed, port, Rest>>

RolloutStatusUnsettled(d) ==
  /\ Doing(d, "status")
  /\ Go(d, "healthz") \/ Go(d, "undo")
  /\ UNCHANGED <<Cluster, port, Rest>>

(* kubectl rollout status: the deployment as it is now, or a timeout.       *)
RolloutStatus(d) ==
  /\ Doing(d, "status")
  /\ \/ Reaches(d) /\ serving = Current(app) /\ Go(d, "healthz")
     \/ Go(d, "undo")
  /\ UNCHANGED <<Cluster, port, Rest>>

(* deploy.ts passes the URL with its /healthz, and deploy.sh appends        *)
(* another: there is no answer that passes then.                            *)
HealthzUrlRight(d) == job[d].via = "deploy.sh"

NextWorker(d) ==
  job' = IF job[d].type = job[d].types
           THEN [job EXCEPT ![d].pc = "static"]
           ELSE [job EXCEPT ![d].type = @ + 1, ![d].pc = "setWorker"]

WaitForHealthz(d) ==
  /\ Doing(d, "healthz")
  /\ \/ HealthzUrlRight(d) /\ passed' = passed \cup {serving} /\ NextWorker(d)
     \/ Go(d, "undo") /\ UNCHANGED passed
  /\ UNCHANGED <<app, workers, serving, schema, port, Rest>>

DieWithoutUndo(d) ==
  /\ Doing(d, "undo") /\ Leave(d, "failed", FALSE)
  /\ UNCHANGED <<Cluster, Rest>>

Undo(d) ==
  /\ Doing(d, "undo") /\ Reaches(d) /\ CanUndo(app)
  /\ app' = Undone(app) /\ Leave(d, "failed", FALSE)
  /\ UNCHANGED <<workers, serving, schema, passed, Rest>>

RollWorker(d) ==
  /\ Doing(d, "setWorker") /\ Reaches(d)
  /\ workers' = [workers EXCEPT ![job[d].type] = SetImage(@, job[d].image)]
  /\ Go(d, "workerStatus")
  /\ UNCHANGED <<app, serving, schema, passed, port, Rest>>

(* rollout status, and wait_for_pod_ready, which asks the same once more.   *)
WorkerStatus(d) ==
  /\ Doing(d, "workerStatus")
  /\ \/ Reaches(d) /\ Current(workers[job[d].type]) \in GoodImages /\ NextWorker(d)
     \/ Go(d, "undoWorker")
  /\ UNCHANGED <<Cluster, port, Rest>>

UndoWorker(d) ==
  /\ Doing(d, "undoWorker") /\ Reaches(d) /\ CanUndo(workers[job[d].type])
  /\ workers' = [workers EXCEPT ![job[d].type] = Undone(@)]
  /\ Leave(d, "failed", FALSE)
  /\ UNCHANGED <<app, serving, schema, passed, Rest>>

SyncStatic(d) ==
  /\ Doing(d, "static")
  /\ Leave(d, "done", FALSE) \/ Leave(d, "failed", FALSE)
  /\ UNCHANGED <<Cluster, Rest>>

(* set -e: a kubectl command outside of a condition ends the script where   *)
(* it is, the undo included.                                                *)
KubectlFails(d) ==
  /\ job[d].pc \in {"setImage", "undo", "setWorker", "undoWorker"}
  /\ Leave(d, "failed", TRUE)
  /\ UNCHANGED <<Cluster, Rest>>

(* deploy.ts takes a deploy.sh that a signal ended for a success as well.   *)
ScriptKilled(d) ==
  /\ Deploying(d) /\ job[d].via = "deploy.ts"
  /\ job[d].pc \notin {"doctor", "tunnel", "kubeconfig", "liveness"}
  /\ Leave(d, "done", FALSE)
  /\ UNCHANGED <<Cluster, Rest>>

(* No finally block runs, and the tunnel stays open.                        *)
Killed(d) ==
  /\ Deploying(d)
  /\ job' = [job EXCEPT ![d] = [NoJob EXCEPT !.pc = "killed", !.kubeconfig = job[d].kubeconfig]]
  /\ UNCHANGED <<Cluster, port, Rest>>

RolloutNext ==
  \/ PodsReady
  \/ \E d \in Deployers :
       \/ \E image \in Images, via \in {"deploy.ts", "deploy.sh"}, types \in 0..Types :
            Start(d, image, via, types)
       \/ RunDoctor(d) \/ StartTunnel(d) \/ BuildKubeconfig(d) \/ RunLivenessChecks(d)
       \/ RunMigrationJob(d) \/ RollServer(d) \/ RolloutStatus(d) \/ WaitForHealthz(d)
       \/ Undo(d) \/ RollWorker(d) \/ WorkerStatus(d) \/ UndoWorker(d)
       \/ SyncStatic(d) \/ KubectlFails(d) \/ ScriptKilled(d) \/ Killed(d)

RolloutSpec == RolloutInit /\ [][RolloutNext]_rolloutVars

-----------------------------------------------------------------------------
(* However deployments fail, are killed, are undone and overlap, the server *)
(* is never given an image whose migrations have not been applied.          *)
MigratedFirst == Current(app) \in schema /\ \A w \in 1..Types : Current(workers[w]) \in schema

(* Workers only get an image that has served healthily, as long as nobody   *)
(* deploys at the same time.                                                *)
WorkersFollowServer ==
  ~overlapped => \A w \in 1..Types : Current(workers[w]) \in passed

(* What of the cluster has passed its gate in this run. *)
ServerPassed(d) == job[d].pc \in {"setWorker", "workerStatus", "undoWorker", "static"}
WorkersPassed(d) ==
  {w \in 1..Types : IF Doing(d, "static") THEN w <= job[d].types ELSE w < job[d].type}

(* A script that gives up by itself leaves the system at a boundary: what   *)
(* has passed its gate runs the new image, and all else, the workers it was *)
(* not asked for too, runs what it ran before, unless that was the same     *)
(* image, somebody else deployed meanwhile, or kubectl failed.              *)
FailureAtBoundary ==
  [][\A d \in Deployers :
       /\ Deploying(d) /\ job'[d].pc = "failed"
       /\ job[d].alone /\ ~job'[d].lost
       /\ job[d].image # job[d].app
       /\ \A w \in 1..job[d].types : job[d].image # job[d].workers[w]
       => /\ Current(app') = IF ServerPassed(d) THEN job[d].image ELSE job[d].app
          /\ \A w \in 1..Types :
               Current(workers'[w]) =
                 IF w \in WorkersPassed(d) THEN job[d].image ELSE job[d].workers[w]]_rolloutVars

(* A run that has ended, well or not, has left neither its kubeconfig, with *)
(* the token in it, nor its tunnel behind.                                  *)
CleansUp ==
  \A d \in Deployers : job[d].pc \in {"done", "failed"} => ~job[d].kubeconfig /\ port # d

(* Migrations before the server, the server before the workers, and nothing *)
(* left behind.                                                             *)
RolloutSound == MigratedFirst /\ WorkersFollowServer /\ CleansUp

(* Does not hold: re-running a deployment has side effects (rule-deploy.md  *)
(* says it has none): a gate that fails takes back the image that ran       *)
(* before, to the revision before that one.                                 *)
RerunHarmless ==
  [][\A d \in Deployers :
       Deploying(d) /\ ~Deploying(d)' /\ job[d].alone /\ job[d].image = job[d].app
         => Current(app') = job[d].app]_rolloutVars

(* Does not hold: a run that is done, alone and not for its checks only,    *)
(* has brought its image to the server: deploy.ts reports success when its  *)
(* deploy.sh was killed.                                                    *)
DoneIsDeployed ==
  [][\A d \in Deployers :
       /\ Deploying(d) /\ job'[d].pc = "done" /\ job[d].alone /\ ~Doing(d, "liveness")
       => Current(app') = job[d].image]_rolloutVars

(* Holds, and should not: a deployment by deploy.ts never gets past the     *)
(* gate of the server, whose address deploy.sh completes once more.         *)
DeployTsNeverPasses ==
  \A d \in Deployers : Doing(d, "setWorker") \/ Doing(d, "static") => job[d].via # "deploy.ts"
=============================================================================
