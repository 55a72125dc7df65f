--------------------------------- MODULE WebApp ---------------------------------
(***************************************************************************)
(* The browser's side of the program and the door it enters by: the rate   *)
(* limiter, the sessions, the probe of the session, the login page, the    *)
(* shell with its pages, the run review page, the pages that show a        *)
(* selection, and the scripts that bring the program to the cluster.  They *)
(* share no state, so a behaviour is about one of them.                    *)
(***************************************************************************)
EXTENDS Sessions, RateLimiter, ReviewScreen, SignIn, AppShell, SelectionPages, Rollout

VARIABLE part   \* what this behaviour is about

vars == <<sessionVars, limiterVars, screenVars, probeVars, signInVars, shellVars,
          selectVars, rolloutVars, part>>

Init ==
  /\ part \in {"sessions", "limiter", "screen", "probe", "signIn", "shell", "selection",
                "rollout"}
  /\ \E scene \in SessionScenes :
       /\ SessionsInit(scene)
       /\ part # "sessions" => scene = CHOOSE other \in SessionScenes : TRUE
  /\ LimiterInit
  /\ ScreenInit /\ (part # "screen" => server.gap = FALSE)
  /\ ProbeInit /\ (part # "probe" => cookie = "nobody")
  /\ SignInInit
  /\ ShellInit /\ (part # "shell" => path = LOGIN /\ ~csrf)
  /\ IF part = "selection" THEN SelectInit ELSE SelectBegin
  /\ RolloutInit

Next ==
  /\ UNCHANGED part
  /\ \/ /\ part = "sessions"
        /\ SessionsNext
        /\ UNCHANGED <<limiterVars, screenVars, probeVars, signInVars, shellVars,
                       selectVars, rolloutVars>>
     \/ /\ part = "limiter"
        /\ LimiterNext
        /\ UNCHANGED <<sessionVars, screenVars, probeVars, signInVars, shellVars,
                       selectVars, rolloutVars>>
     \/ /\ part = "screen"
        /\ ScreenNext
        /\ UNCHANGED <<sessionVars, limiterVars, probeVars, signInVars, shellVars,
                       selectVars, rolloutVars>>
     \/ /\ part = "probe"
        /\ ProbeNext
        /\ UNCHANGED <<sessionVars, limiterVars, screenVars, signInVars, shellVars,
                       selectVars, rolloutVars>>
     \/ /\ part = "signIn"
        /\ SignInNext
        /\ UNCHANGED <<sessionVars, limiterVars, screenVars, probeVars, shellVars,
                       selectVars, rolloutVars>>
     \/ /\ part = "shell"
        /\ ShellNext
        /\ UNCHANGED <<sessionVars, limiterVars, screenVars, probeVars, signInVars,
                       selectVars, rolloutVars>>
     \/ /\ part = "selection"
        /\ SelectNext
        /\ UNCHANGED <<sessionVars, limiterVars, screenVars, probeVars, signInVars,
                       shellVars, rolloutVars>>
     \/ /\ part = "rollout"
        /\ RolloutNext
        /\ UNCHANGED <<sessionVars, limiterVars, screenVars, probeVars, signInVars,
                       shellVars, selectVars>>

Spec == Init /\ [][Next]_vars /\ ScreenFair

-----------------------------------------------------------------------------
(* The types of the parts. *)
TypeOK == SessionsTypeOK /\ LimiterTypeOK /\ ScreenTypeOK /\ ProbeTypeOK
            /\ SignInTypeOK /\ ShellTypeOK /\ SelectTypeOK /\ RolloutTypeOK

(* The screens tell what is so, in whatever order answers arrive: of the    *)
(* run under review, of the session, of a sign-in, and of what is selected; *)
(* and the trends, which are asked for month by month, are put together     *)
(* again whole.                                                             *)
ScreensTell == /\ ScreenTellsApproved /\ ViewMatchesCookie /\ ButtonsTell
               /\ ShownIsSelected /\ TrendsCoverRange
=============================================================================
