--------------------------------- MODULE SignIn ---------------------------------
(***************************************************************************)
(* Who the browser believes to be signed in, and how it gets there.        *)
(*                                                                         *)
(* The probe (apps/web/src/lib/useSession.ts, App.tsx): GET /me at the     *)
(* start and after each sign-in, switch and logout.  The effect of the     *)
(* newest refresh alone may set the state.                                 *)
(*                                                                         *)
(* The login page (components/Login.tsx) and its two passkey buttons       *)
(* (PasskeyButton.tsx).  A click starts a handler that goes on when its    *)
(* tab, or the whole page, is left: it then sets no state, but it may      *)
(* still sign in.                                                          *)
(***************************************************************************)
EXTENDS Naturals

CONSTANTS Personas,    \* users who may sign in here
          Probes,      \* slots for the calls of GET /me
          MaxChanges,  \* bound of the sign-ins and logouts under way
          Attempts     \* slots for the handlers of the login page under way

ASSUME ProbeAssumption == Probes # {} /\ MaxChanges \in Nat

VARIABLES cookie,   \* whose session cookie the browser has, or "nobody"
          view,     \* the state of useSession
          probe,    \* the probes, each with the cookie it carries and the active
                    \* flag of its effect
          changes   \* how many sign-ins, switches and logouts are not answered yet

probeVars == <<cookie, view, probe, changes>>

View == [session : Personas \cup {"nobody"}, loading : BOOLEAN,
         error : BOOLEAN, unauthenticated : BOOLEAN]

Probe == [pc : {"idle", "sent", "answered"}, active : BOOLEAN,
          as : Personas \cup {"nobody"}, reply : Personas \cup {"nobody", "failed"}]

ProbeTypeOK ==
  /\ cookie \in Personas \cup {"nobody"}
  /\ view \in View
  /\ probe \in [Probes -> Probe]
  /\ view.loading => \E p \in Probes : probe[p].active
  /\ changes \in 0..MaxChanges

NoProbe == [pc |-> "idle", active |-> FALSE, as |-> "nobody", reply |-> "nobody"]

ProbeInit ==
  /\ cookie \in Personas \cup {"nobody"}
  /\ view = [session |-> "nobody", loading |-> TRUE, error |-> FALSE,
             unauthenticated |-> FALSE]
  /\ probe = [q \in Probes |->
                IF q = CHOOSE p \in Probes : TRUE
                  THEN [NoProbe EXCEPT !.pc = "sent", !.active = TRUE, !.as = cookie]
                  ELSE NoProbe]
  /\ changes = 0

(* The clean-up of the previous effect, then the new one. *)
Refresh(p) ==
  /\ probe[p].pc = "idle"
  /\ probe' = [q \in Probes |->
                 IF q = p THEN [NoProbe EXCEPT !.pc = "sent", !.active = TRUE, !.as = cookie']
                          ELSE [probe[q] EXCEPT !.active = FALSE]]
  /\ view' = [view EXCEPT !.loading = TRUE, !.error = FALSE, !.unauthenticated = FALSE]

ShowsLogin == ~view.loading /\ (view.unauthenticated \/ view.session = "nobody")

(* Login, the account switch of the demo header, and logout.  Each button   *)
(* of the login page is disabled by its own call alone, logout by none.     *)
ClickSession ==
  /\ ~view.loading
  /\ changes < MaxChanges
  /\ changes' = changes + 1
  /\ UNCHANGED <<cookie, view, probe>>

(* The answer sets or clears the cookie, and its callback refreshes.        *)
ChangeSession(p, u) ==
  /\ changes > 0
  /\ changes' = changes - 1
  /\ cookie' = u
  /\ Refresh(p)

AnswerProbe(p) ==
  /\ probe[p].pc = "sent"
  /\ \E reply \in {probe[p].as, "failed"} :
       probe' = [probe EXCEPT ![p].pc = "answered", ![p].reply = reply]
  /\ UNCHANGED <<cookie, view, changes>>

HandleProbe(p) ==
  /\ probe[p].pc = "answered"
  /\ probe' = [probe EXCEPT ![p] = NoProbe]
  /\ view' = IF ~probe[p].active THEN view
             ELSE CASE probe[p].reply = "failed" ->
                         [view EXCEPT !.loading = FALSE, !.error = TRUE]
                    [] probe[p].reply = "nobody" ->
                         [view EXCEPT !.loading = FALSE, !.unauthenticated = TRUE]
                    [] OTHER ->
                         [view EXCEPT !.loading = FALSE, !.session = probe[p].reply]
  /\ UNCHANGED <<cookie, changes>>

ProbeNext == \/ ClickSession
             \/ \E p \in Probes : \/ \E u \in Personas \cup {"nobody"} : ChangeSession(p, u)
                                  \/ AnswerProbe(p) \/ HandleProbe(p)

-----------------------------------------------------------------------------
(* Once nothing is loading, the browser shows the user whose cookie it has, *)
(* or the login page, even when the probes of two sign-ins are answered in  *)
(* the wrong order (the active flag of useSession).                         *)
ViewMatchesCookie ==
  ~view.loading /\ ~view.error =>
    IF cookie = "nobody" THEN ShowsLogin ELSE ~ShowsLogin /\ view.session = cookie

-----------------------------------------------------------------------------
(* The login page: its state and the handlers it has started *)

VARIABLES login,      \* the state of the page
          attempt     \* the handlers

signInVars == <<login, attempt>>

Tabs == {"register", "signin"}

(* busy: loading of the button of the tab; demoBusy: demoLoading.           *)
Login == [shown : BOOLEAN, tab : Tabs, error : BOOLEAN, busy : BOOLEAN,
          personas : BOOLEAN, demoBusy : BOOLEAN]

(* here: the tab it was started in is still open; onPage: so is the page.   *)
Attempt == [pc : {"idle", "begin", "ceremony", "complete", "demo"},
            here : BOOLEAN, onPage : BOOLEAN]

SignInTypeOK == login \in Login /\ attempt \in [Attempts -> Attempt]

NoAttempt == [pc |-> "idle", here |-> FALSE, onPage |-> FALSE]

FreshPage == [shown |-> TRUE, tab |-> "signin", error |-> FALSE, busy |-> FALSE,
              personas |-> FALSE, demoBusy |-> FALSE]

SignInInit == /\ login = FreshPage
              /\ attempt = [a \in Attempts |-> NoAttempt]

InPasskey(a) == attempt[a].pc \in {"begin", "ceremony", "complete"}

(* The page *)

(* GET /api/demo/users has answered with a list; an empty one hides it.     *)
DemoUsers == /\ login.shown
             /\ login' = [login EXCEPT !.personas = TRUE]
             /\ UNCHANGED attempt

(* The button of the other tab is mounted anew, and is enabled.             *)
SelectLoginTab(t) ==
  /\ login.shown
  /\ login' = [login EXCEPT !.tab = t, !.error = FALSE,
                            !.busy = @ /\ t = login.tab]
  /\ attempt' = [a \in Attempts |-> [attempt[a] EXCEPT !.here = @ /\ t = login.tab]]

(* App shows the page again: the probe found no session, or failed.         *)
ShowLoginPage == /\ ~login.shown
                 /\ login' = FreshPage
                 /\ UNCHANGED attempt

StartAttempt(a, pc) ==
  /\ login.shown /\ attempt[a].pc = "idle"
  /\ attempt' = [attempt EXCEPT ![a] = [pc |-> pc, here |-> TRUE, onPage |-> TRUE]]

(* handleRegister wants a name first. *)
NameMissing == /\ login.shown /\ login.tab = "register" /\ ~login.busy
               /\ login' = [login EXCEPT !.error = TRUE]
               /\ UNCHANGED attempt

ClickPasskey(a) == /\ ~login.busy
                   /\ StartAttempt(a, "begin")
                   /\ login' = [login EXCEPT !.busy = TRUE]

handleDemo(a) == /\ StartAttempt(a, "demo")
                 /\ login' = [login EXCEPT !.error = FALSE, !.demoBusy = TRUE]

ClickPersona(a) == /\ login.personas /\ ~login.demoBusy
                   /\ handleDemo(a)

(* The Create button is disabled meanwhile; the Enter key is not.           *)
EnterName(a) == /\ login.personas /\ login.tab = "register"
                /\ handleDemo(a)

(* The handlers *)

(* The options came; the browser has a credential.                          *)
GoOnPasskey(a) ==
  /\ attempt[a].pc \in {"begin", "ceremony"}
  /\ attempt' = [attempt EXCEPT ![a].pc = IF @ = "begin" THEN "ceremony" ELSE "complete"]
  /\ UNCHANGED login

(* finally: what is still mounted is enabled. *)
Enabled(a, page) ==
  IF attempt[a].pc = "demo"
    THEN [page EXCEPT !.demoBusy = @ /\ ~attempt[a].onPage]
    ELSE [page EXCEPT !.busy = @ /\ ~attempt[a].here]

(* Refused, cancelled, or unreachable, at any of its steps.                 *)
AttemptFails(a) ==
  /\ attempt[a].pc # "idle"
  /\ login' = Enabled(a, [login EXCEPT !.error = @ \/ attempt[a].onPage])
  /\ attempt' = [attempt EXCEPT ![a] = NoAttempt]

(* onSuccess refreshes the session, and App shows its skeleton meanwhile.   *)
handleSuccess(a) ==
  /\ attempt[a].pc \in {"complete", "demo"}
  /\ login' = [FreshPage EXCEPT !.shown = FALSE]
  /\ attempt' = [b \in Attempts |-> IF b = a THEN NoAttempt
                   ELSE [attempt[b] EXCEPT !.here = FALSE, !.onPage = FALSE]]

SignInNext ==
  \/ DemoUsers \/ ShowLoginPage \/ NameMissing
  \/ \E t \in Tabs : SelectLoginTab(t)
  \/ \E a \in Attempts :
       \/ ClickPasskey(a) \/ ClickPersona(a) \/ EnterName(a)
       \/ GoOnPasskey(a) \/ AttemptFails(a) \/ handleSuccess(a)

SignInSpec == SignInInit /\ [][SignInNext]_signInVars

-----------------------------------------------------------------------------
(* The passkey button is disabled exactly while a ceremony it started is    *)
(* under way, and has one at a time; a disabled persona waits for a call.   *)
(* Neither hangs, whichever tab is opened and whatever fails                *)
(* (handleRegister, handleLogin, handleDemoSignIn).                         *)
ButtonsTell ==
  /\ login.busy <=> \E a \in Attempts : InPasskey(a) /\ attempt[a].here
  /\ \A a, b \in Attempts :
       InPasskey(a) /\ InPasskey(b) /\ attempt[a].here /\ attempt[b].here => a = b
  /\ login.demoBusy => \E a \in Attempts : attempt[a].pc = "demo" /\ attempt[a].onPage

(* What does not hold: Enter starts a second call, and the first answer     *)
(* enables the personas; and a ceremony whose tab was left may still sign   *)
(* in.                                                                      *)
OneDemoCall == \A a, b \in Attempts :
                 attempt[a].pc = "demo" /\ attempt[b].pc = "demo" => a = b

LeftTabIsLeft == [][\A a \in Attempts : handleSuccess(a) => attempt[a].onPage]_signInVars
=============================================================================
