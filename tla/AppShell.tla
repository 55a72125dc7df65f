-------------------------------- MODULE AppShell --------------------------------
(***************************************************************************)
(* The pages of the web application and the requests they make             *)
(* (apps/web/src/App.tsx, lib/roleRoutes.ts and the page components): the   *)
(* redirect after a sign-in, the sidebar, the tabs, and for each component  *)
(* what it loads when it is mounted and what it lets its user do then.      *)
(* Permissions answers the requests.                                        *)
(***************************************************************************)
EXTENDS Permissions, FiniteSets

VARIABLES session,   \* the role of the session, "none" before the first answer of GET /me
          probing,   \* "no", "due" (refreshSession was called) or "loading"
          csrf,      \* the browser has the cookie __Host-csrf-token
          signedOut, \* unauthenticated of useSession
          path,      \* window.location.pathname
          tab,       \* the tab chosen in the tabs without a path of their own, or "default"
          prevRole,  \* prevRoleRef
          redirect,  \* the redirect effect has to run
          typed      \* the user did not get here by the sidebar, the tabs and the redirect

shellVars == <<session, probing, csrf, signedOut, path, tab, prevRole, redirect, typed>>

LOGIN == <<>>
FinanceTabs == {"processing", "cases", "adjustments", "reconciliation"}
ExecutiveTabs == {"dashboard", "profitability", "trends", "finance"}
ROUTES == {LOGIN, <<"portal">>, <<"finance">>, <<"finance", "cases">>,
           <<"finance", "adjustments">>, <<"finance", "reconciliation">>, <<"manager">>,
           <<"executive">>, <<"executive", "profitability">>, <<"executive", "trends">>,
           <<"executive", "finance">>, <<"hr">>, <<"partner">>, <<"docs">>}

-----------------------------------------------------------------------------
(* The first nav item is the landing page of the role.                      *)
navItems ==
  [role \in Roles |->
     CASE role = "Producer" -> <<<<"portal">>, <<"docs">>>>
       [] role = "FinanceAdmin" -> <<<<"finance">>, <<"finance", "cases">>,
            <<"finance", "adjustments">>, <<"finance", "reconciliation">>, <<"docs">>>>
       [] role = "Manager" -> <<<<"manager">>, <<"docs">>>>
       [] role = "Executive" -> <<<<"executive">>, <<"executive", "profitability">>,
            <<"executive", "trends">>, <<"executive", "finance">>, <<"docs">>>>
       [] role = "HR" -> <<<<"hr">>, <<"docs">>>>
       [] OTHER -> <<<<"partner">>, <<"docs">>>>]

Items(role) == ToSet(navItems[role])

permitted ==
  [role \in Roles |->
     Items(role) \cup CASE role = "FinanceAdmin" -> {<<"portal">>, <<"hr">>, <<"partner">>}
                        [] role = "Executive" -> {<<"finance">>}
                        [] OTHER -> {}]

pathMatchesPrefix(p, base) == IF base = LOGIN THEN p = LOGIN ELSE IsPrefix(base, p)

isPathPermitted(role, p) == p = LOGIN \/ \E base \in permitted[role] : pathMatchesPrefix(p, base)

landingPathForRole(role) == navItems[role][1]

Highlighted(role, p) == {item \in Items(role) : pathMatchesPrefix(p, item)}

activeNavPath(role, p) ==
  IF Highlighted(role, p) = {} THEN "none"
  ELSE CHOOSE item \in Highlighted(role, p) :
         \A other \in Highlighted(role, p) : Len(other) <= Len(item)

tabFromPath(p, base, defaultTab) ==
  IF Len(p) > 1 /\ IsPrefix(base, p) THEN p[2] ELSE defaultTab

pathForTab(t, base, defaultTab) == IF t = defaultTab THEN base ELSE Append(base, t)

-----------------------------------------------------------------------------
(* The components: what each loads when it is mounted, and what it offers.  *)
Component(loads, offers) == [loads |-> loads, offers |-> offers]
PlacementList == GET(<<"placements">>)
Analytics == {GET(<<"analytics", "executive">>)}

PayoutStatement == Component({GET(<<"me", "payouts">>)}, {})
TierProgress == Component({GET(<<"me", "tier-progress">>)}, {})
ProducerPlanAcknowledgment ==
  Component({GET(<<"plans">>), GET(<<"plans", "_", "assignments">>)},
            {POST(<<"plans", "_", "versions", "_", "acknowledge">>)})
PlanAcknowledgment == Component({GET(<<"plans">>), GET(<<"plans", "_", "assignments">>)}, {})
CreditedPlacements == Component({GET(<<"me", "commission-records">>)}, {})
DisputeForm == Component({}, {POST(<<"me", "disputes">>)})
DealSimulator ==
  Component({GET(<<"producer", "simulations">>)},
            {POST(<<"producer", "simulations", kind>>) : kind \in {"actual", "hypothetical"}})
DataGapQueue == Component({GET(<<"placements", "incomplete">>)}, {PATCH(<<"placements", "_">>)})
CommissionRunReview ==
  Component({}, {POST(<<"commission-runs">>), GET(<<"commission-runs", "_", "queue">>),
                 POST(<<"commission-runs", "_", "records", "_", "approve">>),
                 POST(<<"commission-runs", "_", "approve">>),
                 POST(<<"commission-runs", "_", "finalize">>)})
InvoiceCollection ==
  Component({PlacementList},
            {GET(OfPlacement(<<"billing-phases">>)), GET(<<"invoices", "_">>),
             PATCH(<<"invoices", "_">>), PATCH(OfPlacement(<<"billing-phases", "_">>))})
AdjustmentLedger ==
  Component({PlacementList}, {GET(OfPlacement(<<"clawback">>)),
                              POST(OfPlacement(<<"guarantee", "trigger">>))})
PayrollExport ==
  Component({GET(<<"commission-runs">>)},
            {GET(<<"commission-runs", "_", "exports">>), POST(<<"commission-runs", "_", "export">>),
             GET(<<"commission-runs", "_", "exports", "_", "download">>)})
ReconciliationReport ==
  Component({GET(<<"reconciliation">>)}, {POST(<<"reconciliation", "_", "acknowledge">>)})
(* Only the ledger that GET /placements/ledger calls editable offers more.  *)
PlacementLedger(role) ==
  Component({GET(<<"placements", "ledger">>)},
            IF role # "FinanceAdmin" THEN {}
            ELSE {POST(<<"placements">>), PATCH(<<"placements", "_">>), GET(<<"producers">>),
                  POST(OfPlacement(<<"contributors">>)),
                  DELETE(OfPlacement(<<"contributors", "_">>))})
SplitApproval ==
  Component({GET(<<"me", "team", "pending-approvals">>)},
            {POST(OfPlacement(<<"attribution", step>>)) : step \in {"approve", "reject"}}
              \cup {GET(OfPlacement(<<"contributors">>)), POST(OfPlacement(<<"contributors">>)),
                    DELETE(OfPlacement(<<"contributors", "_">>))})
SplitEscalation ==
  Component({GET(<<"me", "team", "disputes">>)}, {POST(<<"disputes", "_", "resolve">>)})
TeamCommissionView ==
  Component({GET(<<"me", "team", what>>) : what \in {"commission-summary", "placements", "disputes"}},
            {})
AttributionTimeline ==
  Component({GET(<<"me", "team", "placements">>)}, {GET(OfPlacement(<<"attribution", "timeline">>))})
ExecFinancialPosition == Component(Analytics, {})
ExecProfitability == Component(Analytics, {})
ExecTrends == Component(Analytics, {})
ExecDisputeApproval ==
  Component({GET(<<"disputes">>)},
            {GET(OfPlacement(<<"attribution", "timeline">>)),
             POST(<<"disputes", "_", "resolve">>), POST(<<"disputes", "_", "arbitrate">>)})
DrawBalanceView == Component({GET(<<"producers">>)}, {GET(<<"producers", "_", "draw-balance">>)})
PartnerPayoutView == Component({GET(<<"partner", "placements">>)}, {})

-----------------------------------------------------------------------------
(* The pages.                                                               *)
ProducerPortal(t) ==
  {CreditedPlacements} \cup
    CASE t \in {"default", "dashboard"} ->
           {PayoutStatement, TierProgress, ProducerPlanAcknowledgment}
      [] t = "placements" -> {DisputeForm}
      [] t = "tools" -> {DealSimulator}

(* /executive shows the page with the role Executive, /finance always with  *)
(* FinanceAdmin.                                                            *)
FinancePage(role, t) ==
  CASE t = "processing" -> {DataGapQueue, CommissionRunReview, InvoiceCollection}
    [] t = "cases" -> {PlacementLedger(role)}
    [] t = "adjustments" -> {AdjustmentLedger, PayrollExport}
    [] t = "reconciliation" -> {ReconciliationReport}
    [] OTHER -> {}

ManagerHome(t) ==
  CASE t = "placements" -> {PlacementLedger("Manager")}
    [] t \in {"default", "approvals"} -> {SplitApproval, SplitEscalation}
    [] t = "team" -> {TeamCommissionView, AttributionTimeline}

HRHome(t) ==
  CASE t = "placements" -> {PlacementLedger("HR")}
    [] t \in {"default", "acknowledgment"} -> {PlanAcknowledgment}
    [] t = "draw" -> {DrawBalanceView}

ExecutiveDashboard(role, t, inner) ==
  CASE t = "dashboard" -> {ExecFinancialPosition, ExecDisputeApproval}
    [] t = "profitability" -> {ExecProfitability}
    [] t = "trends" -> {ExecTrends}
    [] t = "finance" -> FinancePage(role, IF inner = "default" THEN "processing" ELSE inner)
    [] OTHER -> {}

Surface ==
  IF probing = "loading" THEN "skeleton"
  ELSE IF signedOut \/ session = "none" THEN "login"
  ELSE IF path = LOGIN THEN "skeleton"
  ELSE IF isPathPermitted(session, path) THEN path[1] ELSE "forbidden"

OnPage == Surface \notin {"skeleton", "login", "forbidden"}

Mounted ==
  CASE Surface = "portal" -> ProducerPortal(tab)
    [] Surface = "finance" ->
         FinancePage("FinanceAdmin", tabFromPath(path, <<"finance">>, "processing"))
    [] Surface = "manager" -> ManagerHome(tab)
    [] Surface = "executive" ->
         ExecutiveDashboard(session, tabFromPath(path, <<"executive">>, "dashboard"), tab)
    [] Surface = "hr" -> HRHome(tab)
    [] Surface = "partner" -> {PartnerPayoutView}
    [] OTHER -> {}

LocalTabs ==
  CASE Surface = "portal" -> {"dashboard", "placements", "tools"}
    [] Surface = "manager" -> {"placements", "approvals", "team"}
    [] Surface = "hr" -> {"placements", "acknowledgment", "draw"}
    [] Surface = "executive" /\ path = <<"executive", "finance">> -> FinanceTabs
    [] OTHER -> {}
-----------------------------------------------------------------------------
ShellTypeOK ==
  /\ session \in Roles \cup {"none"}
  /\ probing \in {"no", "due", "loading"}
  /\ path \in ROUTES /\ prevRole \in Roles \cup {"none"}
  /\ csrf \in BOOLEAN /\ signedOut \in BOOLEAN /\ redirect \in BOOLEAN /\ typed \in BOOLEAN
  /\ OnPage => tab \in LocalTabs \cup {"default"}

ShellInit ==
  /\ session = "none" /\ probing = "loading" /\ signedOut = FALSE
  /\ csrf \in BOOLEAN
  /\ path \in ROUTES /\ tab = "default" /\ prevRole = "none" /\ redirect = FALSE
  /\ typed = (path # LOGIN)

(* navigate: the tabs of the page that was left are gone.                   *)
navigate(p) == path' = p /\ tab' = "default"

StartProbe ==
  /\ probing = "due"
  /\ probing' = "loading" /\ signedOut' = FALSE
  /\ UNCHANGED <<session, csrf, path, prevRole, typed, redirect>>
  /\ tab' = "default"

AnswerMe(role) ==
  /\ probing = "loading"
  /\ probing' = "no" /\ redirect' = TRUE
  /\ IF role = "none" THEN signedOut' = TRUE /\ UNCHANGED session
                      ELSE session' = role /\ UNCHANGED signedOut
  /\ UNCHANGED <<csrf, path, tab, prevRole, typed>>

Redirect ==
  /\ redirect
  /\ IF probing = "loading" \/ signedOut \/ session = "none"
       THEN redirect' = FALSE /\ UNCHANGED <<path, tab, prevRole, typed>>
       ELSE /\ prevRole' = session
            /\ IF path = LOGIN \/ prevRole \notin {"none", session}
                 THEN navigate(landingPathForRole(session)) /\ typed' = FALSE /\ UNCHANGED redirect
                 ELSE redirect' = FALSE /\ UNCHANGED <<path, tab, typed>>
  /\ UNCHANGED <<session, probing, csrf, signedOut>>

FollowItem(item) ==
  /\ Surface \notin {"skeleton", "login"} /\ item \in Items(session)
  /\ navigate(item) /\ typed' = FALSE /\ redirect' = TRUE
  /\ UNCHANGED <<session, probing, csrf, signedOut, prevRole>>

(* The tabs of /finance and /executive change the path.                     *)
SelectPathTab(t) ==
  /\ \E base \in {<<"finance">>, <<"executive">>} :
       /\ Surface = base[1]
       /\ t \in IF base = <<"finance">> THEN FinanceTabs ELSE ExecutiveTabs
       /\ navigate(pathForTab(t, base, IF base = <<"finance">> THEN "processing" ELSE "dashboard"))
  /\ redirect' = TRUE
  /\ UNCHANGED <<session, probing, csrf, signedOut, prevRole, typed>>

SelectTab(t) ==
  /\ t \in LocalTabs
  /\ tab' = t
  /\ UNCHANGED <<session, probing, csrf, signedOut, path, prevRole, redirect, typed>>

GoHome ==
  /\ Surface = "forbidden"
  /\ navigate(landingPathForRole(session)) /\ typed' = FALSE /\ redirect' = TRUE
  /\ UNCHANGED <<session, probing, csrf, signedOut, prevRole>>

(* The back button of the browser, to any path there may have been.         *)
GoBack(p) ==
  /\ Surface \notin {"skeleton", "login"}
  /\ navigate(p) /\ typed' = TRUE /\ redirect' = TRUE
  /\ UNCHANGED <<session, probing, csrf, signedOut, prevRole>>

(* A passkey also sets the cookie, a persona of the demo does not; signing  *)
(* out leaves it.                                                           *)
SignIn ==
  /\ Surface = "login" /\ probing = "no"
  /\ probing' = "due" /\ csrf' \in {csrf, TRUE}
  /\ UNCHANGED <<session, signedOut, path, tab, prevRole, redirect, typed>>

handleLogout ==
  /\ Surface \notin {"skeleton", "login"} /\ probing = "no"
  /\ navigate(LOGIN) /\ probing' = "due" /\ redirect' = TRUE
  /\ UNCHANGED <<session, csrf, signedOut, prevRole, typed>>

ShellNext ==
  \/ StartProbe \/ Redirect \/ GoHome \/ SignIn \/ handleLogout
  \/ \E role \in Roles \cup {"none"} : AnswerMe(role)
  \/ \E p \in ROUTES : FollowItem(p) \/ GoBack(p)
  \/ \E t \in FinanceTabs \cup ExecutiveTabs : SelectPathTab(t)
  \/ \E t \in UNION {{"dashboard", "placements", "tools", "approvals", "team", "acknowledgment",
                      "draw"}, FinanceTabs} : SelectTab(t)

-----------------------------------------------------------------------------
Opened == OnPage /\ ~redirect /\ ~typed

(* Whoever goes by the sidebar, the tabs and the redirect after a sign-in,  *)
(* as whatever role after whatever other, gets a page with something on it  *)
(* and never the Forbidden page (prevRoleRef of App.tsx).                   *)
SidebarOpensPage ==
  /\ ~redirect /\ ~typed => Surface # "forbidden"
  /\ Opened /\ path # <<"docs">> => Mounted # {}

(* The page that is open is the item the sidebar highlights.                *)
HighlightTells ==
  Opened => LET item == activeNavPath(session, path)
            IN item \in Items(session) /\ (path \in Items(session) => item = path)

(* Both gates, the permission matrix and the handler's own test, let        *)
(* through everything that these pages load by themselves.  The finance     *)
(* page within the executive dashboard is the exception (README).           *)
LoadsServed ==
  Opened /\ path # <<"executive", "finance">> =>
    \A c \in Mounted : \A q \in c.loads : Reply(session, csrf, q) = "served"

(* And, for those who look after their own affairs, everything the pages    *)
(* offer; without the cookie, what they offer to read.                      *)
SelfServiceServed ==
  Opened /\ session \in {"Producer", "HR", "ExternalPartner"} =>
    \A c \in Mounted : \A q \in c.offers :
      csrf \/ q.method = "GET" => Reply(session, csrf, q) = "served"

(* Everybody finds their way, and what is there works for them.             *)
PagesServed == SidebarOpensPage /\ HighlightTells /\ LoadsServed /\ SelfServiceServed

(* The same for every role, or for a persona of the demo, who has no cookie:*)
(* it is not so, as README says.                                            *)
OffersServed ==
  Opened => \A c \in Mounted : \A q \in c.offers : Reply(session, csrf, q) = "served"
=============================================================================
