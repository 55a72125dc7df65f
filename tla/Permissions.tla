------------------------------ MODULE Permissions ------------------------------
(***************************************************************************)
(* Who may call what (packages/core/auth.ts, middleware/auth.ts,           *)
(* auth/csrf.ts, the routes of index.ts and the role tests of the          *)
(* handlers).  A path is the  *)
(* sequence of its segments, "_" for an id; the parameters of a query are  *)
(* left out.                                                               *)
(***************************************************************************)
EXTENDS Sequences, SequencesExt

Roles == {"FinanceAdmin", "Producer", "Manager", "Executive", "HR", "ExternalPartner"}

Ask(method, path) == [method |-> method, path |-> path]
GET(path) == Ask("GET", path)
POST(path) == Ask("POST", path)
PATCH(path) == Ask("PATCH", path)
DELETE(path) == Ask("DELETE", path)

-----------------------------------------------------------------------------
(* The matrix: pairs of a method and a prefix.  "*" is any method.          *)
Everyone == {POST(<<"auth", "logout">>), GET(<<"healthz">>), GET(<<"readyz">>)}

ProducerPermissions ==
  {Ask(m, <<"placements">>) : m \in {"GET", "POST", "PATCH"}}
    \cup {Ask(m, <<"contributors">>) : m \in {"GET", "POST"}}
    \cup {Ask(m, <<"plans">>) : m \in {"GET", "POST"}}
    \cup {Ask(m, <<"disputes">>) : m \in {"GET", "POST"}}
    \cup {Ask(m, <<"producer", "simulations">>) : m \in {"GET", "POST"}}
    \cup {GET(<<p>>) : p \in {"commission-records", "commission-plans",
                              "plan-assignments", "invoices", "me"}}
    \cup {POST(<<"me", "disputes">>)}

ManagerPermissions ==
  {Ask(m, <<"placements">>) : m \in {"GET", "POST", "PATCH"}}
    \cup {Ask(m, <<"contributors">>) : m \in {"GET", "POST", "PATCH", "DELETE"}}
    \cup {Ask(m, <<p>>) : m \in {"GET", "PATCH"}, p \in {"commission-records", "exceptions"}}
    \cup {Ask(m, <<"disputes">>) : m \in {"GET", "POST"}}
    \cup {GET(<<p>>) : p \in {"commission-plans", "plan-assignments", "invoices", "me"}}

ExecutivePermissions == {GET(<<>>), POST(<<"disputes">>)}

HRPermissions ==
  {Ask(m, <<"commission-plans">>) : m \in {"GET", "POST", "PATCH"}}
    \cup {Ask(m, <<"plan-versions">>) : m \in {"GET", "POST"}}
    \cup {Ask(m, <<"plan-assignments">>) : m \in {"GET", "POST", "DELETE"}}
    \cup {Ask(m, <<"plans">>) : m \in {"GET", "POST", "PATCH", "DELETE"}}
    \cup {GET(<<p>>) : p \in {"placements", "contributors", "commission-records",
                              "draw-balances", "producers", "me"}}

PartnerPermissions ==
  {GET(<<"placements">>), GET(<<"partner", "placements">>), GET(<<"invoices">>), GET(<<"me">>)}

ROLE_PERMISSIONS ==
  [role \in Roles |->
     CASE role = "FinanceAdmin" -> {Ask("*", <<>>)}
       [] role = "Producer" -> ProducerPermissions \cup Everyone
       [] role = "Manager" -> ManagerPermissions \cup Everyone
       [] role = "Executive" -> ExecutivePermissions \cup {POST(<<"auth", "logout">>)}
       [] role = "HR" -> HRPermissions \cup Everyone
       [] OTHER -> PartnerPermissions \cup Everyone]

(* Mutant: the prefix has to be the whole path.                             *)
isPermittedExactly(role, request) ==
  \E p \in ROLE_PERMISSIONS[role] :
     p.method \in {"*", request.method} /\ p.path \in {<<>>, request.path}

isPermitted(role, request) ==
  \E p \in ROLE_PERMISSIONS[role] :
     p.method \in {"*", request.method} /\ IsPrefix(p.path, request.path)

-----------------------------------------------------------------------------
(* The routes behind requireAuth, in the order of index.ts.                 *)
RunRoutes ==
  {POST(<<"tasks">>), GET(<<"tasks", "_">>), POST(<<"agents", "credentials">>),
   POST(<<"placements", "import">>), GET(<<"placements", "incomplete">>),
   GET(<<"placements", "ledger">>), POST(<<"placements">>), GET(<<"placements">>),
   GET(<<"placements", "_">>), PATCH(<<"placements", "_">>), GET(<<"partner", "placements">>),
   GET(<<"partner", "placements", "_">>), POST(<<"commission-runs">>), GET(<<"commission-runs">>),
   GET(<<"commission-runs", "_", "queue">>),
   POST(<<"commission-runs", "_", "records", "_", "approve">>)}
    \cup {POST(<<"commission-runs", "_", step>>) : step \in {"approve", "finalize", "export"}}
    \cup {GET(<<"commission-runs", "_", "exports">>)}

OfPlacement(rest) == <<"placements", "_">> \o rest

SplitAndPlanRoutes ==
  {Ask(m, OfPlacement(<<"contributors">>)) : m \in {"GET", "POST"}}
    \cup {POST(OfPlacement(<<"contributors", "validate-split">>)),
          DELETE(OfPlacement(<<"contributors", "_">>)),
          GET(OfPlacement(<<"attribution", "timeline">>))}
    \cup {POST(OfPlacement(<<"attribution", step>>)) : step \in {"submit", "approve", "reject"}}
    \cup {Ask(m, <<"plans">>) : m \in {"GET", "POST"}}
    \cup {POST(<<"plans", "_", "versions", "_", step>>) : step \in {"activate", "acknowledge"}}
    \cup {Ask(m, <<"plans", "_", what>>) : m \in {"GET", "POST"},
                                               what \in {"versions", "assignments"}}
    \cup {GET(<<"plans", "_", "active">>)}

LedgerRoutes ==
  {GET(OfPlacement(<<what>>)) : what \in {"guarantee", "clawback", "adjustments",
                                          "billing-phases", "commission-records"}}
    \cup {POST(OfPlacement(<<what>>)) : what \in {"adjustments", "calculate",
                                                  "calculate-phases", "billing-phases"}}
    \cup {POST(OfPlacement(<<"guarantee", "trigger">>)),
          PATCH(OfPlacement(<<"billing-phases", "_">>)),
          GET(OfPlacement(<<"billing-phases", "_", "journal">>))}
    \cup {Ask(m, OfPlacement(<<"billing-phases", "_", "contributors">>)) : m \in {"GET", "POST"}}
    \cup {GET(<<"commission-records">>), GET(<<"commission-records", "_">>),
          PATCH(<<"commission-records", "_">>), POST(<<"invoices", "import">>),
          POST(<<"invoices">>), PATCH(<<"invoices", "_">>), GET(<<"reconciliation">>),
          POST(<<"reconciliation", "_", "acknowledge">>)}

PersonalRoutes ==
  {Ask(m, <<what>>) : m \in {"GET", "POST"}, what \in {"exceptions", "disputes"}}
    \cup {POST(<<"exceptions", "_", step>>) : step \in {"approve", "reject"}}
    \cup {GET(<<"exceptions", "_">>), POST(<<"disputes", "_", "resolve">>), GET(<<"me">>),
          POST(<<"me", "disputes">>), GET(<<"producer", "simulations">>), GET(<<"producers">>),
          GET(<<"producers", "_", "draw-balance">>)}
    \cup {GET(<<"me", what>>) : what \in {"commission-records", "payouts", "tier-progress",
                                          "clawback-exposure"}}
    \cup {POST(<<"producer", "simulations", kind>>) : kind \in {"actual", "hypothetical"}}
    \cup {GET(<<"me", "team", what>>) : what \in {"placements", "commission-summary",
                                                  "pending-approvals", "disputes"}}
    \cup {GET(<<"analytics", what>>) : what \in {"executive", "team"}}

Routes == RunRoutes \cup SplitAndPlanRoutes \cup LedgerRoutes \cup PersonalRoutes
            \cup {POST(<<"auth", "logout">>)}

-----------------------------------------------------------------------------
(* The handlers' own tests of the role, Roles where there is none.          *)
FinanceOnly ==
  {POST(<<"agents", "credentials">>), POST(<<"placements">>), POST(<<"placements", "import">>),
   PATCH(<<"placements", "_">>), GET(OfPlacement(<<"adjustments">>)),
   POST(OfPlacement(<<"adjustments">>)), POST(OfPlacement(<<"guarantee", "trigger">>)),
   GET(<<"reconciliation">>), POST(<<"reconciliation", "_", "acknowledge">>)}
    \cup {POST(<<"exceptions", "_", step>>) : step \in {"approve", "reject"}}

PLACEMENT_LEDGER_ROLES == {"FinanceAdmin", "Executive", "HR", "Manager"}

requireManagerOrAdmin == {"Manager", "FinanceAdmin"}

HandlerRoles(request) ==
  LET path == request.path
  IN CASE request \in FinanceOnly -> {"FinanceAdmin"}
       [] request = GET(<<"placements", "ledger">>) -> PLACEMENT_LEDGER_ROLES
       [] request = GET(<<"partner", "placements">>) -> {"ExternalPartner", "FinanceAdmin"}
       [] request \in {GET(<<"commission-runs">>), GET(<<"analytics", "executive">>)} ->
            {"FinanceAdmin", "Executive"}
       [] IsPrefix(<<"me", "team">>, path) -> requireManagerOrAdmin
       [] path = <<"disputes", "_", "resolve">> -> {"FinanceAdmin", "Executive", "Manager"}
       [] path = <<"producers">> -> {"HR"}
       [] path = <<"producers", "_", "draw-balance">> -> {"HR", "Producer"}
       [] path = <<"plans", "_", "versions", "_", "acknowledge">> -> {"Producer"}
       [] path = OfPlacement(<<"clawback">>) -> {"FinanceAdmin", "Manager"}
       [] path = <<"me", "clawback-exposure">> -> {"Producer"}
       [] path = <<"me", "payouts">> -> Roles \ {"ExternalPartner"}
       [] path \in {OfPlacement(<<"attribution", step>>) : step \in {"approve", "reject"}} ->
            {"Manager"}
       [] OTHER -> Roles

(* The double-submit check: csrf says whether the browser has the cookie,   *)
(* which apiClient.ts repeats in the header of every call but a GET.        *)
verifyCsrf(csrf, request) == request.method = "GET" \/ csrf

(* requireAuth and verifyCsrf, then the route, then the handler; only the   *)
(* logout comes before.                                                     *)
Reply(role, csrf, request) ==
  IF request = POST(<<"auth", "logout">>) THEN "served"
  ELSE IF ~isPermitted(role, request) \/ ~verifyCsrf(csrf, request) THEN "forbidden"
  ELSE IF request \notin Routes THEN "not found"
  ELSE IF role \in HandlerRoles(request) THEN "served" ELSE "forbidden"
=============================================================================
