-------------------------------- MODULE MCWeb --------------------------------
(***************************************************************************)
(* The parts of the web client for TLC, one in each behaviour: they share  *)
(* no state but the session, of which AccountPages has its own view. Here  *)
(* are the constants that a .cfg file cannot write, and the parts' initial *)
(* states and steps side by side.                                          *)
(***************************************************************************)
EXTENDS WebSession, AdminPage, DashboardPage, NotificationsPage, AccountPages, WebInputs, TLC

CONSTANTS k1, k2

VARIABLE part

Policy(days, to) == [days |-> days, to |-> to]
StoredPolicies   == {(0 :> Policy({30}, {1}) @@ 1 :> Policy({7}, {1}))}

Allow(edit, chk, leave, trouble) ==
    [edit |-> edit, check |-> chk, leave |-> leave, trouble |-> trouble]
DashboardBudget == {Allow(3, 0, 0, 1), Allow(2, 0, 1, 0), Allow(1, 1, 0, 0), Allow(0, 1, 1, 1)}

SomeInstants == -9..9

-----------------------------------------------------------------------------
Part == {"session", "admin", "dashboard", "notifications", "account", "inputs"}

\* The parts that are not looked at are in one of their initial states.
WebInit ==
    /\ part \in Part
    /\ SessionInit       /\ (part # "session" => cookie = 0)
    /\ AdminInit
    /\ DashboardInit     /\ (part # "dashboard" => budget = Allow(0, 1, 1, 1))
    /\ NotificationsInit
    /\ AccountInit       /\ (part # "account" => route = "/" /\ role = "tenant_owner" /\ remembered)
    /\ InputsInit        /\ (part # "inputs" => webInput.kind = "interval" /\ webInput.stored = 60)

InSession(A) ==
    /\ part = "session" /\ A
    /\ UNCHANGED <<adminVars, dashboardVars, notificationsVars, accountVars, webInput, part>>
InAdmin(A) ==
    /\ part = "admin" /\ A
    /\ UNCHANGED <<sessionVars, dashboardVars, notificationsVars, accountVars, webInput, part>>
InDashboard(A) ==
    /\ part = "dashboard" /\ A
    /\ UNCHANGED <<sessionVars, adminVars, notificationsVars, accountVars, webInput, part>>
InNotifications(A) ==
    /\ part = "notifications" /\ A
    /\ UNCHANGED <<sessionVars, adminVars, dashboardVars, accountVars, webInput, part>>
InAccount(A) ==
    /\ part = "account" /\ A
    /\ UNCHANGED <<sessionVars, adminVars, dashboardVars, notificationsVars, webInput, part>>
InInputs(A) ==
    /\ part = "inputs" /\ A
    /\ UNCHANGED <<sessionVars, adminVars, dashboardVars, notificationsVars, accountVars, part>>

WebNext == \/ InSession(SessionNext) \/ InAdmin(AdminNext) \/ InDashboard(DashboardNext)
           \/ InNotifications(NotificationsNext) \/ InAccount(AccountNext) \/ InInputs(InputsNext)

webVars == <<sessionVars, adminVars, dashboardVars, notificationsVars, accountVars, webInput, part>>

\* The fairness of the part looked at; the others take no step.
WebFairness ==
    /\ \A c \in Call : WF_sessionVars(part = "session" /\ Calling(c))
    /\ \A f \in Refresher : WF_sessionVars(part = "session" /\ Refreshing(f))
    /\ WF_sessionVars(part = "session" /\ (Login \/ LoginArrives))
    /\ WF_sessionVars(part = "session" /\ (Logout \/ LogoutArrives \/ LogoutLost))
    /\ WF_adminVars(part = "admin" /\ ListQuery)
    /\ WF_adminVars(part = "admin" /\ DetailQuery)
    /\ WF_adminVars(part = "admin" /\ MutationStep)
    /\ WF_adminVars(part = "admin" /\ BulkAction)
    /\ WF_dashboardVars(part = "dashboard" /\ Answers)
    /\ WF_dashboardVars(part = "dashboard" /\ Mutating)
    /\ WF_dashboardVars(part = "dashboard" /\ JobGoesOn)
    /\ WF_dashboardVars(part = "dashboard" /\ Following)
    /\ WF_accountVars(part = "account" /\ Redirecting)
    /\ WF_accountVars(part = "account" /\ SessionRestored)
    /\ WF_accountVars(part = "account" /\ AccountAnswers)

WebSpec == WebInit /\ [][WebNext]_webVars /\ WebFairness

-----------------------------------------------------------------------------
\* What a user waits for: the first page or the answer to a request (k2, which stores it; k1
\* differs in nothing else), the report of a bulk action, the end of a check, a page after
\* redirects.
Waiting ==
    \/ part = "session"   /\ (loading \/ phase[k2] # "idle")
    \/ part = "admin"     /\ bulk.phase # "idle"
    \/ part = "dashboard" /\ check.phase # "idle"
    \/ part = "account"   /\ ~ShowsPage(route, sessionLoading, account)

\* Nobody waits forever: whatever is refused or lost on the way, the page stops loading, every
\* request is answered to its caller, a bulk action is reported, a check ends and gives back
\* the buttons it had disabled, and redirects come to a page that is shown.
NobodyWaitsForever == Waiting ~> (~Waiting /\ (part = "admin" => actionMessage # <<>>))

\* A form writes what it was given, whatever was opened, answered, saved or reset in between:
\* the dashboard's one form, the values of the domain it is saved for and the interval it
\* had; an endpoint's form and a policy's, nothing unless it was typed into, and no mask in
\* the place of a credential; the settings, the title there was.
FormsKeepTheirOwn ==
    /\ [](SavesItsOwnDomain /\ IntervalKept /\ MaskedEndpointKept)
    /\ UntouchedPolicyKept /\ UntouchedEndpointKept /\ UntouchedSettingsKept

\* What a page says of a request is so: the report of a bulk action, the toast of a check, and
\* what became of a link that serves once.
ReportsAreTrue ==
    /\ [](BulkReportTrue /\ ResetSetsThePassword /\ VerifiedIsSaid)
    /\ ToastTellsTheOutcome

\* Nothing stale stays: with nothing under way the lists, the overview and the dialogs show
\* what the server holds, and no row is left as if a check were running; and whatever was
\* deleted behind the page number, the rows of a list are the ones its pager says.
NothingStale == AdminFresh /\ PagerHonest /\ DashboardFresh /\ CheckLeavesNothing /\ NotificationsFresh

\* What is read and shown means what was stored: certificates that have expired, their order,
\* the language chosen, the places of a text and the names of errors.
ShownAsStored == ExpiredIsShown /\ ExpiryOrdered /\ LocaleRemembered /\ EveryPlaceFilled /\ ErrorsNamed
=============================================================================
