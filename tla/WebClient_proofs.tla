-------------------------- MODULE WebClient_proofs --------------------------
(***************************************************************************)
(* Proofs about the web client as a whole (MCWeb), for any bounds: the     *)
(* invariants of its parts hold side by side, and with them what the       *)
(* client promises whichever part the user works with.                     *)
(***************************************************************************)
EXTENDS MCWeb, WebSession_proofs, WebPages_proofs

-----------------------------------------------------------------------------
(* The client: the parts side by side *)

\* A step of the client is a step of the part looked at, and the others stay as they are.
LEMMA WebStarts ==
    WebInit => SessionInit /\ AdminInit /\ DashboardInit /\ NotificationsInit /\ AccountInit /\ InputsInit
  BY DEF WebInit

LEMMA WebSteps ==
    [WebNext]_webVars => /\ [SessionNext]_sessionVars /\ [AdminNext]_adminVars /\ [DashboardNext]_dashboardVars
                         /\ [NotificationsNext]_notificationsVars /\ [AccountNext]_accountVars
                         /\ [InputsNext]_webInput
<1> SUFFICES ASSUME [WebNext]_webVars
             PROVE  /\ [SessionNext]_sessionVars /\ [AdminNext]_adminVars /\ [DashboardNext]_dashboardVars
                    /\ [NotificationsNext]_notificationsVars /\ [AccountNext]_accountVars
                    /\ [InputsNext]_webInput
  OBVIOUS
<1>1. CASE UNCHANGED webVars
  BY <1>1 DEF webVars
<1>2. CASE WebNext
  BY <1>2 DEF WebNext, InSession, InAdmin, InDashboard, InNotifications, InAccount, InInputs
<1> QED BY <1>1, <1>2

PagesInv == SessionIInv /\ AdminInv /\ DashboardInv /\ NotificationsInv /\ AccountInv /\ InputsInv

\* Every page of the client stays in its invariant, whichever part the user works with.
THEOREM AlwaysPagesInv == WebSpec => []PagesInv
<1>1. WebInit => PagesInv
  BY WebStarts, SessionInitIInv, AdminStart, DashboardInvInit, NotificationsStart, AccountInit_Inv, InputsStart DEF PagesInv
<1>2. PagesInv /\ [WebNext]_webVars => PagesInv'
  BY WebSteps, SessionStepIInv, AdminStep, DashboardInvStep, NotificationsStep, AccountNext_Inv, InputsStep DEF PagesInv
<1> QED BY <1>1, <1>2, PTL DEF WebSpec

\* With nothing under way, what a page of the client shows is what the server holds: lists,
\* overview and dialogs, the rows its pager counts, and no row as if a check were running.
THEOREM NothingAlwaysStale == WebSpec => []NothingStale
<1>1. PagesInv => NothingStale
  BY FreshAdmin, HonestPager, FreshDashboard, LeavesNothing, FreshNotifications DEF PagesInv, NothingStale
<1> QED BY <1>1, AlwaysPagesInv, PTL

\* What the client reads and shows means what was stored: certificates that have expired and
\* their order, the language chosen, the places of every text and the names of errors.
THEOREM AlwaysShownAsStored == WebSpec => []ShownAsStored
<1>1. PagesInv => ShownAsStored
  BY ShowsExpired, OrdersExpiry, RemembersLocale, FillsPlaces, NamesErrors DEF PagesInv, ShownAsStored
<1> QED BY <1>1, AlwaysPagesInv, PTL

\* Nobody is shown the login form while a session of theirs is live, without something that may
\* cost one, and between exchanges the page, its cookie and the server name the same session.
THEOREM SessionAlwaysAgreed == WebSpec => [](SignedOutOnlyForCause /\ SessionsAgree)
<1>1. PagesInv => SignedOutOnlyForCause /\ SessionsAgree
  BY SignedOutForCause, AgreeBetween DEF PagesInv
<1> QED BY <1>1, AlwaysPagesInv, PTL

\* The link a visitor came with leads to its page, or where that page leads, also past the
\* session being restored and a login (the router of the client).
THEOREM LinkAlwaysSurvives == WebSpec => []DeepLinkSurvives
<1>1. PagesInv => DeepLinkSurvives
  BY DeepLinkKept DEF PagesInv
<1> QED BY <1>1, AlwaysPagesInv, PTL

\* Every form of the client writes what it was given, whatever was opened, answered, saved or
\* reset in between, and no mask in the place of a credential.
THEOREM FormsAlwaysKeepTheirOwn == WebSpec => FormsKeepTheirOwn
<1>1. PagesInv => SavesItsOwnDomain /\ IntervalKept /\ MaskedEndpointKept
  BY OwnDomainSaved, KeepsInterval, MaskedStays DEF PagesInv
<1>2. PagesInv => NotificationsInv /\ AccountInv
  BY DEF PagesInv
<1>3. [WebNext]_webVars => [NotificationsNext]_notificationsVars /\ [AccountNext]_accountVars
  BY WebSteps
<1> QED BY <1>1, <1>2, <1>3, AlwaysPagesInv, UntouchedPolicyWrites, UntouchedEndpointWrites, UntouchedSettingsStep, PTL
        DEF WebSpec, FormsKeepTheirOwn, UntouchedPolicyKept, UntouchedEndpointKept, UntouchedSettingsKept

\* What the client says of a request is so: the report of a bulk action, what became of a link
\* that serves once, and the toast of a check.
THEOREM ReportsAreAlwaysTrue == WebSpec => ReportsAreTrue
<1>1. PagesInv => BulkReportTrue /\ ResetSetsThePassword /\ VerifiedIsSaid
  BY TrueReport, ResetSets, VerifiedSaid DEF PagesInv
<1>2. PagesInv => DashboardInv
  BY DEF PagesInv
<1>3. [WebNext]_webVars => [DashboardNext]_dashboardVars
  BY WebSteps
<1> QED BY <1>1, <1>2, <1>3, AlwaysPagesInv, ToastStep, PTL
        DEF WebSpec, ReportsAreTrue, ToastTellsTheOutcome
=============================================================================
