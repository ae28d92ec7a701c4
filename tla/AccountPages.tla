----------------------------- MODULE AccountPages -----------------------------
(***************************************************************************)
(* The router (app.tsx) and the pages around an account: login, register,  *)
(* forgotten and new password, verification of an address, settings, and   *)
(* the public status page. WebSession.tla is how a session comes and goes; *)
(* here it is what the router sees of it: loading, then a user or none.    *)
(*                                                                         *)
(* A page's state (pageView) is new each time it is mounted. Its calls     *)
(* are not cancelled when it goes: a late answer finds no state to change, *)
(* but still navigates.                                                    *)
(***************************************************************************)
EXTENDS Naturals, QueryCache

CONSTANTS
    OpenedAt,    \* the addresses the application may be opened at
    MaxMoves,    \* bound: links followed
    MaxCalls,    \* bound: forms submitted and addresses verified
    MaxMishaps   \* bound: calls that fail, answers lost, sessions ended, languages chosen

ASSUME AccountAssumption == MaxMoves \in Nat /\ MaxCalls \in Nat /\ MaxMishaps \in Nat

VARIABLES
    route, opened,               \* where the browser is, and was opened ("moved" once it went elsewhere)
    sessionLoading, account,     \* what AuthProvider says: the role of the user, or "none"
    role, remembered,            \* the visitor's role, and whether the server would refresh its session
    mount, pageView,             \* the page that is mounted
    accountCalls, called,
    verifyToken, resetToken,     \* "fresh" or "consumed"
    password,                    \* the call that set it last, 0 for none
    tenantTitle, titleQuery,     \* the public title, and the settings page's copy of its status
    moves, mishaps

sessionView == <<sessionLoading, account>>
place       == <<route, opened, mount, pageView>>
calls       == <<accountCalls, called>>
serverRows  == <<verifyToken, resetToken, password, tenantTitle, remembered>>
accountVars == <<place, sessionView, role, calls, serverRows, titleQuery, moves, mishaps>>

PublicOnlyPages == {"/login", "/register", "/forgot-password", "/reset-password"}
Workspace       == {"/app", "/app/notifications", "/app/settings"}
OpenPages       == {"/verify-email", "/status"}
Routes          == {"/", "/admin"} \cup PublicOnlyPages \cup Workspace \cup OpenPages

Mishap == mishaps < MaxMishaps /\ mishaps' = mishaps + 1

-----------------------------------------------------------------------------
(* The router *)

Home(who) == IF who = "super_admin" THEN "/admin" ELSE "/app"

\* The routes whose page is shown; the others are a redirect or the loading text.
ShowsPage(at, waiting, who) ==
    \/ at \in OpenPages
    \/ at \in PublicOnlyPages /\ ~waiting /\ who = "none"
    \/ at \in Workspace /\ ~waiting /\ who # "none"
    \/ at = "/admin" /\ ~waiting /\ who = "super_admin"

NewView == [status |-> "idle", message |-> FALSE, error |-> FALSE, title |-> "", touched |-> FALSE, open |-> 0]

\* Mutant: the form is filled when it is mounted and never again.
LoadedForm(v, data) == v

\* The effect of the settings form: filled with the status there is.
FilledForm(v, data) == [v EXCEPT !.title = IF data = NoData THEN "" ELSE data, !.touched = FALSE]

\* What is mounted after a change of route or session: the same page goes on, another is new;
\* the settings form fetches the status. (Verification starts by itself: VerifyEffect.)
Mounts(at, waiting, who) ==
    IF ShowsPage(at, waiting, who) /\ (at # route \/ ~ShowsPage(route, sessionLoading, account))
    THEN /\ mount' = mount + 1
         /\ IF at = "/app/settings"
            THEN titleQuery' = Mounted(titleQuery) /\ pageView' = FilledForm(NewView, titleQuery.data)
            ELSE pageView' = NewView /\ UNCHANGED titleQuery
    ELSE UNCHANGED <<mount, pageView, titleQuery>>

Navigate(to) == route' = to /\ UNCHANGED sessionView /\ Mounts(to, sessionLoading, account)

RootRedirect ==
    /\ route = "/" /\ ~sessionLoading
    /\ Navigate(IF account = "none" THEN "/login" ELSE Home(account))
    /\ UNCHANGED <<opened, role, calls, serverRows, moves, mishaps>>

\* Mutant: without a user the page is not waited for.
ProtectedImpatient ==
    /\ \/ route \in Workspace \cup {"/admin"} /\ account = "none" /\ Navigate("/login")
       \/ route = "/admin" /\ ~sessionLoading /\ account = "tenant_owner" /\ Navigate("/app")
    /\ UNCHANGED <<opened, role, calls, serverRows, moves, mishaps>>

ProtectedShell ==
    /\ ~sessionLoading
    /\ \/ route \in Workspace \cup {"/admin"} /\ account = "none" /\ Navigate("/login")
       \/ route = "/admin" /\ account = "tenant_owner" /\ Navigate("/app")
    /\ UNCHANGED <<opened, role, calls, serverRows, moves, mishaps>>

PublicOnly ==
    /\ route \in PublicOnlyPages /\ ~sessionLoading /\ account # "none"
    /\ Navigate(Home(account))
    /\ UNCHANGED <<opened, role, calls, serverRows, moves, mishaps>>

Redirecting == RootRedirect \/ ProtectedShell \/ PublicOnly

\* The links of a page: of AppShell, by mode and role, of the public pages, and the addresses
\* typed or mailed that lead anywhere.
NavItems(at) ==
    IF at = "/admin" THEN {"/admin", "/app"}
    ELSE IF at \in Workspace THEN Workspace \cup (IF account = "super_admin" THEN {"/admin"} ELSE {})
    ELSE {"/login"} \cup (IF at \in {"/login", "/verify-email"} THEN {"/register"} ELSE {})
                    \cup (IF at = "/login" THEN {"/forgot-password"} ELSE {})

FollowLink(to) ==
    /\ moves < MaxMoves /\ moves' = moves + 1
    /\ ShowsPage(route, sessionLoading, account) /\ to \in NavItems(route) \ {route}
    /\ opened' = "moved"
    /\ Navigate(to)
    /\ UNCHANGED <<role, calls, serverRows, mishaps>>

-----------------------------------------------------------------------------
(* The session, as the router sees it *)

SessionSeen(waiting, who) ==
    /\ sessionLoading' = waiting /\ account' = who
    /\ Mounts(route, waiting, who)

\* Mutant: only a refresh that succeeds ends the loading.
SessionStuck ==
    /\ sessionLoading /\ remembered
    /\ SessionSeen(FALSE, role)
    /\ UNCHANGED <<route, opened, role, calls, serverRows, moves, mishaps>>

\* The refresh that AuthProvider starts with; a failure counts as no session.
SessionRestored ==
    /\ sessionLoading
    /\ \/ SessionSeen(FALSE, IF remembered THEN role ELSE "none") /\ UNCHANGED mishaps
       \/ SessionSeen(FALSE, "none") /\ Mishap
    /\ UNCHANGED <<route, opened, role, calls, serverRows, moves>>

\* Logged out, or a refresh after a 401 failed.
SessionEnds ==
    /\ account # "none" /\ Mishap
    /\ remembered' = FALSE
    /\ SessionSeen(FALSE, "none")
    /\ UNCHANGED <<route, opened, role, calls, verifyToken, resetToken, password, tenantTitle, moves>>

-----------------------------------------------------------------------------
(* Calls: submitted, handled by the server, answered *)

NewCall(kind, n) == [kind |-> kind, n |-> n, from |-> mount, phase |-> "sent", title |-> "", seen |-> NoData, email |-> FALSE]

OnPage(at) == route = at /\ ShowsPage(at, sessionLoading, account)
CallRoom   == called < MaxCalls /\ called' = called + 1

FormAt == [login |-> "/login", register |-> "/register", forgot |-> "/forgot-password", reset |-> "/reset-password"]

\* handleSubmit of the four public forms: the error goes, or stays, as each page has it.
\* Nothing disables the button while a call is under way.
SubmitPublicForm(kind) ==
    /\ CallRoom
    /\ OnPage(FormAt[kind])
    /\ accountCalls' = accountCalls \cup {NewCall(kind, called')}
    /\ pageView' = IF kind = "reset" THEN pageView ELSE [pageView EXCEPT !.error = FALSE]
    /\ UNCHANGED <<route, opened, mount, sessionView, role, serverRows, titleQuery, moves, mishaps>>

\* Verification starts when the page is mounted, and again when the language changes.
VerifyEffect ==
    /\ CallRoom /\ OnPage("/verify-email")
    /\ \/ pageView.status = "idle" /\ UNCHANGED mishaps
       \/ pageView.status # "idle" /\ Mishap
    /\ accountCalls' = accountCalls \cup {NewCall("verify", called')}
    /\ pageView' = [pageView EXCEPT !.status = "loading"]
    /\ UNCHANGED <<route, opened, mount, sessionView, role, serverRows, titleQuery, moves>>

TypeTitle ==
    /\ OnPage("/app/settings") /\ ~pageView.touched /\ pageView' = [pageView EXCEPT !.title = "typed", !.touched = TRUE]
    /\ UNCHANGED <<route, opened, mount, sessionView, role, calls, serverRows, titleQuery, moves, mishaps>>

SubmitSettings ==
    /\ CallRoom /\ OnPage("/app/settings")
    /\ \E email \in BOOLEAN :
        accountCalls' = accountCalls \cup
            {[NewCall("settings", called') EXCEPT !.title = pageView.title, !.email = email,
                                               !.seen = IF pageView.touched THEN NoData ELSE titleQuery.data]}
    /\ pageView' = [pageView EXCEPT !.error = FALSE, !.message = FALSE]
    /\ UNCHANGED <<route, opened, mount, sessionView, role, serverRows, titleQuery, moves, mishaps>>

Turn(c, step) == accountCalls' = (accountCalls \ {c}) \cup {[c EXCEPT !.phase = step]}

\* Mutant: a token may be used again.
TokenUsable(token) == TRUE

Usable(token) == token = "fresh"

Acceptable(c) ==
    /\ c.kind = "verify" => Usable(verifyToken)
    /\ c.kind = "reset" => Usable(resetToken)
    /\ c.kind = "settings" => account # "none"

\* The handlers of auth/service.go: a token serves once; the rest may be refused.
AccountCallHandled(c) ==
    /\ c.phase = "sent"
    /\ \/ /\ Acceptable(c)
          /\ verifyToken' = IF c.kind = "verify" THEN "consumed" ELSE verifyToken
          /\ resetToken' = IF c.kind = "reset" THEN "consumed" ELSE resetToken
          /\ password' = IF c.kind = "reset" THEN c.n ELSE password
          /\ tenantTitle' = IF c.kind = "settings" THEN c.title ELSE tenantTitle
          /\ remembered' = (c.kind = "login" \/ (remembered /\ c.kind # "reset"))
          /\ Turn(c, "ok")
          /\ UNCHANGED mishaps
       \/ /\ IF Acceptable(c) THEN Mishap ELSE UNCHANGED mishaps
          /\ Turn(c, "bad")
          /\ UNCHANGED <<verifyToken, resetToken, password, tenantTitle, remembered>>
    /\ UNCHANGED <<place, sessionView, role, called, titleQuery, moves>>

Here(c) == c.from = mount /\ ShowsPage(route, sessionLoading, account)

\* Login signs in and goes home; register and reset go to the login page, from wherever the
\* user is by now; forgot and verify say so, if their page is still there.
AccountCallSucceeds(c) ==
    /\ c.phase = "ok" /\ c.kind # "settings"
    /\ accountCalls' = accountCalls \ {c}
    /\ CASE c.kind = "login" ->
              /\ account' = role /\ sessionLoading' = FALSE /\ route' = Home(role) /\ opened' = "moved"
              /\ Mounts(Home(role), FALSE, role)
         [] c.kind \in {"register", "reset"} -> Navigate("/login") /\ opened' = "moved"
         [] OTHER ->
              /\ pageView' = IF ~Here(c) THEN pageView
                         ELSE IF c.kind = "verify" THEN [pageView EXCEPT !.status = "success"]
                         ELSE [pageView EXCEPT !.message = TRUE]
              /\ UNCHANGED <<route, opened, mount, sessionView, titleQuery>>
    /\ UNCHANGED <<role, called, serverRows, moves, mishaps>>

\* Mutant: the verification page says success once the call has ended.
FailsAsVerified(c) ==
    /\ c.phase = "bad"
    /\ accountCalls' = accountCalls \ {c}
    /\ pageView' = IF Here(c) THEN [pageView EXCEPT !.status = "success"] ELSE pageView
    /\ UNCHANGED <<route, opened, mount, sessionView, role, called, serverRows, titleQuery, moves, mishaps>>

\* A refusal, or an answer that is lost.
AccountCallFails(c) ==
    /\ \/ c.phase = "bad" /\ UNCHANGED mishaps
       \/ c.phase = "ok" /\ Mishap
    /\ accountCalls' = accountCalls \ {c}
    /\ pageView' = IF ~Here(c) THEN pageView
               ELSE IF c.kind = "verify" THEN [pageView EXCEPT !.status = "error"]
               ELSE [pageView EXCEPT !.error = TRUE, !.message = @ /\ c.kind # "forgot"]
    /\ UNCHANGED <<route, opened, mount, sessionView, role, called, serverRows, titleQuery, moves>>

-----------------------------------------------------------------------------
(* Settings: the profile is answered, then the status is fetched, then it is said to be saved *)

\* A new e-mail address or name is a new user: the form is filled again, with the old title.
ProfileUpdated(c) ==
    /\ c.kind = "settings" /\ c.phase = "ok"
    /\ Turn(c, "fetching")
    /\ pageView' = IF c.email /\ OnPage("/app/settings") THEN FilledForm(pageView, titleQuery.data) ELSE pageView
    /\ titleQuery' = Invalidated(titleQuery)
    /\ UNCHANGED <<route, opened, mount, sessionView, role, called, serverRows, moves, mishaps>>

SettingsSaved(c) ==
    /\ c.kind = "settings" /\ c.phase = "fetching" /\ titleQuery.flight = "idle"
    /\ accountCalls' = accountCalls \ {c}
    /\ pageView' = IF Here(c) THEN [pageView EXCEPT !.message = TRUE] ELSE pageView
    /\ UNCHANGED <<route, opened, mount, sessionView, role, called, serverRows, titleQuery, moves, mishaps>>

TitleAnswered ==
    /\ titleQuery.flight = "sent"
    /\ titleQuery' = Answered(titleQuery, tenantTitle)
    /\ UNCHANGED <<place, sessionView, role, calls, serverRows, moves, mishaps>>

\* The effect runs when the title is another one. A fetch that fails is not an error to refetch().
TitleArrives ==
    /\ titleQuery.flight = "answered"
    /\ \/ /\ titleQuery' = Settled(titleQuery)
          /\ pageView' = IF OnPage("/app/settings") /\ titleQuery.got # titleQuery.data
                     THEN FilledForm(pageView, titleQuery.got) ELSE pageView
          /\ UNCHANGED mishaps
       \/ titleQuery' = Failed(titleQuery) /\ Mishap /\ UNCHANGED pageView
    /\ UNCHANGED <<route, opened, mount, sessionView, role, calls, serverRows, moves>>

\* The public page opens one domain at a time, and closes it again.
ToggleStatusDomain(d) ==
    /\ OnPage("/status") /\ moves < MaxMoves /\ moves' = moves + 1
    /\ pageView' = [pageView EXCEPT !.open = IF @ = d THEN 0 ELSE d]
    /\ UNCHANGED <<route, opened, mount, sessionView, role, calls, serverRows, titleQuery, mishaps>>

-----------------------------------------------------------------------------
AccountInit ==
    /\ route \in OpenedAt /\ opened = route
    /\ sessionLoading = TRUE /\ account = "none"
    /\ role \in {"tenant_owner", "super_admin"} /\ remembered \in BOOLEAN
    /\ mount = 0 /\ pageView = NewView
    /\ accountCalls = {} /\ called = 0
    /\ verifyToken = "fresh" /\ resetToken = "fresh" /\ password = 0
    /\ tenantTitle = "stored" /\ titleQuery = Blank
    /\ moves = 0 /\ mishaps = 0

AccountAnswers ==
    \/ \E c \in accountCalls : AccountCallHandled(c) \/ AccountCallSucceeds(c) \/ AccountCallFails(c)
                               \/ ProfileUpdated(c) \/ SettingsSaved(c)
    \/ TitleAnswered \/ TitleArrives

AccountNext ==
    \/ Redirecting \/ SessionRestored \/ SessionEnds \/ AccountAnswers
    \/ \E to \in Routes : FollowLink(to)
    \/ \E kind \in {"login", "register", "forgot", "reset"} : SubmitPublicForm(kind)
    \/ VerifyEffect \/ TypeTitle \/ SubmitSettings
    \/ \E d \in {1, 2} : ToggleStatusDomain(d)

AccountFairness == WF_accountVars(Redirecting) /\ WF_accountVars(SessionRestored)
                   /\ WF_accountVars(AccountAnswers)

AccountSpec == AccountInit /\ [][AccountNext]_accountVars /\ AccountFairness

-----------------------------------------------------------------------------
\* Where a user belongs who opened the application at an address.
Landing(at, who) ==
    IF at = "/" \/ at \in PublicOnlyPages THEN Home(who)
    ELSE IF at = "/admin" /\ who # "super_admin" THEN "/app" ELSE at

\* A reload, or a link opened by a signed-in user, ends at the page it names: what happens
\* while the session is being restored does not lose it to the login page.
DeepLinkSurvives ==
    (~sessionLoading /\ account # "none" /\ opened # "moved" /\ ShowsPage(route, sessionLoading, account))
        => route = Landing(opened, account)

\* Saving settings nobody has typed into keeps the public title, if the form was filled with
\* the stored one; so an answer to another save or a new address has not emptied the form.
UntouchedSettingsKept ==
    [][\A c \in accountCalls :
        (c.kind = "settings" /\ c.phase = "sent" /\ c.seen # NoData /\ c.seen = tenantTitle
         /\ [c EXCEPT !.phase = "ok"] \in accountCalls')
        => tenantTitle' = tenantTitle]_accountVars

\* A reset link that took the user to the login page has set the password typed there, also
\* when the form was sent twice.
ResetSetsThePassword ==
    \A c \in accountCalls : (c.kind = "reset" /\ c.phase = "ok") => password = c.n

\* The page that says an address is verified is right; one that says it is not had a call or
\* an answer fail, or has sent the token again in another language.
VerifiedIsSaid ==
    OnPage("/verify-email") =>
        /\ pageView.status = "success" => verifyToken = "consumed"
        /\ pageView.status = "error" => mishaps > 0
=============================================================================
