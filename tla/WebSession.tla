------------------------------ MODULE WebSession ------------------------------
(***************************************************************************)
(* The signed-in session of a browser page: the access token and the user  *)
(* kept in memory (lib/auth.tsx), the 401 that makes a request refresh and *)
(* try once more (lib/api.ts), and the refresh cookie that the server      *)
(* rotates (auth/service.go, httpapi/handlers_auth.go).                    *)
(*                                                                         *)
(* A session, the refresh token naming it and the access token issued with *)
(* it are one number, in the order of issue; 0 is none. An exchange is a   *)
(* request that changes the cookie: a refresh, a login or a logout. It has *)
(* a step at the server and a step where its answer arrives, and a refresh *)
(* two at the server: Refresh reads the session before the transaction     *)
(* that revokes it.                                                        *)
(***************************************************************************)
EXTENDS Naturals, FiniteSets

CONSTANTS
    Call,         \* requests of the page, each one at a time
    ProfileCall,  \* those that are updateProfile
    MaxSessions,  \* bound: sessions issued
    MaxFaults     \* bound: answers lost, reloads, sessions ended by the server

ASSUME SessionAssumption ==
    /\ ProfileCall \subseteq Call
    /\ MaxSessions \in Nat \ {0} /\ MaxFaults \in Nat
    /\ {"boot", "login", "logout"} \cap Call = {}

VARIABLES
    \* the server
    live,       \* sessions that are not revoked
    issued,     \* how many there have been
    expiredTo,  \* access tokens up to this one have expired
    disabled,   \* the tenant is
    \* the browser
    cookie, accessToken, user, loading,
    phase,      \* of each request in flight
    carried,    \* the token it carries: its access token, its cookie or its new session
    mayRefresh, \* the argument retry of authenticatedFetch
    \* bookkeeping
    excuse,     \* the first event that may cost the page its session
    faults

serverVars  == <<live, issued, expiredTo, disabled>>
pageVars    == <<cookie, accessToken, user, loading>>
flightVars  == <<phase, carried, mayRefresh>>
historyVars == <<excuse, faults>>
sessionVars == <<serverVars, pageVars, flightVars, historyVars>>

Flow    == Call \cup {"boot", "login", "logout"}
Refresher == Call \cup {"boot"}

Exchanging(f) == \/ phase[f] \in {"refreshing", "read", "rotated", "refused"}
                 \/ f \in {"login", "logout"} /\ phase[f] # "idle"
Overlaps(f)   == \E g \in Flow \ {f} : Exchanging(g)

\* A refresh may be lost within the bound, and must be when no session is left to give it.
CanFail == faults < MaxFaults \/ issued = MaxSessions
Spent   == IF faults < MaxFaults THEN faults + 1 ELSE faults

Blame(what) == IF excuse = "none" THEN what ELSE excuse

Become(f, ph, tok) == /\ phase' = [phase EXCEPT ![f] = ph]
                      /\ carried' = [carried EXCEPT ![f] = tok]

\* An exchange is sent: it carries the cookie the browser has now.
SendExchange(f, ph) ==
    /\ Become(f, ph, cookie)
    /\ excuse' = IF Overlaps(f) THEN Blame("overlap") ELSE excuse

-----------------------------------------------------------------------------
(* The page loads with no cookie, with that of a live session or of an ended one, *)
(* and AuthProvider's effect refreshes.                                           *)

SessionInit ==
    /\ issued = 1 /\ live \in {{}, {1}} /\ cookie \in {0, 1}
    /\ (cookie = 0) => (live = {})
    /\ expiredTo = 1 /\ disabled = FALSE
    /\ accessToken = 0 /\ user = FALSE /\ loading = TRUE
    /\ phase = [f \in Flow |-> IF f = "boot" THEN "refreshing" ELSE "idle"]
    /\ carried = [f \in Flow |-> IF f = "boot" THEN cookie ELSE 0]
    /\ mayRefresh = [f \in Flow |-> FALSE]
    /\ excuse = "none" /\ faults = 0

\* The pages behind ProtectedShell make requests, with the token of the moment.
StartCall(c) ==
    /\ user /\ ~loading /\ phase[c] = "idle"
    /\ Become(c, "sent", accessToken)
    /\ mayRefresh' = [mayRefresh EXCEPT ![c] = TRUE]
    /\ UNCHANGED <<serverVars, pageVars, historyVars>>

\* requireAuth: 401 for a token that is missing or has expired, 403 for a disabled tenant.
RequireAuth(c) ==
    /\ c \in Call /\ phase[c] = "sent"
    /\ Become(c, IF carried[c] <= expiredTo THEN "unauthorized"
                 ELSE IF disabled THEN "forbidden" ELSE "served", 0)
    /\ UNCHANGED <<serverVars, pageVars, mayRefresh, historyVars>>

\* authenticatedFetch: the first 401 asks refreshHandler, a second one is the answer.
CallDenied(c) ==
    /\ phase[c] = "unauthorized"
    /\ IF mayRefresh[c]
       THEN SendExchange(c, "refreshing")
       ELSE Become(c, "idle", 0) /\ UNCHANGED excuse
    /\ mayRefresh' = [mayRefresh EXCEPT ![c] = FALSE]
    /\ UNCHANGED <<serverVars, pageVars, faults>>

\* Another answer settles the call; updateProfile stores the user it names.
CallAnswered(c) ==
    /\ phase[c] \in {"served", "forbidden"}
    /\ IF c \in ProfileCall /\ phase[c] = "served"
       THEN user' = TRUE /\ excuse' = IF user THEN excuse ELSE Blame("late profile")
       ELSE UNCHANGED <<user, excuse>>
    /\ Become(c, "idle", 0)
    /\ mayRefresh' = [mayRefresh EXCEPT ![c] = FALSE]
    /\ UNCHANGED <<serverVars, cookie, accessToken, loading, faults>>

-----------------------------------------------------------------------------
(* POST /auth/refresh *)

\* Refresh: the session of the cookie must exist, be unrevoked and of an active tenant.
RefreshReads(f) ==
    /\ phase[f] = "refreshing"
    /\ IF carried[f] \in live /\ ~disabled
       THEN Become(f, "read", carried[f])
       ELSE Become(f, "refused", 0)
    /\ UNCHANGED <<serverVars, pageVars, mayRefresh, historyVars>>

\* Mutant: the transaction creates the new session and does not revoke the old one.
RotateWithoutRevoking(f) ==
    /\ phase[f] = "read"
    /\ issued < MaxSessions
    /\ issued' = issued + 1
    /\ live' = live \cup {issued'}
    /\ Become(f, "rotated", issued')
    /\ UNCHANGED <<expiredTo, disabled, pageVars, mayRefresh, historyVars>>

\* Its transaction revokes that session, whatever has become of it, and creates the next.
RefreshRotates(f) ==
    /\ phase[f] = "read"
    /\ issued < MaxSessions
    /\ issued' = issued + 1
    /\ live' = (live \ {carried[f]}) \cup {issued'}
    /\ Become(f, "rotated", issued')
    /\ UNCHANGED <<expiredTo, disabled, pageVars, mayRefresh, historyVars>>

\* What the flow does when refreshSession returns: the effect of AuthProvider ends the
\* loading, a request is sent again with the token or fails with the 401 it had.
Resume(f, tok) ==
    IF f = "boot"
    THEN Become(f, "idle", 0) /\ loading' = FALSE
    ELSE (IF tok = 0 THEN Become(f, "idle", 0) ELSE Become(f, "sent", tok)) /\ UNCHANGED loading

\* Mutant: the answer's Set-Cookie is not kept (credentials left out of the request).
RefreshArrivesWithoutCookie(f) ==
    /\ phase[f] = "rotated"
    /\ accessToken' = carried[f] /\ user' = TRUE
    /\ Resume(f, carried[f])
    /\ UNCHANGED <<serverVars, cookie, mayRefresh, historyVars>>

\* refreshSession: applyAuthPayload, after the browser has stored the cookie.
RefreshArrives(f) ==
    /\ phase[f] = "rotated"
    /\ cookie' = carried[f]
    /\ accessToken' = carried[f] /\ user' = TRUE
    /\ Resume(f, carried[f])
    /\ UNCHANGED <<serverVars, mayRefresh, historyVars>>

\* Its catch: a refusal, or no answer at all, signs the page out.
RefreshRefused(f) ==
    /\ phase[f] = "refused"
    /\ accessToken' = 0 /\ user' = FALSE
    /\ Resume(f, 0)
    /\ UNCHANGED <<serverVars, cookie, mayRefresh, historyVars>>

\* Mutant: no catch, so nothing after the await runs when the request fails.
RefreshThrows(f) ==
    /\ f \in Refresher /\ phase[f] \in {"refreshing", "read", "rotated", "refused"}
    /\ CanFail
    /\ faults' = Spent /\ excuse' = Blame("lost")
    /\ Become(f, "idle", 0)
    /\ UNCHANGED <<serverVars, pageVars, mayRefresh>>

RefreshLost(f) ==
    /\ f \in Refresher /\ phase[f] \in {"refreshing", "read", "rotated", "refused"}
    /\ CanFail
    /\ faults' = Spent /\ excuse' = Blame("lost")
    /\ accessToken' = 0 /\ user' = FALSE
    /\ Resume(f, 0)
    /\ UNCHANGED <<serverVars, cookie, mayRefresh>>

-----------------------------------------------------------------------------
(* Signing in and out *)

SendLogin ==
    /\ ~user /\ ~loading /\ phase["login"] = "idle"
    /\ SendExchange("login", "sent")
    /\ UNCHANGED <<serverVars, pageVars, mayRefresh, faults>>

\* Login creates a session, or refuses a wrong password or a disabled tenant.
Login ==
    /\ phase["login"] = "sent"
    /\ \/ /\ ~disabled /\ issued < MaxSessions
          /\ issued' = issued + 1 /\ live' = live \cup {issued'}
          /\ Become("login", "granted", issued')
       \/ /\ Become("login", "idle", 0)
          /\ UNCHANGED <<live, issued>>
    /\ UNCHANGED <<expiredTo, disabled, pageVars, mayRefresh, historyVars>>

LoginArrives ==
    /\ phase["login"] = "granted"
    /\ cookie' = carried["login"]
    /\ accessToken' = carried["login"] /\ user' = TRUE
    /\ Become("login", "idle", 0)
    /\ UNCHANGED <<serverVars, loading, mayRefresh, excuse, faults>>

SendLogout ==
    /\ user /\ phase["logout"] = "idle"
    /\ SendExchange("logout", "sent")
    /\ UNCHANGED <<serverVars, pageVars, mayRefresh, faults>>

\* Logout revokes the session of the cookie it was sent, if it is still there.
Logout ==
    /\ phase["logout"] = "sent"
    /\ live' = live \ {carried["logout"]}
    /\ Become("logout", "ended", 0)
    /\ UNCHANGED <<issued, expiredTo, disabled, pageVars, mayRefresh, historyVars>>

\* The answer deletes the cookie, whichever the browser has by now.
LogoutArrives ==
    /\ phase["logout"] = "ended"
    /\ cookie' = 0
    /\ accessToken' = 0 /\ user' = FALSE
    /\ Become("logout", "idle", 0)
    /\ UNCHANGED <<serverVars, loading, mayRefresh, historyVars>>

\* The finally of logout: signed out although the server may not know.
LogoutLost ==
    /\ phase["logout"] \in {"sent", "ended"} /\ faults < MaxFaults
    /\ faults' = faults + 1 /\ excuse' = Blame("lost")
    /\ accessToken' = 0 /\ user' = FALSE
    /\ Become("logout", "idle", 0)
    /\ UNCHANGED <<serverVars, cookie, loading, mayRefresh>>

-----------------------------------------------------------------------------
(* The environment: tokens expire, the server ends sessions, the page is reloaded. *)

AccessExpires ==
    /\ expiredTo < issued
    /\ expiredTo' = issued
    /\ UNCHANGED <<live, issued, disabled, pageVars, flightVars, historyVars>>

\* handleAdminUpdateTenantStatus, or a password reset, which disables nothing.
EndSessions ==
    /\ faults < MaxFaults /\ faults' = faults + 1
    /\ live' = {}
    /\ disabled' \in BOOLEAN
    /\ excuse' = Blame("ended")
    /\ UNCHANGED <<issued, expiredTo, pageVars, flightVars>>

\* Requests in flight die with the page; the browser keeps its cookie.
Reload ==
    /\ faults < MaxFaults /\ faults' = faults + 1
    /\ excuse' = IF \E f \in Flow : Exchanging(f) THEN Blame("lost") ELSE excuse
    /\ accessToken' = 0 /\ user' = FALSE /\ loading' = TRUE
    /\ phase' = [f \in Flow |-> IF f = "boot" THEN "refreshing" ELSE "idle"]
    /\ carried' = [f \in Flow |-> IF f = "boot" THEN cookie ELSE 0]
    /\ mayRefresh' = [f \in Flow |-> FALSE]
    /\ UNCHANGED <<serverVars, cookie>>

-----------------------------------------------------------------------------
Refreshing(f) == \/ RefreshReads(f) \/ RefreshRotates(f) \/ RefreshArrives(f)
                 \/ RefreshRefused(f) \/ RefreshLost(f)

Calling(c) == RequireAuth(c) \/ CallDenied(c) \/ CallAnswered(c)

SigningInOrOut == SendLogin \/ Login \/ LoginArrives
                  \/ SendLogout \/ Logout \/ LogoutArrives \/ LogoutLost

SessionNext ==
    \/ \E c \in Call : StartCall(c) \/ Calling(c)
    \/ \E f \in Refresher : Refreshing(f)
    \/ SigningInOrOut
    \/ AccessExpires \/ EndSessions \/ Reload

\* A request that reaches the server is handled and answered, or known to be lost.
SessionFairness ==
    /\ \A c \in Call : WF_sessionVars(Calling(c))
    /\ \A f \in Refresher : WF_sessionVars(Refreshing(f))
    /\ WF_sessionVars(Login \/ LoginArrives)
    /\ WF_sessionVars(Logout \/ LogoutArrives \/ LogoutLost)

SessionSpec     == SessionInit /\ [][SessionNext]_sessionVars
SessionFairSpec == SessionSpec /\ SessionFairness

-----------------------------------------------------------------------------
(* What the session promises *)

Phase == {"idle", "sent", "unauthorized", "forbidden", "served", "refreshing", "read", "rotated",
          "refused", "granted", "ended"}

NumbersOK == /\ issued \in 1..MaxSessions /\ live \subseteq 1..issued /\ expiredTo \in 0..issued
             /\ cookie \in 0..issued /\ accessToken \in 0..issued /\ faults \in 0..MaxFaults
FlagsOK   == /\ disabled \in BOOLEAN /\ user \in BOOLEAN /\ loading \in BOOLEAN
             /\ mayRefresh \in [Flow -> BOOLEAN]
FlightsOK == phase \in [Flow -> Phase] /\ carried \in [Flow -> 0..issued]
ExcuseOK  == excuse \in {"none", "overlap", "late profile", "lost", "ended"}

SessionTypeOK == NumbersOK /\ FlagsOK /\ FlightsOK /\ ExcuseOK

\* A page that has loaded shows the login form only if no session of the user is live, or they
\* are signing in: refreshes one after the other never cost a session, and a logout never
\* leaves one. (Two at once may: the later one finds its cookie revoked.)
SignedOutOnlyForCause ==
    (~user /\ ~loading /\ excuse = "none") => (live = {} \/ phase["login"] # "idle")

\* Between exchanges, as long as none overlapped, was lost or was undone by the server, the
\* page, its cookie and the server's sessions agree: no session is left behind unrevoked,
\* and after a logout none is left at all.
SessionsAgree ==
    (~loading /\ excuse = "none" /\ \A f \in Flow : ~Exchanging(f))
        => /\ live = IF user THEN {cookie} ELSE {}
           /\ accessToken = IF user THEN cookie ELSE 0
=============================================================================
