-------------------------- MODULE WebSession_proofs --------------------------
(***************************************************************************)
(* Proofs about the session of a page, for any number of requests, and     *)
(* about the router and the pages around an account.                       *)
(*                                                                         *)
(* Neither promise of WebSession.tla is inductive: whether page, cookie    *)
(* and server agree after an exchange depends on where it was. OneExchange *)
(* says it of every phase, as long as nothing that may cost the session    *)
(* has happened: there is one exchange at a time, and each phase of it     *)
(* knows which session is the live one.                                    *)
(***************************************************************************)
EXTENDS WebSession, AccountPages, FiniteSetTheorems, TLAPS

\* Page, cookie and server agree.
Agreed ==
    /\ live = IF user THEN {cookie} ELSE {}
    /\ accessToken = IF user THEN cookie ELSE 0

\* The phases each flow can be in; the page is loading while the first refresh is under way.
PhasesOK ==
    /\ phase["boot"] \in {"idle", "refreshing", "read", "rotated", "refused"}
    /\ loading <=> phase["boot"] # "idle"
    /\ phase["login"] \in {"idle", "sent", "granted"}
    /\ phase["logout"] \in {"idle", "sent", "ended"}
    /\ \A c \in Call : phase[c] \notin {"granted", "ended"}

\* What each phase of a refresh knows.
RefreshKnows(f) ==
    /\ phase[f] = "refreshing" =>
        /\ carried[f] = cookie
        /\ f = "boot" => ~user /\ live \in {{}, {cookie}}
        /\ f # "boot" => Agreed
    /\ phase[f] = "read" => carried[f] = cookie /\ live = {cookie} /\ (f = "boot" \/ user)
    /\ phase[f] = "rotated" => live = {carried[f]} /\ (f = "boot" \/ user)
    /\ phase[f] = "refused" => live = {}

LoginKnows ==
    /\ phase["login"] = "sent" => ~user /\ Agreed
    /\ phase["login"] = "granted" => ~user /\ live = {carried["login"]}

LogoutKnows ==
    /\ phase["logout"] = "sent" => Agreed /\ user /\ carried["logout"] = cookie
    /\ phase["logout"] = "ended" => live = {}

OneExchange ==
    /\ ~disabled
    /\ \A f, g \in Flow : Exchanging(f) /\ Exchanging(g) => f = g
    /\ (\A f \in Flow : ~Exchanging(f)) => Agreed
    /\ \A f \in Refresher : RefreshKnows(f)
    /\ LoginKnows
    /\ LogoutKnows

SessionIInv ==
    /\ SessionTypeOK
    /\ PhasesOK
    /\ excuse = "none" => OneExchange

-----------------------------------------------------------------------------
\* The first state: nothing but the first refresh is under way.
LEMMA SessionInitTypeOK == SessionInit => SessionTypeOK
<1> SUFFICES ASSUME SessionInit PROVE SessionTypeOK
  OBVIOUS
<1>1. NumbersOK
  BY SessionAssumption DEF SessionInit, NumbersOK
<1>2. FlagsOK
  BY DEF SessionInit, FlagsOK
<1>3. phase \in [Flow -> Phase]
  BY DEF SessionInit, Phase
<1>4. carried \in [Flow -> 0..issued]
  BY <1>1 DEF SessionInit, NumbersOK
<1>5. ExcuseOK
  BY DEF SessionInit, ExcuseOK
<1> QED
  BY <1>1, <1>2, <1>3, <1>4, <1>5 DEF SessionTypeOK, FlightsOK

\* A flow that goes to another phase, with a token that was issued, is still a flow.
LEMMA BecomeTyped ==
  ASSUME FlightsOK, issued \in Nat, issued' \in Nat, issued <= issued',
         NEW f \in Flow, NEW ph \in Phase, NEW tok \in 0..issued', Become(f, ph, tok)
  PROVE  FlightsOK'
<1>1. phase' \in [Flow -> Phase]
  BY DEF FlightsOK, Become
<1>2. 0..issued \subseteq 0..issued'
  OBVIOUS
<1>3. carried \in [Flow -> 0..issued']
  BY <1>2 DEF FlightsOK
<1>4. carried' \in [Flow -> 0..issued']
  BY <1>3 DEF Become
<1> QED
  BY <1>1, <1>4 DEF FlightsOK

\* Every step keeps every variable in its range; sessions are numbered up to the ones issued.
LEMMA SessionStepTypeOK == SessionTypeOK /\ [SessionNext]_sessionVars => SessionTypeOK'
<1> SUFFICES ASSUME SessionTypeOK, [SessionNext]_sessionVars PROVE SessionTypeOK'
  OBVIOUS
<1> USE SessionAssumption DEF serverVars, pageVars, historyVars
<1>n. NumbersOK
  BY DEF SessionTypeOK
<1>b. FlagsOK
  BY DEF SessionTypeOK
<1>w. FlightsOK
  BY DEF SessionTypeOK
<1>h. ExcuseOK
  BY DEF SessionTypeOK
<1>i. issued \in Nat
  BY <1>n DEF NumbersOK
<1>a. \A f \in Flow : phase[f] \in Phase /\ carried[f] \in 0..issued
  BY <1>w DEF FlightsOK
<1>f. Call \subseteq Flow /\ Refresher \subseteq Flow /\ "boot" \in Flow /\ "login" \in Flow /\ "logout" \in Flow
  BY DEF Flow, Refresher
<1>p. {"idle", "sent", "unauthorized", "forbidden", "served", "refreshing", "read", "rotated", "refused",
       "granted", "ended"} \subseteq Phase
  BY DEF Phase
<1>1. ASSUME NEW c \in Call, StartCall(c) PROVE SessionTypeOK'
  <2>1. NumbersOK' /\ issued' \in Nat /\ issued <= issued'
    BY <1>1, <1>n, <1>a, <1>f DEF StartCall, NumbersOK
  <2>2. FlagsOK'
    BY <1>1, <1>b, <1>f DEF StartCall, FlagsOK
  <2>3. FlightsOK'
    BY <1>1, <2>1, <1>n, <1>i, <1>a, <1>f, <1>p, <1>w, BecomeTyped DEF StartCall, NumbersOK
  <2>4. ExcuseOK'
    BY <1>1, <1>h DEF StartCall, ExcuseOK
  <2> QED
    BY <2>1, <2>2, <2>3, <2>4 DEF SessionTypeOK
<1>2. ASSUME NEW c \in Call, RequireAuth(c) PROVE SessionTypeOK'
  <2>1. NumbersOK' /\ issued' \in Nat /\ issued <= issued'
    BY <1>2, <1>n, <1>a, <1>f DEF RequireAuth, NumbersOK
  <2>2. FlagsOK'
    BY <1>2, <1>b, <1>f DEF RequireAuth, FlagsOK
  <2>3. FlightsOK'
    BY <1>2, <2>1, <1>n, <1>i, <1>a, <1>f, <1>p, <1>w, BecomeTyped DEF RequireAuth, NumbersOK
  <2>4. ExcuseOK'
    BY <1>2, <1>h DEF RequireAuth, ExcuseOK
  <2> QED
    BY <2>1, <2>2, <2>3, <2>4 DEF SessionTypeOK
<1>3. ASSUME NEW c \in Call, CallDenied(c) PROVE SessionTypeOK'
  <2>1. NumbersOK' /\ issued' \in Nat /\ issued <= issued'
    BY <1>3, <1>n, <1>a, <1>f DEF CallDenied, SendExchange, Blame, NumbersOK
  <2>2. FlagsOK'
    BY <1>3, <1>b, <1>f DEF CallDenied, SendExchange, Blame, FlagsOK
  <2>3. FlightsOK'
    BY <1>3, <2>1, <1>n, <1>i, <1>a, <1>f, <1>p, <1>w, BecomeTyped DEF CallDenied, SendExchange, Blame, NumbersOK
  <2>4. ExcuseOK'
    BY <1>3, <1>h DEF CallDenied, SendExchange, Blame, ExcuseOK
  <2> QED
    BY <2>1, <2>2, <2>3, <2>4 DEF SessionTypeOK
<1>4. ASSUME NEW c \in Call, CallAnswered(c) PROVE SessionTypeOK'
  <2>1. NumbersOK' /\ issued' \in Nat /\ issued <= issued'
    <3>1. UNCHANGED <<issued, live, expiredTo, cookie, accessToken, faults>>
      BY <1>4 DEF CallAnswered
    <3> QED
      BY <3>1, <1>n, <1>i DEF NumbersOK
  <2>2. FlagsOK'
    BY <1>4, <1>b, <1>f DEF CallAnswered, Blame, FlagsOK
  <2>3. FlightsOK'
    <3>1. Become(c, "idle", 0)
      BY <1>4 DEF CallAnswered
    <3> QED
      BY <3>1, <2>1, <1>i, <1>f, <1>p, <1>w, BecomeTyped
  <2>4. ExcuseOK'
    BY <1>4, <1>h DEF CallAnswered, Blame, ExcuseOK
  <2> QED
    BY <2>1, <2>2, <2>3, <2>4 DEF SessionTypeOK
<1>5. ASSUME NEW f \in Refresher, RefreshReads(f) PROVE SessionTypeOK'
  <2>1. NumbersOK' /\ issued' \in Nat /\ issued <= issued'
    BY <1>5, <1>n, <1>a, <1>f DEF RefreshReads, NumbersOK
  <2>2. FlagsOK'
    BY <1>5, <1>b, <1>f DEF RefreshReads, FlagsOK
  <2>3. FlightsOK'
    BY <1>5, <2>1, <1>n, <1>i, <1>a, <1>f, <1>p, <1>w, BecomeTyped DEF RefreshReads, NumbersOK
  <2>4. ExcuseOK'
    BY <1>5, <1>h DEF RefreshReads, ExcuseOK
  <2> QED
    BY <2>1, <2>2, <2>3, <2>4 DEF SessionTypeOK
<1>6. ASSUME NEW f \in Refresher, RefreshRotates(f) PROVE SessionTypeOK'
  <2>1. NumbersOK' /\ issued' \in Nat /\ issued <= issued'
    <3>1. /\ issued < MaxSessions /\ issued' = issued + 1 /\ live' \subseteq live \cup {issued'}
          /\ UNCHANGED <<expiredTo, cookie, accessToken, faults>>
      BY <1>6 DEF RefreshRotates
    <3>2. 0..issued \subseteq 0..issued' /\ 1..issued \subseteq 1..issued' /\ issued' \in 1..MaxSessions
      BY <3>1, <1>n DEF NumbersOK
    <3>3. live' \subseteq 1..issued'
      BY <3>1, <3>2, <1>n DEF NumbersOK
    <3> QED
      BY <3>1, <3>2, <3>3, <1>n, <1>i DEF NumbersOK
  <2>2. FlagsOK'
    BY <1>6, <1>b, <1>f DEF RefreshRotates, FlagsOK
  <2>3. FlightsOK'
    BY <1>6, <2>1, <1>n, <1>i, <1>a, <1>f, <1>p, <1>w, BecomeTyped DEF RefreshRotates, NumbersOK
  <2>4. ExcuseOK'
    BY <1>6, <1>h DEF RefreshRotates, ExcuseOK
  <2> QED
    BY <2>1, <2>2, <2>3, <2>4 DEF SessionTypeOK
<1>7. ASSUME NEW f \in Refresher, RefreshArrives(f) PROVE SessionTypeOK'
  <2>1. NumbersOK' /\ issued' \in Nat /\ issued <= issued'
    BY <1>7, <1>n, <1>a, <1>f DEF RefreshArrives, Resume, NumbersOK
  <2>2. FlagsOK'
    BY <1>7, <1>b, <1>f DEF RefreshArrives, Resume, FlagsOK
  <2>3. FlightsOK'
    BY <1>7, <2>1, <1>n, <1>i, <1>a, <1>f, <1>p, <1>w, BecomeTyped DEF RefreshArrives, Resume, NumbersOK
  <2>4. ExcuseOK'
    BY <1>7, <1>h DEF RefreshArrives, Resume, ExcuseOK
  <2> QED
    BY <2>1, <2>2, <2>3, <2>4 DEF SessionTypeOK
<1>8. ASSUME NEW f \in Refresher, RefreshRefused(f) PROVE SessionTypeOK'
  <2>1. NumbersOK' /\ issued' \in Nat /\ issued <= issued'
    BY <1>8, <1>n, <1>a, <1>f DEF RefreshRefused, Resume, NumbersOK
  <2>2. FlagsOK'
    BY <1>8, <1>b, <1>f DEF RefreshRefused, Resume, FlagsOK
  <2>3. FlightsOK'
    BY <1>8, <2>1, <1>n, <1>i, <1>a, <1>f, <1>p, <1>w, BecomeTyped DEF RefreshRefused, Resume, NumbersOK
  <2>4. ExcuseOK'
    BY <1>8, <1>h DEF RefreshRefused, Resume, ExcuseOK
  <2> QED
    BY <2>1, <2>2, <2>3, <2>4 DEF SessionTypeOK
<1>9. ASSUME NEW f \in Refresher, RefreshLost(f) PROVE SessionTypeOK'
  <2>1. NumbersOK' /\ issued' \in Nat /\ issued <= issued'
    BY <1>9, <1>n, <1>a, <1>f DEF RefreshLost, Resume, CanFail, Spent, Blame, NumbersOK
  <2>2. FlagsOK'
    BY <1>9, <1>b, <1>f DEF RefreshLost, Resume, CanFail, Spent, Blame, FlagsOK
  <2>3. FlightsOK'
    BY <1>9, <2>1, <1>n, <1>i, <1>a, <1>f, <1>p, <1>w, BecomeTyped DEF RefreshLost, Resume, CanFail, Spent, Blame, NumbersOK
  <2>4. ExcuseOK'
    BY <1>9, <1>h DEF RefreshLost, Resume, CanFail, Spent, Blame, ExcuseOK
  <2> QED
    BY <2>1, <2>2, <2>3, <2>4 DEF SessionTypeOK
<1>10. CASE SendLogin
  <2>1. NumbersOK' /\ issued' \in Nat /\ issued <= issued'
    BY <1>10, <1>n, <1>a, <1>f DEF SendLogin, SendExchange, Blame, NumbersOK
  <2>2. FlagsOK'
    BY <1>10, <1>b, <1>f DEF SendLogin, SendExchange, Blame, FlagsOK
  <2>3. FlightsOK'
    BY <1>10, <2>1, <1>n, <1>i, <1>a, <1>f, <1>p, <1>w, BecomeTyped DEF SendLogin, SendExchange, Blame, NumbersOK
  <2>4. ExcuseOK'
    BY <1>10, <1>h DEF SendLogin, SendExchange, Blame, ExcuseOK
  <2> QED
    BY <2>1, <2>2, <2>3, <2>4 DEF SessionTypeOK
<1>11. CASE Login
  <2>1. NumbersOK' /\ issued' \in Nat /\ issued <= issued'
    <3>1. CASE UNCHANGED <<live, issued>>
      BY <1>11, <3>1, <1>n, <1>i DEF Login, NumbersOK
    <3>2. CASE issued < MaxSessions /\ issued' = issued + 1 /\ live' = live \cup {issued'}
      <4>1. /\ issued < MaxSessions /\ issued' = issued + 1 /\ live' \subseteq live \cup {issued'}
            /\ UNCHANGED <<expiredTo, cookie, accessToken, faults>>
        BY <1>11, <3>2 DEF Login
      <4>2. 0..issued \subseteq 0..issued' /\ 1..issued \subseteq 1..issued' /\ issued' \in 1..MaxSessions
        BY <4>1, <1>n DEF NumbersOK
      <4>3. live' \subseteq 1..issued'
        BY <4>1, <4>2, <1>n DEF NumbersOK
      <4> QED
        BY <4>1, <4>2, <4>3, <1>n, <1>i DEF NumbersOK
    <3> QED
      BY <1>11, <3>1, <3>2 DEF Login
  <2>2. FlagsOK'
    BY <1>11, <1>b, <1>f DEF Login, FlagsOK
  <2>3. FlightsOK'
    BY <1>11, <2>1, <1>n, <1>i, <1>a, <1>f, <1>p, <1>w, BecomeTyped DEF Login, NumbersOK
  <2>4. ExcuseOK'
    BY <1>11, <1>h DEF Login, ExcuseOK
  <2> QED
    BY <2>1, <2>2, <2>3, <2>4 DEF SessionTypeOK
<1>12. CASE LoginArrives
  <2>1. NumbersOK' /\ issued' \in Nat /\ issued <= issued'
    BY <1>12, <1>n, <1>a, <1>f DEF LoginArrives, NumbersOK
  <2>2. FlagsOK'
    BY <1>12, <1>b, <1>f DEF LoginArrives, FlagsOK
  <2>3. FlightsOK'
    BY <1>12, <2>1, <1>n, <1>i, <1>a, <1>f, <1>p, <1>w, BecomeTyped DEF LoginArrives, NumbersOK
  <2>4. ExcuseOK'
    BY <1>12, <1>h DEF LoginArrives, ExcuseOK
  <2> QED
    BY <2>1, <2>2, <2>3, <2>4 DEF SessionTypeOK
<1>13. CASE SendLogout
  <2>1. NumbersOK' /\ issued' \in Nat /\ issued <= issued'
    BY <1>13, <1>n, <1>a, <1>f DEF SendLogout, SendExchange, Blame, NumbersOK
  <2>2. FlagsOK'
    BY <1>13, <1>b, <1>f DEF SendLogout, SendExchange, Blame, FlagsOK
  <2>3. FlightsOK'
    BY <1>13, <2>1, <1>n, <1>i, <1>a, <1>f, <1>p, <1>w, BecomeTyped DEF SendLogout, SendExchange, Blame, NumbersOK
  <2>4. ExcuseOK'
    BY <1>13, <1>h DEF SendLogout, SendExchange, Blame, ExcuseOK
  <2> QED
    BY <2>1, <2>2, <2>3, <2>4 DEF SessionTypeOK
<1>14. CASE Logout
  <2>1. NumbersOK' /\ issued' \in Nat /\ issued <= issued'
    <3>1. live' \subseteq live /\ UNCHANGED <<issued, expiredTo, cookie, accessToken, faults>>
      BY <1>14 DEF Logout
    <3> QED
      BY <3>1, <1>n, <1>i DEF NumbersOK
  <2>2. FlagsOK'
    BY <1>14, <1>b, <1>f DEF Logout, FlagsOK
  <2>3. FlightsOK'
    BY <1>14, <2>1, <1>n, <1>i, <1>a, <1>f, <1>p, <1>w, BecomeTyped DEF Logout, NumbersOK
  <2>4. ExcuseOK'
    BY <1>14, <1>h DEF Logout, ExcuseOK
  <2> QED
    BY <2>1, <2>2, <2>3, <2>4 DEF SessionTypeOK
<1>15. CASE LogoutArrives
  <2>1. NumbersOK' /\ issued' \in Nat /\ issued <= issued'
    BY <1>15, <1>n, <1>a, <1>f DEF LogoutArrives, NumbersOK
  <2>2. FlagsOK'
    BY <1>15, <1>b, <1>f DEF LogoutArrives, FlagsOK
  <2>3. FlightsOK'
    BY <1>15, <2>1, <1>n, <1>i, <1>a, <1>f, <1>p, <1>w, BecomeTyped DEF LogoutArrives, NumbersOK
  <2>4. ExcuseOK'
    BY <1>15, <1>h DEF LogoutArrives, ExcuseOK
  <2> QED
    BY <2>1, <2>2, <2>3, <2>4 DEF SessionTypeOK
<1>16. CASE LogoutLost
  <2>1. NumbersOK' /\ issued' \in Nat /\ issued <= issued'
    BY <1>16, <1>n, <1>a, <1>f DEF LogoutLost, Blame, NumbersOK
  <2>2. FlagsOK'
    BY <1>16, <1>b, <1>f DEF LogoutLost, Blame, FlagsOK
  <2>3. FlightsOK'
    BY <1>16, <2>1, <1>n, <1>i, <1>a, <1>f, <1>p, <1>w, BecomeTyped DEF LogoutLost, Blame, NumbersOK
  <2>4. ExcuseOK'
    BY <1>16, <1>h DEF LogoutLost, Blame, ExcuseOK
  <2> QED
    BY <2>1, <2>2, <2>3, <2>4 DEF SessionTypeOK
<1>17. CASE AccessExpires
  <2>1. NumbersOK'
    BY <1>17, <1>n DEF AccessExpires, flightVars, NumbersOK
  <2>2. FlagsOK'
    BY <1>17, <1>b DEF AccessExpires, flightVars, FlagsOK
  <2>3. FlightsOK'
    BY <1>17, <1>w, <1>p DEF AccessExpires, flightVars, FlightsOK
  <2>4. ExcuseOK'
    BY <1>17, <1>h DEF AccessExpires, flightVars, ExcuseOK
  <2> QED
    BY <2>1, <2>2, <2>3, <2>4 DEF SessionTypeOK
<1>18. CASE EndSessions
  <2>1. NumbersOK'
    BY <1>18, <1>n DEF EndSessions, Blame, flightVars, NumbersOK
  <2>2. FlagsOK'
    BY <1>18, <1>b DEF EndSessions, Blame, flightVars, FlagsOK
  <2>3. FlightsOK'
    BY <1>18, <1>w, <1>p DEF EndSessions, Blame, flightVars, FlightsOK
  <2>4. ExcuseOK'
    BY <1>18, <1>h DEF EndSessions, Blame, flightVars, ExcuseOK
  <2> QED
    BY <2>1, <2>2, <2>3, <2>4 DEF SessionTypeOK
<1>19. CASE Reload
  <2>1. NumbersOK'
    BY <1>19, <1>n DEF Reload, Blame, flightVars, NumbersOK
  <2>2. FlagsOK'
    BY <1>19, <1>b DEF Reload, Blame, flightVars, FlagsOK
  <2>3. FlightsOK'
    BY <1>19, <1>w, <1>p, <1>n DEF Reload, Blame, flightVars, NumbersOK, FlightsOK
  <2>4. ExcuseOK'
    BY <1>19, <1>h DEF Reload, Blame, flightVars, ExcuseOK
  <2> QED
    BY <2>1, <2>2, <2>3, <2>4 DEF SessionTypeOK
<1>20. CASE UNCHANGED sessionVars
  <2>1. NumbersOK'
    BY <1>20, <1>n DEF sessionVars, flightVars, NumbersOK
  <2>2. FlagsOK'
    BY <1>20, <1>b DEF sessionVars, flightVars, FlagsOK
  <2>3. FlightsOK'
    BY <1>20, <1>w, <1>p DEF sessionVars, flightVars, FlightsOK
  <2>4. ExcuseOK'
    BY <1>20, <1>h DEF sessionVars, flightVars, ExcuseOK
  <2> QED
    BY <2>1, <2>2, <2>3, <2>4 DEF SessionTypeOK
<1> QED
  BY <1>1, <1>2, <1>3, <1>4, <1>5, <1>6, <1>7, <1>8, <1>9, <1>10, <1>11, <1>12, <1>13, <1>14, <1>15,
     <1>16, <1>17, <1>18, <1>19, <1>20
  DEF SessionNext, Calling, Refreshing, SigningInOrOut

\* Every variable stays in its range, and no token names a session that was not issued.
THEOREM SessionAlwaysTyped == SessionSpec => []SessionTypeOK
  BY SessionInitTypeOK, SessionStepTypeOK, PTL DEF SessionSpec

-----------------------------------------------------------------------------
(* The sets of flows, and what the invariant says of one exchange *)

LEMMA Flows ==
  /\ Call \subseteq Refresher /\ Refresher \subseteq Flow
  /\ "boot" \in Refresher /\ "login" \in Flow /\ "logout" \in Flow
  /\ "login" \notin Refresher /\ "logout" \notin Refresher /\ "boot" \notin Call
  /\ Flow = Refresher \cup {"login", "logout"} /\ Refresher = Call \cup {"boot"}
  BY SessionAssumption DEF Flow, Refresher

\* While an exchange is under way it is the only one.
LEMMA Alone ==
  ASSUME OneExchange, NEW f \in Flow, Exchanging(f)
  PROVE  \A g \in Flow \ {f} : ~Exchanging(g)
  BY DEF OneExchange

\* One that starts or goes on alone leaves OneExchange true if what its new phase knows is so.
LEMMA ExchangeStep ==
  ASSUME FlightsOK, NEW f \in Flow, \A g \in Flow \ {f} : ~Exchanging(g),
         NEW ph, NEW tok, Become(f, ph, tok),
         ~disabled',
         ~Exchanging(f)' => Agreed',
         f \in Refresher => RefreshKnows(f)',
         f = "login" => LoginKnows',
         f = "logout" => LogoutKnows'
  PROVE  OneExchange'
<1>1. \A g \in Flow \ {f} : phase'[g] = phase[g]
  BY DEF Become, FlightsOK
<1>2. \A g \in Flow \ {f} : ~Exchanging(g)'
  BY <1>1 DEF Exchanging
<1>3. \A g, h \in Flow : Exchanging(g)' /\ Exchanging(h)' => g = h
  BY <1>2
<1>4. (\A g \in Flow : ~Exchanging(g)') => Agreed'
  OBVIOUS
<1>5. ASSUME NEW g \in Refresher PROVE RefreshKnows(g)'
  <2>1. CASE g = f
    BY <2>1
  <2>2. CASE g # f
    <3>1. ~Exchanging(g)'
      BY <2>2, <1>2, Flows
    <3> QED
      BY <3>1 DEF Exchanging, RefreshKnows
  <2> QED
    BY <2>1, <2>2
<1>6. LoginKnows'
  <2>1. CASE f # "login"
    <3>1. ~Exchanging("login")'
      BY <2>1, <1>2, Flows
    <3> QED
      BY <3>1 DEF Exchanging, LoginKnows
  <2> QED
    BY <2>1
<1>7. LogoutKnows'
  <2>1. CASE f # "logout"
    <3>1. ~Exchanging("logout")'
      BY <2>1, <1>2, Flows
    <3> QED
      BY <3>1 DEF Exchanging, LogoutKnows
  <2> QED
    BY <2>1
<1> QED
  BY <1>3, <1>4, <1>5, <1>6, <1>7 DEF OneExchange

\* A request that exchanges nothing, before and after its step, disturbs nobody's exchange.
LEMMA CallStep ==
  ASSUME FlightsOK, OneExchange, NEW c \in Call, ~Exchanging(c),
         NEW ph \in {"idle", "sent", "unauthorized", "forbidden", "served"}, NEW tok,
         Become(c, ph, tok), UNCHANGED <<live, disabled, cookie, accessToken, user>>
  PROVE  OneExchange'
<1>1. c \in Refresher /\ c \in Flow /\ c # "login" /\ c # "logout" /\ c # "boot"
  BY Flows
<1>2. phase'[c] = ph /\ \A g \in Flow \ {c} : phase'[g] = phase[g] /\ carried'[g] = carried[g]
  BY <1>1 DEF Become, FlightsOK
<1>3. ~Exchanging(c)'
  BY <1>1, <1>2 DEF Exchanging
<1>4. \A g \in Flow \ {c} : Exchanging(g)' <=> Exchanging(g)
  BY <1>2 DEF Exchanging
<1>5. Agreed' <=> Agreed
  BY DEF Agreed
<1>6. \A g, h \in Flow : Exchanging(g)' /\ Exchanging(h)' => g = h
  BY <1>3, <1>4 DEF OneExchange
<1>7. (\A g \in Flow : ~Exchanging(g)') => Agreed'
  BY <1>4, <1>5 DEF OneExchange
<1>8. ASSUME NEW g \in Refresher PROVE RefreshKnows(g)'
  <2>1. CASE g = c
    BY <2>1, <1>2 DEF RefreshKnows
  <2>2. CASE g # c
    <3>1. RefreshKnows(g)
      BY DEF OneExchange
    <3>2. phase'[g] = phase[g] /\ carried'[g] = carried[g]
      BY <2>2, <1>2, Flows
    <3> QED
      BY <3>1, <3>2, <1>5 DEF RefreshKnows
  <2> QED
    BY <2>1, <2>2
<1>9. LoginKnows' /\ LogoutKnows'
  <2>1. /\ phase'["login"] = phase["login"] /\ carried'["login"] = carried["login"]
        /\ phase'["logout"] = phase["logout"] /\ carried'["logout"] = carried["logout"]
    BY <1>1, <1>2, Flows
  <2> QED
    BY <2>1, <1>5 DEF OneExchange, LoginKnows, LogoutKnows
<1>10. ~disabled'
  BY DEF OneExchange
<1> QED
  BY <1>6, <1>7, <1>8, <1>9, <1>10 DEF OneExchange

-----------------------------------------------------------------------------
(* The phases *)

\* A flow in its new phase, the loading of the page with that of the first refresh.
LEMMA PhasesStep ==
  ASSUME FlightsOK, PhasesOK, NEW f \in Flow, NEW ph \in Phase, NEW tok, Become(f, ph, tok),
         f \in Call => ph \notin {"granted", "ended"},
         f = "login" => ph \in {"idle", "sent", "granted"},
         f = "logout" => ph \in {"idle", "sent", "ended"},
         f = "boot" => ph \in {"idle", "refreshing", "read", "rotated", "refused"},
         loading' <=> phase'["boot"] # "idle"
  PROVE  PhasesOK'
<1>1. phase'[f] = ph /\ \A g \in Flow \ {f} : phase'[g] = phase[g]
  BY DEF Become, FlightsOK
<1>2. phase'["boot"] \in {"idle", "refreshing", "read", "rotated", "refused"}
  BY <1>1, Flows DEF PhasesOK
<1>3. phase'["login"] \in {"idle", "sent", "granted"}
  BY <1>1, Flows DEF PhasesOK
<1>4. phase'["logout"] \in {"idle", "sent", "ended"}
  BY <1>1, Flows DEF PhasesOK
<1>5. \A c \in Call : phase'[c] \notin {"granted", "ended"}
  BY <1>1, Flows DEF PhasesOK
<1> QED
  BY <1>2, <1>3, <1>4, <1>5 DEF PhasesOK

\* The same for a step that leaves the loading alone and the first refresh under way or not.
LEMMA PhasesQuietStep ==
  ASSUME FlightsOK, PhasesOK, NEW f \in Flow, NEW ph \in Phase, NEW tok, Become(f, ph, tok),
         f \in Call => ph \notin {"granted", "ended"},
         f = "login" => ph \in {"idle", "sent", "granted"},
         f = "logout" => ph \in {"idle", "sent", "ended"},
         f = "boot" => phase[f] # "idle" /\ ph \in {"refreshing", "read", "rotated", "refused"},
         UNCHANGED loading
  PROVE  PhasesOK'
<1>1. phase'[f] = ph /\ \A g \in Flow \ {f} : phase'[g] = phase[g]
  BY DEF Become, FlightsOK
<1>2. phase'["boot"] # "idle" <=> phase["boot"] # "idle"
  BY <1>1, Flows
<1>3. loading' <=> phase'["boot"] # "idle"
  BY <1>2 DEF PhasesOK
<1> QED
  BY <1>3, PhasesStep

\* A refresh that has come to its end, however it ended.
LEMMA PhasesResume ==
  ASSUME FlightsOK, PhasesOK, NEW f \in Refresher, phase[f] # "idle", NEW tok, Resume(f, tok)
  PROVE  PhasesOK'
<1>1. CASE f = "boot"
  <2>1. Become(f, "idle", 0) /\ loading' = FALSE
    BY <1>1 DEF Resume
  <2>2. phase'["boot"] = "idle"
    BY <1>1, <2>1, Flows DEF Become, FlightsOK
  <2> QED
    BY <1>1, <2>1, <2>2, Flows, PhasesStep DEF Phase
<1>2. CASE f # "boot"
  <2>1. f \in Call /\ UNCHANGED loading
    BY <1>2, Flows DEF Resume
  <2>2. Become(f, "idle", 0) \/ Become(f, "sent", tok)
    BY <1>2 DEF Resume
  <2>3. "idle" \in Phase /\ "sent" \in Phase
    BY DEF Phase
  <2> QED
    BY <2>1, <2>2, <2>3, Flows, PhasesQuietStep
<1> QED
  BY <1>1, <1>2

\* Every step keeps each flow among its phases.
LEMMA SessionStepPhases == SessionTypeOK /\ PhasesOK /\ [SessionNext]_sessionVars => PhasesOK'
<1> SUFFICES ASSUME SessionTypeOK, PhasesOK, [SessionNext]_sessionVars PROVE PhasesOK'
  OBVIOUS
<1>w. FlightsOK
  BY DEF SessionTypeOK
<1>p. {"idle", "sent", "unauthorized", "forbidden", "served", "refreshing", "read", "rotated", "refused",
       "granted", "ended"} \subseteq Phase
  BY DEF Phase
<1> USE Flows, <1>w, <1>p, PhasesQuietStep, PhasesResume DEF pageVars
<1>1. ASSUME NEW c \in Call, StartCall(c) PROVE PhasesOK'
  BY <1>1 DEF StartCall
<1>2. ASSUME NEW c \in Call, RequireAuth(c) PROVE PhasesOK'
  BY <1>2 DEF RequireAuth
<1>3. ASSUME NEW c \in Call, CallDenied(c) PROVE PhasesOK'
  BY <1>3 DEF CallDenied, SendExchange
<1>4. ASSUME NEW c \in Call, CallAnswered(c) PROVE PhasesOK'
  <2>1. Become(c, "idle", 0) /\ UNCHANGED loading
    BY <1>4 DEF CallAnswered
  <2> QED
    BY <2>1
<1>5. ASSUME NEW f \in Refresher, RefreshReads(f) PROVE PhasesOK'
  <2>1. phase[f] # "idle" /\ f # "login" /\ f # "logout" /\ f \in Flow
    BY <1>5 DEF RefreshReads
  <2>2. Become(f, "read", carried[f]) \/ Become(f, "refused", 0)
    BY <1>5 DEF RefreshReads
  <2>3. UNCHANGED loading
    BY <1>5 DEF RefreshReads
  <2> QED
    BY <2>1, <2>2, <2>3
<1>6. ASSUME NEW f \in Refresher, RefreshRotates(f) PROVE PhasesOK'
  <2>1. phase[f] # "idle" /\ f # "login" /\ f # "logout" /\ f \in Flow
    BY <1>6 DEF RefreshRotates
  <2>2. Become(f, "rotated", issued') /\ UNCHANGED loading
    BY <1>6 DEF RefreshRotates
  <2> QED
    BY <2>1, <2>2
<1>7. ASSUME NEW f \in Refresher, RefreshArrives(f) PROVE PhasesOK'
  BY <1>7 DEF RefreshArrives
<1>8. ASSUME NEW f \in Refresher, RefreshRefused(f) PROVE PhasesOK'
  BY <1>8 DEF RefreshRefused
<1>9. ASSUME NEW f \in Refresher, RefreshLost(f) PROVE PhasesOK'
  BY <1>9 DEF RefreshLost
<1>10. CASE SendLogin
  BY <1>10 DEF SendLogin, SendExchange
<1>11. CASE Login
  <2>1. (Become("login", "granted", issued') \/ Become("login", "idle", 0)) /\ UNCHANGED loading
    BY <1>11 DEF Login
  <2> QED
    BY <2>1
<1>12. CASE LoginArrives
  BY <1>12 DEF LoginArrives
<1>13. CASE SendLogout
  BY <1>13 DEF SendLogout, SendExchange
<1>14. CASE Logout
  BY <1>14 DEF Logout
<1>15. CASE LogoutArrives
  BY <1>15 DEF LogoutArrives
<1>16. CASE LogoutLost
  BY <1>16 DEF LogoutLost
<1>17. CASE AccessExpires
  BY <1>17 DEF AccessExpires, flightVars, PhasesOK
<1>18. CASE EndSessions
  BY <1>18 DEF EndSessions, flightVars, PhasesOK
<1>19. CASE Reload
  BY <1>19 DEF Reload, PhasesOK
<1>20. CASE UNCHANGED sessionVars
  BY <1>20 DEF sessionVars, flightVars, PhasesOK
<1> QED
  BY <1>1, <1>2, <1>3, <1>4, <1>5, <1>6, <1>7, <1>8, <1>9, <1>10, <1>11, <1>12, <1>13, <1>14, <1>15,
     <1>16, <1>17, <1>18, <1>19, <1>20
  DEF SessionNext, Calling, Refreshing, SigningInOrOut

-----------------------------------------------------------------------------
(* One exchange at a time *)

\* A refresh that has come to its end leaves page, cookie and server in agreement.
LEMMA ExchangeResume ==
  ASSUME FlightsOK, OneExchange, NEW f \in Refresher, Exchanging(f), NEW tok, Resume(f, tok),
         UNCHANGED disabled, Agreed'
  PROVE  OneExchange'
<1>1. \A g \in Flow \ {f} : ~Exchanging(g)
  BY Alone, Flows
<1>2. PICK ph \in {"idle", "sent"}, t \in {0, tok} : Become(f, ph, t)
  BY DEF Resume
<1>3. phase'[f] = ph
  BY <1>2, Flows DEF Become, FlightsOK
<1>4. RefreshKnows(f)'
  BY <1>3 DEF RefreshKnows
<1>5. ~disabled'
  BY DEF OneExchange
<1> QED
  BY <1>1, <1>2, <1>4, <1>5, Flows, ExchangeStep

\* A step that changes nothing an exchange knows.
LEMMA ExchangeUntouched ==
  ASSUME OneExchange, UNCHANGED <<live, disabled, cookie, accessToken, user, phase, carried>>
  PROVE  OneExchange'
  BY DEF OneExchange, Exchanging, RefreshKnows, LoginKnows, LogoutKnows, Agreed

\* The page is loaded anew while nothing is exchanged: only the first refresh is under way.
LEMMA ReloadAlone ==
  ASSUME FlightsOK, OneExchange, \A g \in Flow : ~Exchanging(g), Reload
  PROVE  OneExchange'
<1>1. /\ \A g \in Flow \ {"boot"} : phase'[g] = "idle"
      /\ phase'["boot"] = "refreshing" /\ carried'["boot"] = cookie
      /\ ~user' /\ UNCHANGED <<live, disabled, cookie>>
  BY Flows DEF Reload, serverVars
<1>2. \A g \in Flow \ {"boot"} : ~Exchanging(g)'
  BY <1>1, Flows DEF Exchanging
<1>3. live' \in {{}, {cookie'}}
  BY <1>1 DEF OneExchange, Agreed
<1>4. RefreshKnows("boot")'
  BY <1>1, <1>3 DEF RefreshKnows
<1>5. Exchanging("boot")'
  BY <1>1 DEF Exchanging
<1>6. \A f \in Refresher : RefreshKnows(f)'
  BY <1>1, <1>4, Flows DEF RefreshKnows
<1>7. LoginKnows' /\ LogoutKnows'
  BY <1>1, Flows DEF LoginKnows, LogoutKnows
<1>8. ~disabled'
  BY <1>1 DEF OneExchange
<1> QED
  BY <1>2, <1>5, <1>6, <1>7, <1>8, Flows DEF OneExchange

\* What may cost a session is recorded for good.
LEMMA BlameNamed == ASSUME ExcuseOK, NEW what \in {"overlap", "late profile", "lost", "ended"}
                    PROVE  Blame(what) # "none"
  BY DEF Blame, ExcuseOK

\* Nothing having happened that may cost a session, every step keeps to one exchange at a time.
LEMMA SessionStepOneExchange ==
  ASSUME SessionTypeOK, PhasesOK, OneExchange, [SessionNext]_sessionVars, excuse' = "none"
  PROVE  OneExchange'
<1>w. FlightsOK /\ ExcuseOK
  BY DEF SessionTypeOK
<1>d. ~disabled
  BY DEF OneExchange
<1>k. \A f \in Refresher : RefreshKnows(f)
  BY DEF OneExchange
<1>l. LoginKnows /\ LogoutKnows
  BY DEF OneExchange
<1>g. (\A f \in Flow : ~Exchanging(f)) => Agreed
  BY DEF OneExchange
<1> USE Flows, <1>w, <1>d DEF serverVars, pageVars, historyVars
<1>1. ASSUME NEW c \in Call, StartCall(c) PROVE OneExchange'
  <2>1. ~Exchanging(c)
    BY <1>1 DEF StartCall, Exchanging
  <2> QED
    BY <1>1, <2>1, CallStep DEF StartCall
<1>2. ASSUME NEW c \in Call, RequireAuth(c) PROVE OneExchange'
  <2>1. ~Exchanging(c)
    BY <1>2 DEF RequireAuth, Exchanging
  <2>2. PICK ph \in {"unauthorized", "forbidden", "served"} : Become(c, ph, 0)
    BY <1>2 DEF RequireAuth
  <2>3. UNCHANGED <<live, disabled, cookie, accessToken, user>>
    BY <1>2 DEF RequireAuth
  <2> QED
    BY <2>1, <2>2, <2>3, CallStep
<1>3. ASSUME NEW c \in Call, CallDenied(c) PROVE OneExchange'
  <2>1. ~Exchanging(c)
    BY <1>3 DEF CallDenied, Exchanging
  <2>2. UNCHANGED <<live, disabled, cookie, accessToken, user>>
    BY <1>3 DEF CallDenied
  <2>3. CASE SendExchange(c, "refreshing")
    <3>1. ~Overlaps(c) /\ Become(c, "refreshing", cookie)
      BY <2>3, BlameNamed DEF SendExchange
    <3>2. \A g \in Flow \ {c} : ~Exchanging(g)
      BY <3>1 DEF Overlaps
    <3>3. Agreed'
      BY <3>2, <2>1, <2>2, <1>g DEF Agreed
    <3>4. phase'[c] = "refreshing" /\ carried'[c] = cookie'
      BY <3>1, <2>2 DEF Become, FlightsOK
    <3>5. RefreshKnows(c)'
      BY <3>3, <3>4 DEF RefreshKnows
    <3> QED
      BY <3>1, <3>2, <3>3, <3>5, <2>2, ExchangeStep
  <2>4. CASE Become(c, "idle", 0)
    BY <2>1, <2>2, <2>4, CallStep
  <2> QED
    BY <1>3, <2>3, <2>4 DEF CallDenied
<1>4. ASSUME NEW c \in Call, CallAnswered(c) PROVE OneExchange'
  <2>1. ~Exchanging(c)
    BY <1>4 DEF CallAnswered, Exchanging
  <2>2. Become(c, "idle", 0) /\ UNCHANGED <<live, disabled, cookie, accessToken>>
    BY <1>4 DEF CallAnswered
  <2>3. UNCHANGED user
    <3>1. CASE user' = TRUE /\ excuse' = IF user THEN excuse ELSE Blame("late profile")
      <4>1. user
        BY <3>1, BlameNamed
      <4>2. user \in BOOLEAN
        BY DEF SessionTypeOK, FlagsOK
      <4> QED
        BY <3>1, <4>1, <4>2
    <3> QED
      BY <1>4, <3>1 DEF CallAnswered
  <2> QED
    BY <2>1, <2>2, <2>3, CallStep
<1>5. ASSUME NEW f \in Refresher, RefreshReads(f) PROVE OneExchange'
  <2>1. Exchanging(f)
    BY <1>5 DEF RefreshReads, Exchanging
  <2>2. \A g \in Flow \ {f} : ~Exchanging(g)
    BY <2>1, Alone
  <2>3. UNCHANGED <<live, disabled, cookie, accessToken, user>>
    BY <1>5 DEF RefreshReads
  <2>4. RefreshKnows(f) /\ phase[f] = "refreshing"
    BY <1>5, <1>k DEF RefreshReads
  <2>5. CASE carried[f] \in live
    <3>1. Become(f, "read", carried[f])
      BY <1>5, <2>5 DEF RefreshReads
    <3>2. phase'[f] = "read" /\ carried'[f] = carried[f]
      BY <3>1 DEF Become, FlightsOK
    <3>3. carried[f] = cookie /\ live = {cookie} /\ (f = "boot" \/ user)
      BY <2>4, <2>5 DEF RefreshKnows, Agreed
    <3>4. RefreshKnows(f)' /\ Exchanging(f)'
      BY <2>3, <3>2, <3>3 DEF RefreshKnows, Exchanging
    <3> QED
      BY <2>2, <2>3, <3>1, <3>4, ExchangeStep
  <2>6. CASE carried[f] \notin live
    <3>1. Become(f, "refused", 0)
      BY <1>5, <2>6 DEF RefreshReads
    <3>2. phase'[f] = "refused"
      BY <3>1 DEF Become, FlightsOK
    <3>3. live = {}
      BY <2>4, <2>6 DEF RefreshKnows, Agreed
    <3>4. RefreshKnows(f)' /\ Exchanging(f)'
      BY <2>3, <3>2, <3>3 DEF RefreshKnows, Exchanging
    <3> QED
      BY <2>2, <2>3, <3>1, <3>4, ExchangeStep
  <2> QED
    BY <2>5, <2>6
<1>6. ASSUME NEW f \in Refresher, RefreshRotates(f) PROVE OneExchange'
  <2>1. Exchanging(f)
    BY <1>6 DEF RefreshRotates, Exchanging
  <2>2. \A g \in Flow \ {f} : ~Exchanging(g)
    BY <2>1, Alone
  <2>3. /\ UNCHANGED <<disabled, user>> /\ Become(f, "rotated", issued')
        /\ live' = (live \ {carried[f]}) \cup {issued'}
    BY <1>6 DEF RefreshRotates
  <2>4. phase'[f] = "rotated" /\ carried'[f] = issued'
    BY <2>3 DEF Become, FlightsOK
  <2>5. carried[f] = cookie /\ live = {cookie} /\ (f = "boot" \/ user)
    BY <1>6, <1>k DEF RefreshRotates, RefreshKnows
  <2>6. live' = {carried'[f]}
    BY <2>3, <2>4, <2>5
  <2>7. RefreshKnows(f)' /\ Exchanging(f)'
    BY <2>3, <2>4, <2>5, <2>6 DEF RefreshKnows, Exchanging
  <2> QED
    BY <2>2, <2>3, <2>7, ExchangeStep
<1>7. ASSUME NEW f \in Refresher, RefreshArrives(f) PROVE OneExchange'
  <2>1. Exchanging(f)
    BY <1>7 DEF RefreshArrives, Exchanging
  <2>2. live = {carried[f]}
    BY <1>7, <1>k DEF RefreshArrives, RefreshKnows
  <2>3. Agreed' /\ UNCHANGED disabled /\ Resume(f, carried[f])
    BY <1>7, <2>2 DEF RefreshArrives, Agreed
  <2> QED
    BY <2>1, <2>3, ExchangeResume
<1>8. ASSUME NEW f \in Refresher, RefreshRefused(f) PROVE OneExchange'
  <2>1. Exchanging(f)
    BY <1>8 DEF RefreshRefused, Exchanging
  <2>2. live = {}
    BY <1>8, <1>k DEF RefreshRefused, RefreshKnows
  <2>3. Agreed' /\ UNCHANGED disabled /\ Resume(f, 0)
    BY <1>8, <2>2 DEF RefreshRefused, Agreed
  <2> QED
    BY <2>1, <2>3, ExchangeResume
<1>9. ASSUME NEW f \in Refresher, RefreshLost(f) PROVE OneExchange'
  BY <1>9, BlameNamed DEF RefreshLost
<1>10. CASE SendLogin
  <2>1. ~Overlaps("login") /\ Become("login", "sent", cookie)
    BY <1>10, BlameNamed DEF SendLogin, SendExchange
  <2>2. \A g \in Flow : ~Exchanging(g)
    BY <2>1, <1>10 DEF SendLogin, Overlaps, Exchanging
  <2>3. Agreed /\ ~user /\ UNCHANGED <<live, disabled, cookie, accessToken, user>>
    BY <2>2, <1>g, <1>10 DEF SendLogin
  <2>4. phase'["login"] = "sent"
    BY <2>1 DEF Become, FlightsOK
  <2>5. LoginKnows' /\ Agreed'
    BY <2>3, <2>4 DEF LoginKnows, Agreed
  <2> QED
    BY <2>1, <2>2, <2>3, <2>5, ExchangeStep
<1>11. CASE Login
  <2>1. Exchanging("login")
    BY <1>11 DEF Login, Exchanging
  <2>2. \A g \in Flow \ {"login"} : ~Exchanging(g)
    BY <2>1, Alone
  <2>3. ~user /\ Agreed /\ UNCHANGED <<disabled, cookie, accessToken, user>>
    BY <1>11, <1>l DEF Login, LoginKnows
  <2>4. CASE live' = live \cup {issued'} /\ Become("login", "granted", issued')
    <3>1. phase'["login"] = "granted" /\ carried'["login"] = issued'
      BY <2>4 DEF Become, FlightsOK
    <3>2. live' = {carried'["login"]}
      BY <2>3, <2>4, <3>1 DEF Agreed
    <3>3. LoginKnows' /\ Exchanging("login")'
      BY <2>3, <3>1, <3>2 DEF LoginKnows, Exchanging
    <3> QED
      BY <2>2, <2>3, <2>4, <3>3, ExchangeStep
  <2>5. CASE UNCHANGED live /\ Become("login", "idle", 0)
    <3>1. phase'["login"] = "idle"
      BY <2>5 DEF Become, FlightsOK
    <3>2. LoginKnows' /\ Agreed'
      BY <2>3, <2>5, <3>1 DEF LoginKnows, Agreed
    <3> QED
      BY <2>2, <2>3, <2>5, <3>2, ExchangeStep
  <2> QED
    BY <1>11, <2>4, <2>5 DEF Login
<1>12. CASE LoginArrives
  <2>1. Exchanging("login")
    BY <1>12 DEF LoginArrives, Exchanging
  <2>2. \A g \in Flow \ {"login"} : ~Exchanging(g)
    BY <2>1, Alone
  <2>3. live = {carried["login"]}
    BY <1>12, <1>l DEF LoginArrives, LoginKnows
  <2>4. Agreed' /\ UNCHANGED disabled /\ Become("login", "idle", 0)
    BY <1>12, <2>3 DEF LoginArrives, Agreed
  <2>5. phase'["login"] = "idle"
    BY <2>4 DEF Become, FlightsOK
  <2>6. LoginKnows'
    BY <2>5 DEF LoginKnows
  <2> QED
    BY <2>2, <2>4, <2>6, ExchangeStep
<1>13. CASE SendLogout
  <2>1. ~Overlaps("logout") /\ Become("logout", "sent", cookie)
    BY <1>13, BlameNamed DEF SendLogout, SendExchange
  <2>2. \A g \in Flow : ~Exchanging(g)
    BY <2>1, <1>13 DEF SendLogout, Overlaps, Exchanging
  <2>3. Agreed /\ user /\ UNCHANGED <<live, disabled, cookie, accessToken, user>>
    BY <2>2, <1>g, <1>13 DEF SendLogout
  <2>4. phase'["logout"] = "sent" /\ carried'["logout"] = cookie
    BY <2>1 DEF Become, FlightsOK
  <2>5. LogoutKnows' /\ Agreed'
    BY <2>3, <2>4 DEF LogoutKnows, Agreed
  <2> QED
    BY <2>1, <2>2, <2>3, <2>5, ExchangeStep
<1>14. CASE Logout
  <2>1. Exchanging("logout")
    BY <1>14 DEF Logout, Exchanging
  <2>2. \A g \in Flow \ {"logout"} : ~Exchanging(g)
    BY <2>1, Alone
  <2>3. Agreed /\ user /\ carried["logout"] = cookie
    BY <1>14, <1>l DEF Logout, LogoutKnows
  <2>4. live' = live \ {carried["logout"]} /\ UNCHANGED disabled /\ Become("logout", "ended", 0)
    BY <1>14 DEF Logout
  <2>5. live' = {}
    BY <2>3, <2>4 DEF Agreed
  <2>6. phase'["logout"] = "ended"
    BY <2>4 DEF Become, FlightsOK
  <2>7. LogoutKnows' /\ Exchanging("logout")'
    BY <2>5, <2>6 DEF LogoutKnows, Exchanging
  <2> QED
    BY <2>2, <2>4, <2>7, ExchangeStep
<1>15. CASE LogoutArrives
  <2>1. Exchanging("logout")
    BY <1>15 DEF LogoutArrives, Exchanging
  <2>2. \A g \in Flow \ {"logout"} : ~Exchanging(g)
    BY <2>1, Alone
  <2>3. live = {}
    BY <1>15, <1>l DEF LogoutArrives, LogoutKnows
  <2>4. Agreed' /\ UNCHANGED disabled /\ Become("logout", "idle", 0)
    BY <1>15, <2>3 DEF LogoutArrives, Agreed
  <2>5. phase'["logout"] = "idle"
    BY <2>4 DEF Become, FlightsOK
  <2>6. LogoutKnows'
    BY <2>5 DEF LogoutKnows
  <2> QED
    BY <2>2, <2>4, <2>6, ExchangeStep
<1>16. CASE LogoutLost
  BY <1>16, BlameNamed DEF LogoutLost
<1>17. CASE AccessExpires
  BY <1>17, ExchangeUntouched DEF AccessExpires, flightVars
<1>18. CASE EndSessions
  BY <1>18, BlameNamed DEF EndSessions
<1>19. CASE Reload
  <2>1. \A f \in Flow : ~Exchanging(f)
    BY <1>19, BlameNamed DEF Reload
  <2> QED
    BY <1>19, <2>1, ReloadAlone
<1>20. CASE UNCHANGED sessionVars
  BY <1>20, ExchangeUntouched DEF sessionVars, flightVars
<1> QED
  BY <1>1, <1>2, <1>3, <1>4, <1>5, <1>6, <1>7, <1>8, <1>9, <1>10, <1>11, <1>12, <1>13, <1>14, <1>15,
     <1>16, <1>17, <1>18, <1>19, <1>20
  DEF SessionNext, Calling, Refreshing, SigningInOrOut

\* No step makes an excuse unhappen.
LEMMA ExcuseStays ==
  ASSUME SessionTypeOK, [SessionNext]_sessionVars, excuse' = "none"
  PROVE  excuse = "none"
<1>1. ExcuseOK
  BY DEF SessionTypeOK
<1> USE <1>1, BlameNamed DEF historyVars
<1>2. ASSUME NEW c \in Call, StartCall(c) \/ Calling(c) PROVE excuse = "none"
  BY <1>2 DEF StartCall, Calling, RequireAuth, CallDenied, CallAnswered, SendExchange
<1>3. ASSUME NEW f \in Refresher, Refreshing(f) PROVE excuse = "none"
  BY <1>3 DEF Refreshing, RefreshReads, RefreshRotates, RefreshArrives, RefreshRefused, RefreshLost
<1>4. CASE SigningInOrOut
  BY <1>4 DEF SigningInOrOut, SendLogin, Login, LoginArrives, SendLogout, Logout, LogoutArrives,
              LogoutLost, SendExchange
<1>5. CASE AccessExpires \/ EndSessions \/ Reload \/ UNCHANGED sessionVars
  BY <1>5 DEF AccessExpires, EndSessions, Reload, sessionVars
<1> QED
  BY <1>2, <1>3, <1>4, <1>5 DEF SessionNext

-----------------------------------------------------------------------------
LEMMA SessionInitIInv == SessionInit => SessionIInv
<1> SUFFICES ASSUME SessionInit PROVE SessionIInv
  OBVIOUS
<1>1. SessionTypeOK
  BY SessionInitTypeOK
<1>2. /\ \A f \in Flow \ {"boot"} : phase[f] = "idle"
      /\ phase["boot"] = "refreshing" /\ carried["boot"] = cookie
      /\ ~user /\ loading /\ ~disabled /\ live \in {{}, {cookie}}
  BY Flows DEF SessionInit
<1>3. PhasesOK
  BY <1>2, Flows DEF PhasesOK
<1>4. \A f \in Flow : Exchanging(f) <=> f = "boot"
  BY <1>2, Flows DEF Exchanging
<1>5. \A f \in Refresher : RefreshKnows(f)
  BY <1>2, Flows DEF RefreshKnows
<1>6. LoginKnows /\ LogoutKnows
  BY <1>2, Flows DEF LoginKnows, LogoutKnows
<1>7. OneExchange
  BY <1>2, <1>4, <1>5, <1>6, Flows DEF OneExchange
<1> QED
  BY <1>1, <1>3, <1>7 DEF SessionIInv

LEMMA SessionStepIInv == SessionIInv /\ [SessionNext]_sessionVars => SessionIInv'
  BY SessionStepTypeOK, SessionStepPhases, SessionStepOneExchange, ExcuseStays DEF SessionIInv

LEMMA SessionInvariant == SessionSpec => []SessionIInv
  BY SessionInitIInv, SessionStepIInv, PTL DEF SessionSpec

LEMMA SignedOutForCause == SessionIInv => SignedOutOnlyForCause
<1> SUFFICES ASSUME SessionIInv, ~user, ~loading, excuse = "none", phase["login"] = "idle"
             PROVE  live = {}
  BY DEF SignedOutOnlyForCause
<1>1. OneExchange /\ PhasesOK
  BY DEF SessionIInv
<1>2. CASE \A f \in Flow : ~Exchanging(f)
  BY <1>1, <1>2 DEF OneExchange, Agreed
<1>3. ASSUME NEW c \in Call, Exchanging(c) PROVE live = {}
  <2>1. RefreshKnows(c) /\ c # "boot"
    BY <1>1, Flows DEF OneExchange
  <2>2. phase[c] \in {"refreshing", "read", "rotated", "refused"}
    BY <1>3, Flows DEF Exchanging
  <2> QED
    BY <2>1, <2>2 DEF RefreshKnows, Agreed
<1>4. CASE Exchanging("logout")
  <2>1. phase["logout"] \in {"sent", "ended"} /\ LogoutKnows
    BY <1>1, <1>4 DEF Exchanging, PhasesOK, OneExchange
  <2> QED
    BY <2>1 DEF LogoutKnows
<1>5. ~Exchanging("boot") /\ ~Exchanging("login")
  BY <1>1, Flows DEF Exchanging, PhasesOK
<1> QED
  BY <1>2, <1>3, <1>4, <1>5, Flows

\* Nobody is shown the login form while a session of theirs is live, unless something that may
\* cost one has happened: for any number of requests refreshing and being sent again.
THEOREM SessionNotLost == SessionSpec => []SignedOutOnlyForCause
  BY SignedOutForCause, SessionInvariant, PTL

LEMMA AgreeBetween == SessionIInv => SessionsAgree
  BY DEF SessionIInv, OneExchange, Agreed, SessionsAgree

\* Between exchanges the page, its cookie and the server name the same session, or none: none is
\* left unrevoked behind the one in use, and none survives a logout.
THEOREM PageAndServerAgree == SessionSpec => []SessionsAgree
  BY AgreeBetween, SessionInvariant, PTL

-----------------------------------------------------------------------------
(* The account pages: the inductive invariant *)

AccountText == {"", "typed", "stored", NoData}
CallKind    == {"login", "register", "forgot", "reset", "verify", "settings"}
CallPhase   == {"sent", "ok", "bad", "fetching"}
AccountCall == [kind : CallKind, n : Nat, from : Nat, phase : CallPhase,
                title : AccountText, seen : AccountText, email : BOOLEAN]
View        == [status : {"idle", "loading", "success", "error"}, message : BOOLEAN, error : BOOLEAN,
                title : AccountText, touched : BOOLEAN, open : Nat]
TitleQuery  == [data : AccountText, flight : {"idle", "sent", "answered"}, got : AccountText, old : BOOLEAN]

PageTypes ==
    /\ mount \in Nat /\ pageView \in View /\ titleQuery \in TitleQuery
ServerTypes ==
    /\ accountCalls \subseteq AccountCall /\ called \in Nat /\ mishaps \in Nat
    /\ role \in {"tenant_owner", "super_admin"} /\ tenantTitle \in AccountText
AccountTypes == PageTypes /\ ServerTypes

\* No two calls have the same number.
CallsNumbered ==
    \A c \in accountCalls : c.n <= called /\ \A d \in accountCalls : c.n = d.n => c = d

\* Until the user goes elsewhere, the page is the one opened while nobody is known, and then
\* that one or where it leads.
LinkInv ==
    opened # "moved" =>
        /\ sessionLoading => route = opened /\ account = "none"
        /\ account # "none" => route \in {opened, Landing(opened, account)}

\* A reset link serves one call.
ResetInv ==
    \A c \in accountCalls : (c.kind = "reset" /\ c.phase = "ok") => password = c.n /\ resetToken = "consumed"

\* Without a mishap there is one verification, and it is the one that uses the token.
OneVerification ==
    /\ pageView.status # "error"
    /\ \A c \in accountCalls : c.kind = "verify" =>
        /\ c.phase # "bad" /\ (c.phase = "sent" => verifyToken = "fresh")
        /\ \A d \in accountCalls : d.kind = "verify" => c = d
    /\ (route = "/verify-email" /\ pageView.status = "idle") =>
        verifyToken = "fresh" /\ \A c \in accountCalls : c.kind # "verify"

VerifyInv ==
    /\ pageView.status = "success" => verifyToken = "consumed"
    /\ \A c \in accountCalls : (c.kind = "verify" /\ c.phase = "ok") => verifyToken = "consumed"
    /\ mishaps = 0 => OneVerification

\* A settings form not typed into shows the title there is, and so does the call it sends.
ShownTitle == IF titleQuery.data = NoData THEN "" ELSE titleQuery.data
SettingsInv ==
    /\ (OnPage("/app/settings") /\ ~pageView.touched) => pageView.title = ShownTitle
    /\ \A c \in accountCalls : (c.kind = "settings" /\ c.seen # NoData) => c.title = c.seen

AccountInv == AccountTypes /\ CallsNumbered /\ LinkInv /\ ResetInv /\ VerifyInv /\ SettingsInv

-----------------------------------------------------------------------------
(* The query of the settings page *)

LEMMA QueryType ==
    ASSUME NEW q \in TitleQuery, NEW value \in AccountText
    PROVE  /\ Mounted(q) \in TitleQuery /\ Mounted(q).data = q.data
           /\ Invalidated(q) \in TitleQuery /\ Invalidated(q).data = q.data
           /\ Answered(q, value) \in TitleQuery /\ Answered(q, value).data = q.data
           /\ Failed(q) \in TitleQuery /\ Failed(q).data = q.data
           /\ Settled(q) \in TitleQuery /\ Settled(q).data = q.got
<1>1. Started(q) \in TitleQuery /\ Started(q).data = q.data
  BY DEF Started, TitleQuery, AccountText
<1>2. Joined(q) \in TitleQuery /\ Joined(q).data = q.data
  BY DEF Joined, TitleQuery
<1>3. Answered(q, value) \in TitleQuery /\ Answered(q, value).data = q.data
  BY DEF Answered, TitleQuery
<1>4. Failed(q) \in TitleQuery /\ Failed(q).data = q.data
  BY DEF Failed, TitleQuery, AccountText
<1>5. Settled(q) \in TitleQuery /\ Settled(q).data = q.got
  BY DEF Settled, TitleQuery, AccountText
<1> QED BY <1>1, <1>2, <1>3, <1>4, <1>5 DEF Mounted, Invalidated

LEMMA FormType ==
    ASSUME NEW v \in View, NEW data \in AccountText
    PROVE  /\ FilledForm(v, data) \in View
           /\ FilledForm(v, data).status = v.status
           /\ FilledForm(v, data).title = IF data = NoData THEN "" ELSE data
  BY DEF FilledForm, View, AccountText

LEMMA NewViewType == NewView \in View /\ NewView.status = "idle"
  BY DEF NewView, View, AccountText

-----------------------------------------------------------------------------
(* Two kinds of steps: those that change what is shown, and those of a page that stays *)

\* A page that was shown goes on, or a new one begins.
Reshown ==
    /\ titleQuery' \in TitleQuery /\ titleQuery'.data = titleQuery.data
    /\ pageView' \in View /\ mount' \in Nat
    /\ pageView' = pageView \/ pageView'.status = "idle"
    /\ (route' = "/verify-email") => route = "/verify-email" /\ pageView' = pageView
    /\ OnPage("/app/settings")' =>
        \/ OnPage("/app/settings") /\ pageView' = pageView
        \/ pageView'.title = ShownTitle

LEMMA MountsReshows ==
    ASSUME PageTypes, Mounts(route', sessionLoading', account'),
           route' = "/verify-email" => route = "/verify-email"
    PROVE  Reshown
<1> DEFINE begins == /\ ShowsPage(route', sessionLoading', account')
                     /\ route' # route \/ ~ShowsPage(route, sessionLoading, account)
<1>1. ~begins => UNCHANGED <<mount, pageView, titleQuery>>
  BY DEF Mounts
<1>2. begins => /\ mount' = mount + 1
                /\ IF route' = "/app/settings"
                   THEN titleQuery' = Mounted(titleQuery) /\ pageView' = FilledForm(NewView, titleQuery.data)
                   ELSE pageView' = NewView /\ UNCHANGED titleQuery
  BY DEF Mounts
<1>3. titleQuery.data \in AccountText /\ titleQuery \in TitleQuery /\ mount \in Nat /\ pageView \in View
  BY DEF PageTypes, TitleQuery
<1>4. titleQuery' \in TitleQuery /\ titleQuery'.data = titleQuery.data
  BY <1>1, <1>2, <1>3, QueryType
<1>5. pageView' \in View /\ mount' \in Nat /\ (pageView' = pageView \/ pageView'.status = "idle")
  <2>1. /\ FilledForm(NewView, titleQuery.data) \in View
        /\ FilledForm(NewView, titleQuery.data).status = "idle"
    BY <1>3, FormType, NewViewType
  <2> QED BY <1>1, <1>2, <1>3, <2>1, NewViewType
<1>6. route' = "/verify-email" => route = "/verify-email" /\ pageView' = pageView
  BY <1>1 DEF ShowsPage, OpenPages
<1>7. OnPage("/app/settings")' => \/ OnPage("/app/settings") /\ pageView' = pageView
                                  \/ pageView'.title = ShownTitle
  <2> SUFFICES ASSUME OnPage("/app/settings")'
               PROVE  \/ OnPage("/app/settings") /\ pageView' = pageView
                      \/ pageView'.title = ShownTitle
    OBVIOUS
  <2>1. route' = "/app/settings" /\ ShowsPage(route', sessionLoading', account')
    BY DEF OnPage, ShowsPage
  <2>2. CASE begins
    <3>1. pageView' = FilledForm(NewView, titleQuery.data)
      BY <2>1, <2>2, <1>2
    <3>2. FilledForm(NewView, titleQuery.data).title = ShownTitle
      BY <1>3, FormType, NewViewType DEF ShownTitle
    <3> QED BY <3>1, <3>2
  <2>3. CASE ~begins
    BY <2>1, <2>3, <1>1 DEF OnPage
  <2> QED BY <2>2, <2>3
<1> QED BY <1>4, <1>5, <1>6, <1>7 DEF Reshown

\* What a step that changes the place leaves alone.
Moving ==
    /\ Reshown
    /\ accountCalls' \subseteq accountCalls
    /\ UNCHANGED <<called, verifyToken, resetToken, password, tenantTitle, role>>
    /\ mishaps' = mishaps \/ mishaps' = mishaps + 1

Staying == UNCHANGED <<route, opened, mount, sessionView, role>>

MovingStep ==
    \/ Redirecting \/ SessionRestored \/ SessionEnds
    \/ \E to \in Routes : FollowLink(to)
    \/ \E c \in accountCalls : AccountCallSucceeds(c) /\ c.kind \in {"login", "register", "reset"}

StayingStep ==
    \/ \E c \in accountCalls : \/ AccountCallHandled(c) \/ AccountCallFails(c)
                               \/ ProfileUpdated(c) \/ SettingsSaved(c)
                               \/ AccountCallSucceeds(c) /\ c.kind \notin {"login", "register", "reset"}
    \/ TitleAnswered \/ TitleArrives
    \/ \E kind \in {"login", "register", "forgot", "reset"} : SubmitPublicForm(kind)
    \/ VerifyEffect \/ TypeTitle \/ SubmitSettings
    \/ \E d \in {1, 2} : ToggleStatusDomain(d)

LEMMA StepsAreOfTwoKinds == AccountNext => MovingStep \/ StayingStep
  BY DEF AccountNext, AccountAnswers, MovingStep, StayingStep

\* No link, redirect or answer leads to the verification page.
LEMMA NavigateReshows ==
    ASSUME PageTypes, NEW to, Navigate(to), to # "/verify-email"
    PROVE  Reshown /\ UNCHANGED sessionView /\ route' = to
<1>1. route' = to /\ sessionLoading' = sessionLoading /\ account' = account
  BY DEF Navigate, sessionView
<1>2. Mounts(route', sessionLoading', account')
  BY <1>1 DEF Navigate
<1> QED BY <1>1, <1>2, MountsReshows DEF sessionView

LEMMA HomeOf == ASSUME NEW who PROVE Home(who) \in {"/admin", "/app"}
  BY DEF Home

LEMMA SessionReshows ==
    ASSUME PageTypes, NEW waiting, NEW who, SessionSeen(waiting, who), route' = route
    PROVE  Reshown
<1>1. Mounts(route', sessionLoading', account')
  BY DEF SessionSeen
<1> QED BY <1>1, MountsReshows

LEMMA MovingStepMoves ==
    ASSUME AccountTypes, MovingStep PROVE Moving
<1>0. PageTypes
  BY DEF AccountTypes
<1>1. ASSUME RootRedirect PROVE Moving
  <2>1. Navigate(IF account = "none" THEN "/login" ELSE Home(account))
    BY <1>1 DEF RootRedirect
  <2>2. (IF account = "none" THEN "/login" ELSE Home(account)) # "/verify-email"
    BY HomeOf
  <2>3. Reshown
    BY <2>1, <2>2, <1>0, NavigateReshows
  <2> QED BY <1>1, <2>3 DEF RootRedirect, Moving, calls, serverRows
<1>2. ASSUME ProtectedShell PROVE Moving
  <2>1. Navigate("/login") \/ Navigate("/app")
    BY <1>2 DEF ProtectedShell
  <2>2. Reshown
    BY <2>1, <1>0, NavigateReshows
  <2> QED BY <1>2, <2>2 DEF ProtectedShell, Moving, calls, serverRows
<1>3. ASSUME PublicOnly PROVE Moving
  <2>1. Navigate(Home(account)) /\ Home(account) # "/verify-email"
    BY <1>3, HomeOf DEF PublicOnly
  <2>2. Reshown
    BY <2>1, <1>0, NavigateReshows
  <2> QED BY <1>3, <2>2 DEF PublicOnly, Moving, calls, serverRows
<1>4. ASSUME SessionRestored PROVE Moving
  <2>1. route' = route /\ \E who : SessionSeen(FALSE, who)
    BY <1>4 DEF SessionRestored
  <2>2. Reshown
    BY <2>1, <1>0, SessionReshows
  <2> QED BY <1>4, <2>2 DEF SessionRestored, Moving, calls, serverRows, Mishap
<1>5. ASSUME SessionEnds PROVE Moving
  <2>1. route' = route /\ SessionSeen(FALSE, "none")
    BY <1>5 DEF SessionEnds
  <2>2. Reshown
    BY <2>1, <1>0, SessionReshows
  <2> QED BY <1>5, <2>2 DEF SessionEnds, Moving, calls, Mishap
<1>6. ASSUME NEW to \in Routes, FollowLink(to) PROVE Moving
  <2>1. Navigate(to) /\ to \in NavItems(route)
    BY <1>6 DEF FollowLink
  <2>2. to # "/verify-email"
    BY <2>1 DEF NavItems, Workspace
  <2>3. Reshown
    BY <2>1, <2>2, <1>0, NavigateReshows
  <2> QED BY <1>6, <2>3 DEF FollowLink, Moving, calls, serverRows
<1>7. ASSUME NEW c \in accountCalls, AccountCallSucceeds(c), c.kind \in {"login", "register", "reset"}
      PROVE  Moving
  <2>1. Reshown
    <3>1. CASE c.kind = "login"
      <4>1. /\ route' = Home(role) /\ sessionLoading' = FALSE /\ account' = role
            /\ Mounts(Home(role), FALSE, role)
        BY <1>7, <3>1 DEF AccountCallSucceeds
      <4>2. Mounts(route', sessionLoading', account') /\ route' # "/verify-email"
        BY <4>1, HomeOf
      <4> QED BY <4>2, <1>0, MountsReshows
    <3>2. CASE c.kind \in {"register", "reset"}
      <4>1. Navigate("/login")
        BY <1>7, <3>2 DEF AccountCallSucceeds
      <4> QED BY <4>1, <1>0, NavigateReshows
    <3> QED BY <1>7, <3>1, <3>2
  <2> QED BY <1>7, <2>1 DEF AccountCallSucceeds, Moving, serverRows
<1> QED BY <1>1, <1>2, <1>3, <1>4, <1>5, <1>6, <1>7 DEF MovingStep, Redirecting

\* A step that stays, and takes nothing off the form it shows.
LEMMA StayingStepStays ==
    ASSUME AccountTypes, StayingStep PROVE Staying
<1>1. ASSUME NEW c \in accountCalls, AccountCallHandled(c) PROVE Staying
  BY <1>1 DEF AccountCallHandled, Staying, place, sessionView
<1>2. ASSUME NEW c \in accountCalls, AccountCallFails(c) PROVE Staying
  BY <1>2 DEF AccountCallFails, Staying
<1>3. ASSUME NEW c \in accountCalls, ProfileUpdated(c) PROVE Staying
  BY <1>3 DEF ProfileUpdated, Staying
<1>4. ASSUME NEW c \in accountCalls, SettingsSaved(c) PROVE Staying
  BY <1>4 DEF SettingsSaved, Staying
<1>5. ASSUME NEW c \in accountCalls, AccountCallSucceeds(c), c.kind \notin {"login", "register", "reset"}
      PROVE  Staying
  BY <1>5 DEF AccountCallSucceeds, Staying
<1>6. ASSUME TitleAnswered \/ TitleArrives PROVE Staying
  BY <1>6 DEF TitleAnswered, TitleArrives, Staying, place, sessionView
<1>7. ASSUME NEW kind \in {"login", "register", "forgot", "reset"}, SubmitPublicForm(kind) PROVE Staying
  BY <1>7 DEF SubmitPublicForm, Staying
<1>8. ASSUME VerifyEffect \/ TypeTitle \/ SubmitSettings PROVE Staying
  BY <1>8 DEF VerifyEffect, TypeTitle, SubmitSettings, Staying
<1>9. ASSUME NEW d \in {1, 2}, ToggleStatusDomain(d) PROVE Staying
  BY <1>9 DEF ToggleStatusDomain, Staying
<1> QED BY <1>1, <1>2, <1>3, <1>4, <1>5, <1>6, <1>7, <1>8, <1>9 DEF StayingStep

-----------------------------------------------------------------------------
(* What becomes of the calls *)

LEMMA NewCallType ==
    ASSUME AccountTypes, NEW kind \in CallKind, called' = called + 1
    PROVE  /\ NewCall(kind, called') \in AccountCall
           /\ NewCall(kind, called').kind = kind /\ NewCall(kind, called').phase = "sent"
           /\ NewCall(kind, called').n = called + 1 /\ NewCall(kind, called').seen = NoData
<1>1. PICK n \in Nat : n = called + 1 /\ n = called'
  BY DEF AccountTypes, ServerTypes
<1>2. mount \in Nat
  BY DEF AccountTypes, PageTypes
<1>3. /\ NewCall(kind, n) \in AccountCall
      /\ NewCall(kind, n).kind = kind /\ NewCall(kind, n).phase = "sent"
      /\ NewCall(kind, n).n = n /\ NewCall(kind, n).seen = NoData
  BY <1>2 DEF NewCall, AccountCall, CallPhase, AccountText
<1> QED BY <1>1, <1>3

\* The calls go on: some are gone, or one is new, or one is a phase further.
Fewer == accountCalls' \subseteq accountCalls /\ called' = called
OneMore(new) ==
    /\ new \in AccountCall /\ new.phase = "sent" /\ new.n = called + 1
    /\ accountCalls' = accountCalls \cup {new} /\ called' = called + 1
Turned(c, next) ==
    /\ c \in accountCalls /\ next \in AccountCall /\ next = [c EXCEPT !.phase = next.phase]
    /\ accountCalls' = (accountCalls \ {c}) \cup {next} /\ called' = called

CallsGoOn ==
    \/ Fewer
    \/ \E new \in AccountCall : OneMore(new)
    \/ \E c \in accountCalls, next \in AccountCall : Turned(c, next)

LEMMA TurnTurns ==
    ASSUME AccountTypes, NEW c \in accountCalls, NEW step \in CallPhase, Turn(c, step), called' = called
    PROVE  \E next \in AccountCall : Turned(c, next) /\ next.phase = step
<1>1. c \in AccountCall
  BY DEF AccountTypes, ServerTypes
<1> DEFINE next == [c EXCEPT !.phase = step]
<1>2. next \in AccountCall /\ next.phase = step
  BY <1>1 DEF AccountCall
<1>3. Turned(c, next)
  BY <1>1, <1>2 DEF Turned, Turn
<1> QED BY <1>2, <1>3

\* A call that is a phase further is the same otherwise.
LEMMA TurnedSame ==
    ASSUME AccountTypes, NEW c, NEW next, Turned(c, next)
    PROVE  /\ c \in AccountCall /\ next.kind = c.kind /\ next.n = c.n
           /\ next.title = c.title /\ next.seen = c.seen
<1>1. c \in AccountCall /\ next = [c EXCEPT !.phase = next.phase]
  BY DEF Turned, AccountTypes, ServerTypes
<1> DEFINE step == next.phase
<1>2. next = [c EXCEPT !.phase = step]
  BY <1>1
<1> HIDE DEF step
<1> QED BY <1>1, <1>2 DEF AccountCall

LEMMA NumbersKept ==
    ASSUME AccountTypes, CallsNumbered, CallsGoOn
    PROVE  /\ accountCalls' \subseteq AccountCall /\ called' \in Nat
           /\ CallsNumbered'
<1>0. accountCalls \subseteq AccountCall /\ called \in Nat /\ \A c \in AccountCall : c.n \in Nat
  BY DEF AccountTypes, ServerTypes, AccountCall
<1>1. CASE Fewer
  BY <1>0, <1>1 DEF Fewer, CallsNumbered
<1>2. ASSUME NEW new \in AccountCall, OneMore(new)
      PROVE  accountCalls' \subseteq AccountCall /\ called' \in Nat /\ CallsNumbered'
  <2>1. \A c \in accountCalls : c.n # new.n /\ c.n <= called'
    BY <1>0, <1>2 DEF OneMore, CallsNumbered
  <2> QED BY <1>0, <1>2, <2>1 DEF OneMore, CallsNumbered
<1>3. ASSUME NEW c \in accountCalls, NEW next \in AccountCall, Turned(c, next)
      PROVE  accountCalls' \subseteq AccountCall /\ called' \in Nat /\ CallsNumbered'
  <2>1. next.n = c.n /\ next.n <= called'
    BY <1>3, TurnedSame DEF CallsNumbered, Turned
  <2>2. \A d \in accountCalls \ {c} : d.n # next.n
    BY <2>1 DEF CallsNumbered
  <2> QED BY <1>0, <1>3, <2>1, <2>2 DEF Turned, CallsNumbered
<1> QED BY <1>1, <1>2, <1>3 DEF CallsGoOn

-----------------------------------------------------------------------------
(* The steps of a page that stays, each with the calls *)

\* What the settings form sends: the title it shows, and the one it was filled with.
LEMMA SettingsCall ==
    ASSUME AccountTypes, SubmitSettings
    PROVE  \E new \in AccountCall :
              /\ OneMore(new) /\ new.kind = "settings" /\ new.title = pageView.title
              /\ new.seen = IF pageView.touched THEN NoData ELSE titleQuery.data
<1>1. PICK email \in BOOLEAN :
        accountCalls' = accountCalls \cup
            {[NewCall("settings", called') EXCEPT !.title = pageView.title, !.email = email,
                                               !.seen = IF pageView.touched THEN NoData ELSE titleQuery.data]}
  BY DEF SubmitSettings
<1>2. PICK seen \in AccountText : seen = IF pageView.touched THEN NoData ELSE titleQuery.data
  BY DEF AccountTypes, PageTypes, TitleQuery, AccountText
<1>3. pageView.title \in AccountText
  BY DEF AccountTypes, PageTypes, View
<1>4. PICK title \in AccountText : title = pageView.title
  BY <1>3
<1>5. PICK call \in AccountCall : call = NewCall("settings", called')
  BY NewCallType DEF SubmitSettings, CallRoom, CallKind
<1>6. called' = called + 1 /\ call.kind = "settings" /\ call.phase = "sent" /\ call.n = called + 1
  BY <1>5, NewCallType DEF SubmitSettings, CallRoom, CallKind
<1>7. PICK new : new = [call EXCEPT !.title = title, !.email = email, !.seen = seen]
  OBVIOUS
<1>8. /\ new \in AccountCall /\ new.kind = "settings" /\ new.phase = "sent" /\ new.n = called + 1
      /\ new.title = title /\ new.seen = seen
  BY <1>6, <1>7 DEF AccountCall
<1>9. accountCalls' = accountCalls \cup {new}
  BY <1>1, <1>2, <1>4, <1>5, <1>7
<1> QED BY <1>2, <1>4, <1>6, <1>8, <1>9 DEF OneMore

LEMMA StayingCallsGoOn ==
    ASSUME AccountTypes, StayingStep PROVE CallsGoOn
<1>1. ASSUME NEW c \in accountCalls, AccountCallHandled(c) PROVE CallsGoOn
  <2>1. called' = called /\ (Turn(c, "ok") \/ Turn(c, "bad"))
    BY <1>1 DEF AccountCallHandled
  <2> QED BY <2>1, TurnTurns DEF CallsGoOn, CallPhase
<1>2. ASSUME NEW c \in accountCalls, AccountCallFails(c) PROVE CallsGoOn
  BY <1>2 DEF AccountCallFails, CallsGoOn, Fewer
<1>3. ASSUME NEW c \in accountCalls, ProfileUpdated(c) PROVE CallsGoOn
  <2>1. called' = called /\ Turn(c, "fetching")
    BY <1>3 DEF ProfileUpdated
  <2> QED BY <2>1, TurnTurns DEF CallsGoOn, CallPhase
<1>4. ASSUME NEW c \in accountCalls, SettingsSaved(c) PROVE CallsGoOn
  BY <1>4 DEF SettingsSaved, CallsGoOn, Fewer
<1>5. ASSUME NEW c \in accountCalls, AccountCallSucceeds(c) PROVE CallsGoOn
  BY <1>5 DEF AccountCallSucceeds, CallsGoOn, Fewer
<1>6. ASSUME TitleAnswered \/ TitleArrives PROVE CallsGoOn
  BY <1>6 DEF TitleAnswered, TitleArrives, CallsGoOn, Fewer, calls
<1>7. ASSUME NEW kind \in {"login", "register", "forgot", "reset"}, SubmitPublicForm(kind) PROVE CallsGoOn
  <2>1. called' = called + 1 /\ accountCalls' = accountCalls \cup {NewCall(kind, called')}
    BY <1>7 DEF SubmitPublicForm, CallRoom
  <2>2. OneMore(NewCall(kind, called')) /\ NewCall(kind, called') \in AccountCall
    BY <2>1, NewCallType DEF OneMore, CallKind
  <2> QED BY <2>2 DEF CallsGoOn
<1>8. ASSUME VerifyEffect PROVE CallsGoOn
  <2>1. called' = called + 1 /\ accountCalls' = accountCalls \cup {NewCall("verify", called')}
    BY <1>8 DEF VerifyEffect, CallRoom
  <2>2. OneMore(NewCall("verify", called')) /\ NewCall("verify", called') \in AccountCall
    BY <2>1, NewCallType DEF OneMore, CallKind
  <2> QED BY <2>2 DEF CallsGoOn
<1>9. ASSUME TypeTitle PROVE CallsGoOn
  BY <1>9 DEF TypeTitle, CallsGoOn, Fewer, calls
<1>10. ASSUME SubmitSettings PROVE CallsGoOn
  BY <1>10, SettingsCall DEF CallsGoOn
<1>11. ASSUME NEW d \in {1, 2}, ToggleStatusDomain(d) PROVE CallsGoOn
  BY <1>11 DEF ToggleStatusDomain, CallsGoOn, Fewer, calls
<1> QED BY <1>1, <1>2, <1>3, <1>4, <1>5, <1>6, <1>7, <1>8, <1>9, <1>10, <1>11 DEF StayingStep

-----------------------------------------------------------------------------
(* Types *)

LEMMA ViewType ==
    ASSUME NEW v \in View, NEW status \in {"idle", "loading", "success", "error"},
           NEW flag \in BOOLEAN, NEW other \in BOOLEAN, NEW d \in Nat
    PROVE  /\ [v EXCEPT !.status = status] \in View
           /\ [v EXCEPT !.message = flag] \in View
           /\ [v EXCEPT !.error = flag] \in View
           /\ [v EXCEPT !.error = flag, !.message = other] \in View
           /\ [v EXCEPT !.title = "typed", !.touched = TRUE] \in View
           /\ [v EXCEPT !.open = d] \in View
<1>1. [v EXCEPT !.status = status] \in View /\ [v EXCEPT !.message = flag] \in View
  BY DEF View
<1>2. [v EXCEPT !.error = flag] \in View /\ [v EXCEPT !.error = flag, !.message = other] \in View
  BY DEF View
<1>3. [v EXCEPT !.title = "typed", !.touched = TRUE] \in View
  BY DEF View, AccountText
<1>4. [v EXCEPT !.open = d] \in View
  BY DEF View
<1> QED BY <1>1, <1>2, <1>3, <1>4

LEMMA StayingViews ==
    ASSUME AccountTypes, StayingStep PROVE pageView' \in View
<1>0. pageView \in View /\ titleQuery.data \in AccountText /\ titleQuery.got \in AccountText
  BY DEF AccountTypes, PageTypes, TitleQuery
<1>00. pageView.message \in BOOLEAN /\ pageView.open \in Nat
  BY <1>0 DEF View
<1>1. ASSUME NEW c \in accountCalls, AccountCallHandled(c) PROVE pageView' \in View
  BY <1>0, <1>1 DEF AccountCallHandled, place
<1>2. ASSUME NEW c \in accountCalls, AccountCallFails(c) PROVE pageView' \in View
  <2>1. PICK said \in BOOLEAN : said = (pageView.message /\ c.kind # "forgot")
    BY <1>00
  <2>2. pageView' \in {pageView, [pageView EXCEPT !.status = "error"], [pageView EXCEPT !.error = TRUE, !.message = said]}
    BY <1>2, <2>1 DEF AccountCallFails
  <2> QED BY <1>0, <2>2, ViewType
<1>3. ASSUME NEW c \in accountCalls, ProfileUpdated(c) PROVE pageView' \in View
  BY <1>0, <1>3, FormType DEF ProfileUpdated
<1>4. ASSUME NEW c \in accountCalls, SettingsSaved(c) PROVE pageView' \in View
  BY <1>0, <1>4, ViewType DEF SettingsSaved
<1>5. ASSUME NEW c \in accountCalls, AccountCallSucceeds(c), c.kind \notin {"login", "register", "reset"}
      PROVE  pageView' \in View
  <2>1. pageView' \in {pageView, [pageView EXCEPT !.status = "success"], [pageView EXCEPT !.message = TRUE]}
    BY <1>5 DEF AccountCallSucceeds
  <2> QED BY <1>0, <2>1, ViewType
<1>6. ASSUME TitleAnswered PROVE pageView' \in View
  BY <1>0, <1>6 DEF TitleAnswered, place
<1>7. ASSUME TitleArrives PROVE pageView' \in View
  BY <1>0, <1>7, FormType DEF TitleArrives
<1>8. ASSUME NEW kind \in {"login", "register", "forgot", "reset"}, SubmitPublicForm(kind) PROVE pageView' \in View
  BY <1>0, <1>8, ViewType DEF SubmitPublicForm
<1>9. ASSUME VerifyEffect PROVE pageView' \in View
  BY <1>0, <1>9, ViewType DEF VerifyEffect
<1>10. ASSUME TypeTitle PROVE pageView' \in View
  BY <1>0, <1>10, ViewType DEF TypeTitle
<1>11. ASSUME SubmitSettings PROVE pageView' \in View
  BY <1>0, <1>11, ViewType DEF SubmitSettings
<1>12. ASSUME NEW d \in {1, 2}, ToggleStatusDomain(d) PROVE pageView' \in View
  <2>1. PICK new \in Nat : new = IF pageView.open = d THEN 0 ELSE d
    OBVIOUS
  <2>2. pageView' = [pageView EXCEPT !.open = new]
    BY <1>12, <2>1 DEF ToggleStatusDomain
  <2> QED BY <1>0, <2>1, <2>2, ViewType
<1> QED BY <1>1, <1>2, <1>3, <1>4, <1>5, <1>6, <1>7, <1>8, <1>9, <1>10, <1>11, <1>12 DEF StayingStep

\* Mishaps only add up, and the title of the tenant is one that was typed or shown.
LEMMA StayingRest ==
    ASSUME AccountTypes, StayingStep
    PROVE  /\ mishaps' = mishaps \/ mishaps' = mishaps + 1
           /\ tenantTitle' \in AccountText /\ titleQuery' \in TitleQuery
<1> DEFINE Rest == /\ mishaps' = mishaps \/ mishaps' = mishaps + 1
                   /\ tenantTitle' \in AccountText /\ titleQuery' \in TitleQuery
<1>0. tenantTitle \in AccountText /\ titleQuery \in TitleQuery /\ \A c \in accountCalls : c.title \in AccountText
  BY DEF AccountTypes, PageTypes, ServerTypes, AccountCall
<1>1. ASSUME NEW c \in accountCalls, AccountCallHandled(c) PROVE Rest
  BY <1>0, <1>1 DEF AccountCallHandled, Mishap
<1>2. ASSUME NEW c \in accountCalls, AccountCallFails(c) PROVE Rest
  BY <1>0, <1>2 DEF AccountCallFails, Mishap, serverRows
<1>3. ASSUME NEW c \in accountCalls, ProfileUpdated(c) PROVE Rest
  BY <1>0, <1>3, QueryType DEF ProfileUpdated, serverRows
<1>4. ASSUME NEW c \in accountCalls, SettingsSaved(c) PROVE Rest
  BY <1>0, <1>4 DEF SettingsSaved, serverRows
<1>5. ASSUME NEW c \in accountCalls, AccountCallSucceeds(c), c.kind \notin {"login", "register", "reset"} PROVE Rest
  BY <1>0, <1>5 DEF AccountCallSucceeds, serverRows
<1>6. ASSUME TitleAnswered PROVE Rest
  BY <1>0, <1>6, QueryType DEF TitleAnswered, serverRows
<1>7. ASSUME TitleArrives PROVE Rest
  BY <1>0, <1>7, QueryType DEF TitleArrives, serverRows, Mishap
<1>8. ASSUME NEW kind \in {"login", "register", "forgot", "reset"}, SubmitPublicForm(kind) PROVE Rest
  BY <1>0, <1>8 DEF SubmitPublicForm, serverRows
<1>9. ASSUME VerifyEffect PROVE Rest
  BY <1>0, <1>9 DEF VerifyEffect, serverRows, Mishap
<1>10. ASSUME TypeTitle \/ SubmitSettings PROVE Rest
  BY <1>0, <1>10 DEF TypeTitle, SubmitSettings, serverRows
<1>11. ASSUME NEW d \in {1, 2}, ToggleStatusDomain(d) PROVE Rest
  BY <1>0, <1>11 DEF ToggleStatusDomain, serverRows
<1> QED BY <1>1, <1>2, <1>3, <1>4, <1>5, <1>6, <1>7, <1>8, <1>9, <1>10, <1>11 DEF StayingStep

LEMMA AccountTypesStep ==
    ASSUME AccountTypes, CallsNumbered, AccountNext
    PROVE  AccountTypes' /\ CallsNumbered'
<1>1. CASE MovingStep
  <2>1. Moving
    BY <1>1, MovingStepMoves
  <2>2. accountCalls' \subseteq AccountCall /\ called' \in Nat /\ CallsNumbered'
    BY <2>1, NumbersKept DEF Moving, CallsGoOn, Fewer
  <2> QED BY <2>1, <2>2 DEF Moving, Reshown, AccountTypes, PageTypes, ServerTypes
<1>2. CASE StayingStep
  <2>1. accountCalls' \subseteq AccountCall /\ called' \in Nat /\ CallsNumbered'
    BY <1>2, StayingCallsGoOn, NumbersKept
  <2>2. mount' \in Nat /\ role' \in {"tenant_owner", "super_admin"}
    BY <1>2, StayingStepStays DEF Staying, AccountTypes, PageTypes, ServerTypes
  <2> QED BY <1>2, <2>1, <2>2, StayingViews, StayingRest DEF AccountTypes, PageTypes, ServerTypes
<1> QED BY <1>1, <1>2, StepsAreOfTwoKinds

-----------------------------------------------------------------------------
(* Where a link leads *)

LEMMA LandingOf ==
    ASSUME NEW at, NEW who
    PROVE  /\ Landing(at, who) # "/" /\ Landing(at, who) \notin PublicOnlyPages
           /\ at = "/" \/ at \in PublicOnlyPages => Landing(at, who) = Home(who)
           /\ Landing(at, "tenant_owner") # "/admin"
           /\ at = "/admin" => Landing(at, "tenant_owner") = "/app"
  BY DEF Landing, Home, PublicOnlyPages

LEMMA LinkStep ==
    ASSUME AccountTypes, LinkInv, AccountNext PROVE LinkInv'
<1>1. ASSUME RootRedirect PROVE LinkInv'
  <2>1. /\ ~sessionLoading /\ opened' = opened /\ sessionLoading' = sessionLoading /\ account' = account
        /\ route = "/" /\ (account # "none" => route' = Home(account))
    BY <1>1 DEF RootRedirect, Navigate, sessionView
  <2> QED BY <2>1, LandingOf DEF LinkInv
<1>2. ASSUME ProtectedShell PROVE LinkInv'
  <2>1. /\ ~sessionLoading /\ opened' = opened /\ sessionLoading' = sessionLoading /\ account' = account
        /\ account # "none" => route = "/admin" /\ account = "tenant_owner" /\ route' = "/app"
    BY <1>2 DEF ProtectedShell, Navigate, sessionView
  <2>2. CASE opened # "moved" /\ account # "none"
    <3>1. account = "tenant_owner" /\ route \in {opened, Landing(opened, "tenant_owner")}
      BY <2>1, <2>2 DEF LinkInv
    <3>2. opened = "/admin" /\ route' = Landing(opened, "tenant_owner")
      BY <2>1, <2>2, <3>1, LandingOf
    <3> QED BY <2>1, <2>2, <3>1, <3>2 DEF LinkInv
  <2>3. CASE ~(opened # "moved" /\ account # "none")
    BY <2>1, <2>3 DEF LinkInv
  <2> QED BY <2>2, <2>3
<1>3. ASSUME PublicOnly PROVE LinkInv'
  <2>1. /\ ~sessionLoading /\ opened' = opened /\ sessionLoading' = sessionLoading /\ account' = account
        /\ route \in PublicOnlyPages /\ route' = Home(account)
    BY <1>3 DEF PublicOnly, Navigate, sessionView
  <2> QED BY <2>1, LandingOf DEF LinkInv
<1>4. ASSUME SessionRestored PROVE LinkInv'
  BY <1>4 DEF SessionRestored, SessionSeen, LinkInv
<1>5. ASSUME SessionEnds PROVE LinkInv'
  BY <1>5 DEF SessionEnds, SessionSeen, LinkInv
<1>6. ASSUME NEW to \in Routes, FollowLink(to) PROVE LinkInv'
  BY <1>6 DEF FollowLink, LinkInv
<1>7. ASSUME NEW c \in accountCalls, AccountCallSucceeds(c), c.kind \in {"login", "register", "reset"}
      PROVE  LinkInv'
  BY <1>7 DEF AccountCallSucceeds, LinkInv
<1>8. CASE MovingStep
  BY <1>1, <1>2, <1>3, <1>4, <1>5, <1>6, <1>7, <1>8 DEF MovingStep, Redirecting
<1>9. CASE StayingStep
  BY <1>9, StayingStepStays DEF Staying, sessionView, LinkInv
<1> QED BY <1>8, <1>9, StepsAreOfTwoKinds

-----------------------------------------------------------------------------
(* What the server has done for a call *)

Accepted(c) ==
    /\ Acceptable(c) /\ mishaps' = mishaps
    /\ verifyToken' = IF c.kind = "verify" THEN "consumed" ELSE verifyToken
    /\ resetToken' = IF c.kind = "reset" THEN "consumed" ELSE resetToken
    /\ password' = IF c.kind = "reset" THEN c.n ELSE password
    /\ tenantTitle' = IF c.kind = "settings" THEN c.title ELSE tenantTitle

RefusedCall(c) ==
    /\ Acceptable(c) => mishaps' = mishaps + 1
    /\ UNCHANGED <<verifyToken, resetToken, password, tenantTitle>>

LEMMA AcceptedOrRefused ==
    ASSUME AccountTypes, NEW c \in accountCalls, AccountCallHandled(c)
    PROVE  \E next \in AccountCall :
              /\ Turned(c, next) /\ c.phase = "sent"
              /\ (next.phase = "ok" /\ Accepted(c)) \/ (next.phase = "bad" /\ RefusedCall(c))
<1>1. c.phase = "sent" /\ called' = called
  BY DEF AccountCallHandled
<1>2. (Turn(c, "ok") /\ Accepted(c)) \/ (Turn(c, "bad") /\ RefusedCall(c))
  BY DEF AccountCallHandled, Accepted, RefusedCall, Mishap
<1>3. CASE Turn(c, "ok") /\ Accepted(c)
  <2>1. PICK next \in AccountCall : Turned(c, next) /\ next.phase = "ok"
    BY <1>1, <1>3, TurnTurns DEF CallPhase
  <2> QED BY <1>1, <1>3, <2>1
<1>4. CASE Turn(c, "bad") /\ RefusedCall(c)
  <2>1. PICK next \in AccountCall : Turned(c, next) /\ next.phase = "bad"
    BY <1>1, <1>4, TurnTurns DEF CallPhase
  <2> QED BY <1>1, <1>4, <2>1
<1> QED BY <1>2, <1>3, <1>4

\* The server's rows change where a call is handled, and nowhere else.
Served == \E c \in accountCalls : AccountCallHandled(c)

LEMMA RowsElsewhere ==
    ASSUME AccountTypes, AccountNext, ~Served
    PROVE  /\ UNCHANGED <<verifyToken, resetToken, password, tenantTitle>>
           /\ \/ Fewer
              \/ \E new \in AccountCall :
                    /\ OneMore(new)
                    /\ new.kind = "verify" => VerifyEffect
                    /\ new.kind = "settings" => SubmitSettings
              \/ \E c \in accountCalls, next \in AccountCall :
                    Turned(c, next) /\ c.kind = "settings" /\ next.phase = "fetching"
<1> DEFINE Rows == UNCHANGED <<verifyToken, resetToken, password, tenantTitle>>
           Gone == /\ Rows
                   /\ \/ Fewer
                      \/ \E new \in AccountCall :
                            /\ OneMore(new)
                            /\ new.kind = "verify" => VerifyEffect
                            /\ new.kind = "settings" => SubmitSettings
                      \/ \E c \in accountCalls, next \in AccountCall :
                            Turned(c, next) /\ c.kind = "settings" /\ next.phase = "fetching"
<1>1. CASE MovingStep
  <2>1. Moving
    BY <1>1, MovingStepMoves
  <2> QED BY <2>1 DEF Moving, Fewer
<1>2. ASSUME NEW c \in accountCalls, AccountCallFails(c) \/ SettingsSaved(c) \/ AccountCallSucceeds(c) PROVE Gone
  <2>1. Fewer
    BY <1>2 DEF AccountCallFails, SettingsSaved, AccountCallSucceeds, Fewer
  <2>2. Rows
    BY <1>2 DEF AccountCallFails, SettingsSaved, AccountCallSucceeds, serverRows
  <2> QED BY <2>1, <2>2
<1>3. ASSUME NEW c \in accountCalls, ProfileUpdated(c) PROVE Gone
  <2>1. Rows /\ c.kind = "settings" /\ called' = called /\ Turn(c, "fetching")
    BY <1>3 DEF ProfileUpdated, serverRows
  <2>2. \E next \in AccountCall : Turned(c, next) /\ next.phase = "fetching"
    BY <2>1, TurnTurns DEF CallPhase
  <2> QED BY <2>1, <2>2
<1>4. ASSUME TitleAnswered \/ TitleArrives \/ TypeTitle \/ \E d \in {1, 2} : ToggleStatusDomain(d) PROVE Gone
  BY <1>4 DEF TitleAnswered, TitleArrives, TypeTitle, ToggleStatusDomain, Fewer, calls, serverRows
<1>5. ASSUME NEW kind \in {"login", "register", "forgot", "reset"}, SubmitPublicForm(kind) PROVE Gone
  <2>1. Rows /\ called' = called + 1 /\ accountCalls' = accountCalls \cup {NewCall(kind, called')}
    BY <1>5 DEF SubmitPublicForm, CallRoom, serverRows
  <2>2. /\ OneMore(NewCall(kind, called')) /\ NewCall(kind, called') \in AccountCall
        /\ NewCall(kind, called').kind \notin {"verify", "settings"}
    BY <2>1, NewCallType DEF OneMore, CallKind
  <2> QED BY <2>1, <2>2
<1>6. ASSUME VerifyEffect PROVE Gone
  <2>1. Rows /\ called' = called + 1 /\ accountCalls' = accountCalls \cup {NewCall("verify", called')}
    BY <1>6 DEF VerifyEffect, CallRoom, serverRows
  <2>2. /\ OneMore(NewCall("verify", called')) /\ NewCall("verify", called') \in AccountCall
        /\ NewCall("verify", called').kind = "verify"
    BY <2>1, NewCallType DEF OneMore, CallKind
  <2> QED BY <1>6, <2>1, <2>2
<1>7. ASSUME SubmitSettings PROVE Gone
  <2>1. Rows
    BY <1>7 DEF SubmitSettings, serverRows
  <2>2. \E new \in AccountCall : OneMore(new) /\ new.kind = "settings"
    BY <1>7, SettingsCall
  <2> QED BY <1>7, <2>1, <2>2
<1>8. CASE StayingStep
  BY <1>2, <1>3, <1>4, <1>5, <1>6, <1>7, <1>8 DEF StayingStep, Served
<1> QED BY <1>1, <1>8, StepsAreOfTwoKinds

LEMMA ResetStep ==
    ASSUME AccountTypes, CallsNumbered, ResetInv, AccountNext PROVE ResetInv'
<1>1. CASE Served
  <2>1. PICK c \in accountCalls : AccountCallHandled(c)
    BY <1>1 DEF Served
  <2>2. PICK next \in AccountCall :
           /\ Turned(c, next) /\ c.phase = "sent"
           /\ (next.phase = "ok" /\ Accepted(c)) \/ (next.phase = "bad" /\ RefusedCall(c))
    BY <2>1, AcceptedOrRefused
  <2>3. next.kind = c.kind /\ next.n = c.n /\ accountCalls' = (accountCalls \ {c}) \cup {next}
    BY <2>2, TurnedSame DEF Turned
  <2>4. CASE next.phase = "bad" /\ RefusedCall(c)
    BY <2>3, <2>4 DEF ResetInv, RefusedCall
  <2>5. CASE next.phase = "ok" /\ Accepted(c)
    <3>1. CASE c.kind = "reset"
      <4>1. resetToken = "fresh"
        BY <2>5, <3>1 DEF Accepted, Acceptable, Usable
      <4>2. \A d \in accountCalls : ~(d.kind = "reset" /\ d.phase = "ok")
        BY <4>1 DEF ResetInv
      <4> QED BY <2>3, <2>5, <3>1, <4>2 DEF Accepted, ResetInv
    <3>2. CASE c.kind # "reset"
      BY <2>3, <2>5, <3>2 DEF Accepted, ResetInv
    <3> QED BY <3>1, <3>2
  <2> QED BY <2>2, <2>4, <2>5
<1>2. CASE ~Served
  <2>1. UNCHANGED <<resetToken, password>>
    BY <1>2, RowsElsewhere
  <2>2. CASE Fewer
    BY <2>1, <2>2 DEF Fewer, ResetInv
  <2>3. ASSUME NEW new \in AccountCall, OneMore(new) PROVE ResetInv'
    BY <2>1, <2>3 DEF OneMore, ResetInv
  <2>4. ASSUME NEW c \in accountCalls, NEW next \in AccountCall, Turned(c, next), next.phase = "fetching"
        PROVE  ResetInv'
    BY <2>1, <2>4 DEF Turned, ResetInv
  <2> QED BY <1>2, <2>2, <2>3, <2>4, RowsElsewhere
<1> QED BY <1>1, <1>2

-----------------------------------------------------------------------------
(* The page that verifies *)

\* Only three steps say how the verification went.
LEMMA StatusElsewhere ==
    ASSUME AccountTypes, StayingStep, ~VerifyEffect,
           \A c \in accountCalls : ~AccountCallFails(c) /\ ~AccountCallSucceeds(c)
    PROVE  pageView'.status = pageView.status
<1>0. pageView \in View /\ titleQuery.data \in AccountText /\ titleQuery.got \in AccountText
  BY DEF AccountTypes, PageTypes, TitleQuery
<1>1. ASSUME NEW c \in accountCalls, AccountCallHandled(c) PROVE pageView'.status = pageView.status
  BY <1>1 DEF AccountCallHandled, place
<1>2. ASSUME NEW c \in accountCalls, ProfileUpdated(c) PROVE pageView'.status = pageView.status
  BY <1>0, <1>2, FormType DEF ProfileUpdated
<1>3. ASSUME NEW c \in accountCalls, SettingsSaved(c) PROVE pageView'.status = pageView.status
  BY <1>0, <1>3 DEF SettingsSaved, View
<1>4. ASSUME TitleAnswered PROVE pageView'.status = pageView.status
  BY <1>4 DEF TitleAnswered, place
<1>5. ASSUME TitleArrives PROVE pageView'.status = pageView.status
  BY <1>0, <1>5, FormType DEF TitleArrives
<1>6. ASSUME NEW kind \in {"login", "register", "forgot", "reset"}, SubmitPublicForm(kind)
      PROVE  pageView'.status = pageView.status
  BY <1>0, <1>6 DEF SubmitPublicForm, View
<1>7. ASSUME TypeTitle \/ SubmitSettings PROVE pageView'.status = pageView.status
  BY <1>0, <1>7 DEF TypeTitle, SubmitSettings, View
<1>8. ASSUME NEW d \in {1, 2}, ToggleStatusDomain(d) PROVE pageView'.status = pageView.status
  BY <1>0, <1>8 DEF ToggleStatusDomain, View
<1> QED BY <1>1, <1>2, <1>3, <1>4, <1>5, <1>6, <1>7, <1>8 DEF StayingStep

LEMMA VerifyStep ==
    ASSUME AccountTypes, VerifyInv, AccountNext PROVE VerifyInv'
<1>0. mishaps \in Nat /\ pageView \in View /\ accountCalls \subseteq AccountCall
  BY DEF AccountTypes, PageTypes, ServerTypes
<1>1. CASE MovingStep
  <2>1. Moving
    BY <1>1, MovingStepMoves
  <2>2. /\ pageView' = pageView \/ pageView'.status = "idle"
        /\ route' = "/verify-email" => route = "/verify-email" /\ pageView' = pageView
        /\ accountCalls' \subseteq accountCalls /\ verifyToken' = verifyToken
        /\ mishaps' = 0 => mishaps = 0
    BY <1>0, <2>1 DEF Moving, Reshown
  <2>3. mishaps = 0 /\ OneVerification => OneVerification'
    BY <2>2 DEF OneVerification
  <2> QED BY <2>2, <2>3 DEF VerifyInv
<1>2. CASE StayingStep
  <2>0. route' = route /\ (mishaps' = 0 => mishaps = 0 /\ OneVerification)
    BY <1>0, <1>2, StayingStepStays, StayingRest DEF Staying, VerifyInv
  <2>1. ASSUME NEW c \in accountCalls, AccountCallHandled(c) PROVE VerifyInv'
    <3>1. PICK next \in AccountCall :
             /\ Turned(c, next) /\ c.phase = "sent"
             /\ (next.phase = "ok" /\ Accepted(c)) \/ (next.phase = "bad" /\ RefusedCall(c))
      BY <2>1, AcceptedOrRefused
    <3>2. next.kind = c.kind /\ accountCalls' = (accountCalls \ {c}) \cup {next} /\ pageView' = pageView
      BY <2>1, <3>1, TurnedSame DEF Turned, AccountCallHandled, place
    <3>3. /\ verifyToken = "consumed" => verifyToken' = "consumed"
          /\ next.phase = "ok" /\ c.kind = "verify" => verifyToken' = "consumed"
          /\ c.kind # "verify" => verifyToken' = verifyToken
      BY <3>1 DEF Accepted, RefusedCall
    <3>4. (mishaps' = 0 /\ c.kind = "verify") => next.phase = "ok"
      <4> SUFFICES ASSUME mishaps' = 0, c.kind = "verify" PROVE next.phase = "ok"
        OBVIOUS
      <4>1. verifyToken = "fresh" /\ mishaps = 0
        BY <2>0, <3>1 DEF OneVerification
      <4>2. Acceptable(c)
        BY <4>1 DEF Acceptable, Usable
      <4> QED BY <3>1, <4>1, <4>2 DEF RefusedCall
    <3>5. mishaps' = 0 => OneVerification'
      <4> SUFFICES ASSUME mishaps' = 0 PROVE OneVerification'
        OBVIOUS
      <4>1. OneVerification
        BY <2>0
      <4>2. CASE c.kind = "verify"
        <5>1. \A d \in accountCalls' : d.kind = "verify" => d = next
          BY <3>2, <4>1, <4>2 DEF OneVerification
        <5>2. ~(route' = "/verify-email" /\ pageView'.status = "idle")
          BY <2>0, <3>2, <4>1, <4>2 DEF OneVerification
        <5>3. next.phase = "ok"
          BY <3>4, <4>2
        <5> QED BY <3>2, <4>1, <5>1, <5>2, <5>3 DEF OneVerification
      <4>3. CASE c.kind # "verify"
        BY <2>0, <3>2, <3>3, <4>1, <4>3 DEF OneVerification
      <4> QED BY <4>2, <4>3
    <3> QED BY <3>2, <3>3, <3>5 DEF VerifyInv
  <2>2. ASSUME ~Served PROVE /\ verifyToken' = verifyToken
                             /\ \A d \in accountCalls' :
                                   d \in accountCalls \/ d.kind # "verify" \/ (d.phase = "sent" /\ VerifyEffect)
    <3>1. verifyToken' = verifyToken
      BY <2>2, RowsElsewhere, <1>2
    <3>2. CASE Fewer
      BY <3>1, <3>2 DEF Fewer
    <3>3. ASSUME NEW new \in AccountCall, OneMore(new), new.kind = "verify" => VerifyEffect
          PROVE  \A d \in accountCalls' :
                    d \in accountCalls \/ d.kind # "verify" \/ (d.phase = "sent" /\ VerifyEffect)
      BY <3>3 DEF OneMore
    <3>4. ASSUME NEW c \in accountCalls, NEW next \in AccountCall, Turned(c, next), c.kind = "settings"
          PROVE  \A d \in accountCalls' : d \in accountCalls \/ d.kind # "verify"
      <4>1. next.kind = "settings"
        BY <3>4, TurnedSame
      <4> QED BY <3>4, <4>1 DEF Turned
    <3> QED BY <2>2, <3>1, <3>2, <3>3, <3>4, RowsElsewhere
  <2>3. ASSUME NEW c \in accountCalls, AccountCallFails(c), ~Served PROVE VerifyInv'
    <3>1. accountCalls' = accountCalls \ {c} /\ verifyToken' = verifyToken
      BY <2>2, <2>3 DEF AccountCallFails
    <3>2. pageView'.status = pageView.status \/ (pageView'.status = "error" /\ c.kind = "verify")
      BY <1>0, <2>3 DEF AccountCallFails, View
    <3>3. mishaps' = 0 => c.phase = "bad"
      BY <1>0, <2>3 DEF AccountCallFails, Mishap
    <3>4. mishaps' = 0 => OneVerification'
      BY <2>0, <3>1, <3>2, <3>3 DEF OneVerification
    <3> QED BY <3>1, <3>2, <3>4 DEF VerifyInv
  <2>4. ASSUME NEW c \in accountCalls, AccountCallSucceeds(c), ~Served PROVE VerifyInv'
    <3>1. /\ accountCalls' = accountCalls \ {c} /\ verifyToken' = verifyToken
          /\ c.phase = "ok"
      BY <2>2, <2>4 DEF AccountCallSucceeds
    <3>2. CASE c.kind \in {"login", "register", "reset"}
      BY <1>1, <2>4, <3>2 DEF MovingStep
    <3>3. CASE c.kind \notin {"login", "register", "reset"}
      <4>1. pageView'.status = pageView.status \/ (pageView'.status = "success" /\ c.kind = "verify")
        BY <1>0, <2>4, <3>3 DEF AccountCallSucceeds, View
      <4>2. (c.kind = "verify") => verifyToken' = "consumed"
        BY <3>1 DEF VerifyInv
      <4>3. mishaps' = 0 => OneVerification'
        BY <2>0, <3>1, <4>1 DEF OneVerification
      <4> QED BY <3>1, <4>1, <4>2, <4>3 DEF VerifyInv
    <3> QED BY <3>2, <3>3
  <2>5. ASSUME VerifyEffect, ~Served PROVE VerifyInv'
    <3>1. verifyToken' = verifyToken
      BY <2>2, <2>5
    <3>2. pageView'.status = "loading"
      BY <1>0, <2>5 DEF VerifyEffect, View
    <3>3. called' = called + 1 /\ accountCalls' = accountCalls \cup {NewCall("verify", called')}
      BY <2>5 DEF VerifyEffect, CallRoom
    <3>4. PICK new \in AccountCall : new.phase = "sent" /\ accountCalls' = accountCalls \cup {new}
      BY <3>3, NewCallType DEF CallKind
    <3>5. mishaps' = 0 => pageView.status = "idle" /\ route = "/verify-email"
      BY <1>0, <2>5 DEF VerifyEffect, Mishap, OnPage
    <3>6. mishaps' = 0 => OneVerification'
      <4> SUFFICES ASSUME mishaps' = 0 PROVE OneVerification'
        OBVIOUS
      <4>1. verifyToken = "fresh" /\ \A c \in accountCalls : c.kind # "verify"
        BY <2>0, <3>5 DEF OneVerification
      <4> QED BY <3>1, <3>2, <3>4, <4>1 DEF OneVerification
    <3> QED BY <3>1, <3>2, <3>4, <3>6 DEF VerifyInv
  <2>6. ASSUME ~Served, ~VerifyEffect, \A c \in accountCalls : ~AccountCallFails(c) /\ ~AccountCallSucceeds(c)
        PROVE  VerifyInv'
    <3>1. pageView'.status = pageView.status
      BY <1>2, <2>6, StatusElsewhere
    <3>2. verifyToken' = verifyToken /\ \A d \in accountCalls' : d \in accountCalls \/ d.kind # "verify"
      BY <2>2, <2>6
    <3>3. mishaps' = 0 => OneVerification'
      BY <2>0, <3>1, <3>2 DEF OneVerification
    <3> QED BY <3>1, <3>2, <3>3 DEF VerifyInv
  <2> QED BY <2>1, <2>3, <2>4, <2>5, <2>6 DEF Served
<1> QED BY <1>1, <1>2, StepsAreOfTwoKinds

-----------------------------------------------------------------------------
(* The settings form *)

\* The form that is shown and not typed into.
Untouched == OnPage("/app/settings") /\ ~pageView.touched

LEMMA FormShown ==
    ASSUME AccountTypes, AccountNext, Untouched => pageView.title = ShownTitle
    PROVE  Untouched' => pageView'.title = ShownTitle'
<1>0. /\ pageView \in View /\ titleQuery \in TitleQuery /\ tenantTitle \in AccountText
      /\ titleQuery.data \in AccountText /\ titleQuery.got \in AccountText
  BY DEF AccountTypes, PageTypes, ServerTypes, TitleQuery
<1> DEFINE Kept == titleQuery'.data = titleQuery.data
           Same == pageView'.title = pageView.title /\ pageView'.touched = pageView.touched
           Goal == Untouched' => pageView'.title = ShownTitle'
<1>1. CASE MovingStep
  <2>1. Reshown
    BY <1>1, MovingStepMoves DEF Moving
  <2>2. ShownTitle' = ShownTitle
    BY <2>1 DEF Reshown, ShownTitle
  <2> QED BY <2>1, <2>2 DEF Reshown, Untouched
<1>2. CASE StayingStep
  <2>0. OnPage("/app/settings")' <=> OnPage("/app/settings")
    BY <1>2, StayingStepStays DEF Staying, sessionView, OnPage, ShowsPage
  <2>1. ASSUME Same, Kept PROVE Goal
    BY <2>0, <2>1 DEF Untouched, ShownTitle
  <2>2. ASSUME NEW c \in accountCalls, AccountCallHandled(c) PROVE Goal
    BY <2>1, <2>2 DEF AccountCallHandled, place
  <2>3. ASSUME NEW c \in accountCalls, AccountCallFails(c) PROVE Goal
    <3>1. Same /\ Kept
      BY <1>0, <2>3 DEF AccountCallFails, View
    <3> QED BY <2>1, <3>1
  <2>4. ASSUME NEW c \in accountCalls, AccountCallSucceeds(c), c.kind \notin {"login", "register", "reset"} PROVE Goal
    <3>1. Same /\ Kept
      BY <1>0, <2>4 DEF AccountCallSucceeds, View
    <3> QED BY <2>1, <3>1
  <2>5. ASSUME NEW c \in accountCalls, ProfileUpdated(c) PROVE Goal
    <3>1. Kept
      BY <1>0, <2>5, QueryType DEF ProfileUpdated
    <3>2. CASE pageView' = pageView
      BY <2>1, <3>1, <3>2
    <3>3. CASE pageView' = FilledForm(pageView, titleQuery.data)
      BY <1>0, <3>1, <3>3, FormType DEF ShownTitle
    <3> QED BY <2>5, <3>2, <3>3 DEF ProfileUpdated
  <2>6. ASSUME NEW c \in accountCalls, SettingsSaved(c) PROVE Goal
    <3>1. Same /\ Kept
      BY <1>0, <2>6 DEF SettingsSaved, View
    <3> QED BY <2>1, <3>1
  <2>7. ASSUME TitleAnswered PROVE Goal
    <3>1. Same /\ Kept
      BY <1>0, <2>7, QueryType DEF TitleAnswered, place
    <3> QED BY <2>1, <3>1
  <2>8. ASSUME TitleArrives PROVE Goal
    <3>1. CASE titleQuery' = Settled(titleQuery) /\ pageView' = FilledForm(pageView, titleQuery.got)
      <4>1. titleQuery'.data = titleQuery.got
        BY <1>0, <3>1, QueryType
      <4>2. pageView'.title = IF titleQuery.got = NoData THEN "" ELSE titleQuery.got
        BY <1>0, <3>1, FormType
      <4> QED BY <4>1, <4>2 DEF ShownTitle
    <3>2. CASE /\ titleQuery' = Settled(titleQuery) /\ pageView' = pageView
               /\ ~(OnPage("/app/settings") /\ titleQuery.got # titleQuery.data)
      <4>1. titleQuery'.data = titleQuery.got
        BY <1>0, <3>2, QueryType
      <4>2. OnPage("/app/settings") => Kept
        BY <3>2, <4>1
      <4> QED BY <2>0, <2>1, <3>2, <4>2 DEF Untouched
    <3>3. CASE titleQuery' = Failed(titleQuery) /\ pageView' = pageView
      BY <1>0, <2>1, <3>3, QueryType
    <3> QED BY <2>8, <3>1, <3>2, <3>3 DEF TitleArrives
  <2>9. ASSUME NEW kind \in {"login", "register", "forgot", "reset"}, SubmitPublicForm(kind) PROVE Goal
    <3>1. Same /\ Kept
      BY <1>0, <2>9 DEF SubmitPublicForm, View
    <3> QED BY <2>1, <3>1
  <2>10. ASSUME VerifyEffect \/ SubmitSettings PROVE Goal
    <3>1. Same /\ Kept
      BY <1>0, <2>10 DEF VerifyEffect, SubmitSettings, View
    <3> QED BY <2>1, <3>1
  <2>11. ASSUME TypeTitle PROVE Goal
    <3>1. pageView'.touched
      BY <1>0, <2>11 DEF TypeTitle, View
    <3> QED BY <3>1 DEF Untouched
  <2>12. ASSUME NEW d \in {1, 2}, ToggleStatusDomain(d) PROVE Goal
    <3>1. Same /\ Kept
      BY <1>0, <2>12 DEF ToggleStatusDomain, View
    <3> QED BY <2>1, <3>1
  <2> HIDE DEF Goal
  <2>13. Goal
    BY <1>2, <2>2, <2>3, <2>4, <2>5, <2>6, <2>7, <2>8, <2>9, <2>10, <2>11, <2>12 DEF StayingStep
  <2> QED BY <2>13 DEF Goal
<1> QED BY <1>1, <1>2, StepsAreOfTwoKinds

\* What a settings call carries, it has from the form.
LEMMA CallsShow ==
    ASSUME AccountTypes, AccountNext, SettingsInv
    PROVE  \A c \in accountCalls' : (c.kind = "settings" /\ c.seen # NoData) => c.title = c.seen
<1> DEFINE Shows(c) == (c.kind = "settings" /\ c.seen # NoData) => c.title = c.seen
<1>1. \A c \in accountCalls : Shows(c)
  BY DEF SettingsInv
<1>2. ASSUME NEW c, NEW next, Turned(c, next) PROVE \A d \in accountCalls' : Shows(d)
  <2>1. Shows(next)
    BY <1>1, <1>2, TurnedSame DEF Turned
  <2> QED BY <1>1, <1>2, <2>1 DEF Turned
<1>3. ASSUME SubmitSettings PROVE \A d \in accountCalls' : Shows(d)
  <2>1. PICK new \in AccountCall :
           /\ OneMore(new) /\ new.kind = "settings" /\ new.title = pageView.title
           /\ new.seen = IF pageView.touched THEN NoData ELSE titleQuery.data
    BY <1>3, SettingsCall
  <2>2. OnPage("/app/settings")
    BY <1>3 DEF SubmitSettings
  <2>3. pageView.touched \in BOOLEAN
    BY DEF AccountTypes, PageTypes, View
  <2>4. Shows(new)
    <3>1. CASE pageView.touched
      BY <2>1, <3>1
    <3>2. CASE ~pageView.touched
      BY <2>1, <2>2, <3>2 DEF SettingsInv, ShownTitle
    <3> QED BY <3>1, <3>2
  <2> QED BY <1>1, <2>1, <2>4 DEF OneMore
<1>4. ASSUME ~SubmitSettings, ~Served PROVE \A d \in accountCalls' : Shows(d)
  <2>1. \A d \in accountCalls' : d \in accountCalls \/ Shows(d)
    <3>1. CASE Fewer
      BY <3>1 DEF Fewer
    <3>2. ASSUME NEW new \in AccountCall, OneMore(new), new.kind = "settings" => SubmitSettings
          PROVE  Shows(new)
      BY <1>4, <3>2
    <3>3. ASSUME NEW c \in accountCalls, NEW next \in AccountCall, Turned(c, next)
          PROVE  \A d \in accountCalls' : Shows(d)
      BY <1>2, <3>3
    <3> QED BY <1>4, <3>1, <3>2, <3>3, RowsElsewhere DEF OneMore
  <2> QED BY <1>1, <2>1
<1>5. CASE Served
  <2>1. PICK c \in accountCalls : AccountCallHandled(c)
    BY <1>5 DEF Served
  <2>2. \E next \in AccountCall : Turned(c, next)
    BY <2>1, AcceptedOrRefused
  <2> QED BY <1>2, <2>2
<1> QED BY <1>3, <1>4, <1>5

LEMMA SettingsStep ==
    ASSUME AccountTypes, SettingsInv, AccountNext PROVE SettingsInv'
<1>1. Untouched => pageView.title = ShownTitle
  BY DEF SettingsInv, Untouched
<1>2. Untouched' => pageView'.title = ShownTitle'
  BY <1>1, FormShown
<1> QED BY <1>2, CallsShow DEF SettingsInv, Untouched

-----------------------------------------------------------------------------
(* The invariant *)

LEMMA AccountInit_Inv == AccountInit => AccountInv
<1> SUFFICES ASSUME AccountInit PROVE AccountInv
  OBVIOUS
<1>1. AccountTypes
  <2>1. titleQuery \in TitleQuery
    BY DEF AccountInit, Blank, TitleQuery, AccountText
  <2> QED BY <2>1, NewViewType DEF AccountInit, AccountTypes, PageTypes, ServerTypes, AccountText
<1>2. CallsNumbered /\ ResetInv /\ LinkInv
  BY DEF AccountInit, CallsNumbered, ResetInv, LinkInv
<1>3. VerifyInv
  BY DEF AccountInit, VerifyInv, OneVerification, NewView
<1>4. SettingsInv
  BY DEF AccountInit, SettingsInv, ShownTitle, Blank, NewView
<1> QED BY <1>1, <1>2, <1>3, <1>4 DEF AccountInv

LEMMA AccountNext_Inv == AccountInv /\ [AccountNext]_accountVars => AccountInv'
<1>1. ASSUME AccountInv, AccountNext PROVE AccountInv'
  BY <1>1, AccountTypesStep, LinkStep, ResetStep, VerifyStep, SettingsStep DEF AccountInv
<1>2. ASSUME AccountInv, UNCHANGED accountVars PROVE AccountInv'
  <2>1. /\ UNCHANGED <<route, opened, sessionLoading, account, role, mount, pageView, accountCalls>>
        /\ UNCHANGED <<called, verifyToken, resetToken, password, tenantTitle, titleQuery, mishaps>>
    BY <1>2 DEF accountVars, place, sessionView, calls, serverRows
  <2>2. AccountTypes' /\ CallsNumbered'
    BY <1>2, <2>1 DEF AccountInv, AccountTypes, PageTypes, ServerTypes, CallsNumbered
  <2>3. LinkInv' /\ ResetInv'
    BY <1>2, <2>1 DEF AccountInv, LinkInv, ResetInv
  <2>4. VerifyInv'
    BY <1>2, <2>1 DEF AccountInv, VerifyInv, OneVerification
  <2>5. SettingsInv'
    BY <1>2, <2>1 DEF AccountInv, SettingsInv, ShownTitle, OnPage, ShowsPage
  <2> QED BY <2>2, <2>3, <2>4, <2>5 DEF AccountInv
<1> QED BY <1>1, <1>2

\* The invariant of the router and the account pages (app.tsx, login, reset, verification and
\* settings): a link is kept until the session is known, a token that serves once is sent at most
\* once by a page left alone, and the settings form holds what a query gave it or what was typed.
THEOREM AlwaysAccountInv == AccountSpec => []AccountInv
  BY AccountInit_Inv, AccountNext_Inv, PTL DEF AccountSpec

LEMMA DeepLinkKept == AccountInv => DeepLinkSurvives
<1> SUFFICES ASSUME AccountInv, ~sessionLoading, account # "none", opened # "moved",
                    ShowsPage(route, sessionLoading, account)
             PROVE  route = Landing(opened, account)
  BY DEF DeepLinkSurvives
<1>1. CASE route = Landing(opened, account)
  BY <1>1
<1>2. CASE route = opened
  <2>1. route \in OpenPages \cup Workspace \/ (route = "/admin" /\ account = "super_admin")
    BY DEF ShowsPage
  <2> QED BY <1>2, <2>1 DEF Landing, OpenPages, Workspace, PublicOnlyPages
<1> QED BY <1>1, <1>2 DEF AccountInv, LinkInv

\* A reload, or a link opened by a signed-in user, ends at the page it names: the redirects of
\* app.tsx wait for the session, whatever else happens meanwhile.
THEOREM DeepLinkAlwaysSurvives == AccountSpec => []DeepLinkSurvives
  BY DeepLinkKept, AlwaysAccountInv, PTL

LEMMA ResetSets == AccountInv => ResetSetsThePassword
  BY DEF AccountInv, ResetInv, ResetSetsThePassword

\* The password asked for with a reset link is the one there is when the page says so, also
\* when the form was sent twice: the token of a link serves one call.
THEOREM ResetAlwaysSets == AccountSpec => []ResetSetsThePassword
  BY ResetSets, AlwaysAccountInv, PTL

LEMMA VerifiedSaid == AccountInv => VerifiedIsSaid
  BY DEF AccountInv, AccountTypes, ServerTypes, VerifyInv, OneVerification, VerifiedIsSaid

\* The page that says an address is verified is right, and one that says it is not has had a
\* mishap: a page left alone verifies once, with a token nobody else consumes.
THEOREM VerifiedIsAlwaysSaid == AccountSpec => []VerifiedIsSaid
  BY VerifiedSaid, AlwaysAccountInv, PTL

LEMMA UntouchedSettingsStep ==
    AccountInv /\ [AccountNext]_accountVars =>
        [\A c \in accountCalls :
            (c.kind = "settings" /\ c.phase = "sent" /\ c.seen # NoData /\ c.seen = tenantTitle
             /\ [c EXCEPT !.phase = "ok"] \in accountCalls')
            => tenantTitle' = tenantTitle]_accountVars
<1> DEFINE Kept(c) ==
        (/\ c.kind = "settings" /\ c.phase = "sent" /\ c.seen # NoData /\ c.seen = tenantTitle
         /\ [c EXCEPT !.phase = "ok"] \in accountCalls') => tenantTitle' = tenantTitle
<1>1. ASSUME AccountInv, AccountNext, NEW c \in accountCalls PROVE Kept(c)
  <2>0. c.title = c.seen \/ c.kind # "settings" \/ c.seen = NoData
    BY <1>1 DEF AccountInv, SettingsInv
  <2>1. CASE ~Served
    BY <1>1, <2>1, RowsElsewhere DEF AccountInv
  <2>2. ASSUME NEW d \in accountCalls, AccountCallHandled(d) PROVE Kept(c)
    <3>1. PICK next \in AccountCall :
             /\ Turned(d, next) /\ d.phase = "sent"
             /\ (next.phase = "ok" /\ Accepted(d)) \/ (next.phase = "bad" /\ RefusedCall(d))
      BY <1>1, <2>2, AcceptedOrRefused DEF AccountInv
    <3>2. accountCalls' = (accountCalls \ {d}) \cup {next} /\ next.n = d.n /\ next.title = d.title
      BY <1>1, <3>1, TurnedSame DEF Turned, AccountInv
    <3>3. PICK ok : ok = [c EXCEPT !.phase = "ok"]
      OBVIOUS
    <3>4. c \in AccountCall
      BY <1>1 DEF AccountInv, AccountTypes, ServerTypes
    <3>5. ok.n = c.n /\ ok.phase = "ok"
      BY <3>3, <3>4 DEF AccountCall
    <3>6. (c.phase = "sent" /\ ok \in accountCalls') => d = c
      <4> SUFFICES ASSUME c.phase = "sent", ok \in accountCalls' PROVE d = c
        OBVIOUS
      <4>1. CASE ok = next
        BY <1>1, <3>2, <3>5, <4>1 DEF AccountInv, CallsNumbered
      <4>2. CASE ok \in accountCalls
        BY <1>1, <3>5, <4>2 DEF AccountInv, CallsNumbered
      <4> QED BY <3>2, <4>1, <4>2
    <3>7. tenantTitle' = tenantTitle \/ tenantTitle' = d.title
      BY <3>1 DEF Accepted, RefusedCall
    <3> QED BY <2>0, <3>3, <3>6, <3>7
  <2> QED BY <2>1, <2>2 DEF Served
<1>2. ASSUME UNCHANGED accountVars, NEW c \in accountCalls PROVE Kept(c)
  BY <1>2 DEF accountVars, serverRows
<1> QED BY <1>1, <1>2

\* Saving settings nobody has typed into keeps the public title, if the form was filled with
\* the stored one.
THEOREM UntouchedSettingsAlwaysKept == AccountSpec => UntouchedSettingsKept
  BY UntouchedSettingsStep, AlwaysAccountInv, PTL DEF AccountSpec, UntouchedSettingsKept
=============================================================================
