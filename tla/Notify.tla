------------------------------- MODULE Notify -------------------------------
(***************************************************************************)
(* Notices about the certificate of one domain (notify/service.go), from   *)
(* the checks that lead to them (processDomain in scheduler/service.go):   *)
(* the row a check leaves, the events that follow from it and from what    *)
(* the row was before, and one delivery per event and endpoint, kept by a  *)
(* unique key.  Workers may check the domain at the same time, policies    *)
(* and endpoints change meanwhile, sends fail and the process crashes.     *)
(*                                                                         *)
(* Time runs in half days, so that the calendar (dates of UTC) and the     *)
(* days a certificate has left change at different times of the day.       *)
(***************************************************************************)
EXTENDS Integers, SequencesExt

CONSTANTS
    Worker, Endpoint, Cert,
    ExpiresAt,     \* NotAfter of each certificate, in half days
    Policies,      \* thresholds and endpoints a request may submit
    Daily,         \* values of repeat_daily the tenant's policy may have
    Switched,      \* endpoints that are switched on and off
    MaxTime,       \* bound: half days that pass
    MaxFaults,     \* bound: crashes and database errors in a behaviour
    NoCert, NoPolicy, NoKey, Spoiled

ASSUME NotifyAssumption ==
    /\ ExpiresAt \in [Cert -> Nat] /\ NoCert \notin Cert
    /\ IsFiniteSet(Endpoint) /\ Switched \subseteq Endpoint
    /\ \A p \in Policies : IsFiniteSet(p.thresholds) /\ p.thresholds \subseteq Int /\ p.endpoints \subseteq Endpoint
    /\ Daily \subseteq BOOLEAN /\ MaxTime \in Nat /\ MaxFaults \in Nat

VARIABLES
    time, served,       \* the clock; the certificate the host presents
    row,                \* status, cert_expires_at and days_remaining of the domain
    policy, override,   \* the tenant's policy; the domain's, or NoPolicy
    on,                 \* endpoints that are enabled
    deliveries,         \* notification_deliveries: status by dedup_key
    calls, accepted,    \* history: calls of an endpoint per key; keys it accepted
    seen,               \* history, while every check is healthy and nothing is edited: the first
                        \* certificate recorded, certificates and thresholds they were above
    faults,
    wpc, wprev, wcheck, wtodo, wkey

worldVars   == <<time, served>>
configVars  == <<policy, override, on>>
sendVars    == <<deliveries, calls, accepted>>
workerVars  == <<wpc, wprev, wcheck, wtodo, wkey>>
vars == <<worldVars, row, configVars, sendVars, seen, faults, workerVars>>

-----------------------------------------------------------------------------
(* Data *)

Row == [status : {"pending", "healthy", "error"}, cert : Cert \cup {NoCert}, days : Int]
Check == [status : {"healthy", "error"}, cert : Cert \cup {NoCert}, days : Int, kept : BOOLEAN]
NoRow == [status |-> "pending", cert |-> NoCert, days |-> 0]     \* days is nil without a certificate
NoCheck == [status |-> "error", cert |-> NoCert, days |-> 0, kept |-> TRUE]
NoDay == -1                                                      \* a key without a date

\* math.Floor of the hours left over 24
DaysLeft(c, now) == (ExpiresAt[c] - now) \div 2
Date(now) == now \div 2

Key == [endpoint : Endpoint, type : {"threshold", "expired", "recovered"},
        threshold : Nat, cert : Cert, day : Nat \cup {NoDay}]
ASSUME NoKeyAssumption == NoKey \notin Key

\* Mutant: negative thresholds are kept.
NormalizeAll(values) == values

NormalizeThresholds(values) == {v \in values : v >= 0}

Applied(p, daily) == [thresholds |-> NormalizeThresholds(p.thresholds), endpoints |-> p.endpoints, daily |-> daily]
InForce == IF override = NoPolicy THEN policy ELSE override

\* Mutant: a threshold is crossed only once the days are below it.
CrossingsBelow(prev, days, thresholds) ==
    {t \in thresholds : (prev.cert = NoCert \/ prev.days > t) /\ days < t}

\* computeThresholdCrossings: the first look warns of the nearest threshold only.
Crossings(prev, days, thresholds) ==
    IF prev.cert = NoCert
    THEN {t \in thresholds : days <= t /\ \A u \in thresholds : days <= u => t <= u}
    ELSE {t \in thresholds : prev.days > t /\ days <= t}

\* The list of a finite set of numbers in order, as normalizeThresholds leaves them.
Ascending(S) == CHOOSE s \in SetToSeqs(S) : \A i, j \in DOMAIN s : i < j => s[i] < s[j]

\* computeEvents, in its order; each event is a type, a threshold and the date in its key.
Events(prev, current, p, now) ==
    LET Threshold(t, day) == [type |-> "threshold", threshold |-> t, day |-> day]
        last == CHOOSE t \in p.thresholds : \A u \in p.thresholds : u <= t
        crossed == Ascending(Crossings(prev, current.days, p.thresholds))
        daily == IF p.thresholds # {} /\ current.days >= 0 /\ current.days <= last
                 THEN <<Threshold(last, Date(now))>> ELSE <<>>
        expired == IF (prev.cert = NoCert \/ prev.days >= 0) /\ current.days < 0
                   THEN <<[type |-> "expired", threshold |-> 0, day |-> NoDay]>> ELSE <<>>
        recovered == IF prev.status = "error" /\ current.status = "healthy"
                     THEN <<[type |-> "recovered", threshold |-> 0, day |-> NoDay]>> ELSE <<>>
    IN  (IF p.daily THEN daily ELSE [i \in DOMAIN crossed |-> Threshold(crossed[i], NoDay)])
            \o expired \o recovered

\* The keys MaybeNotify delivers: every event to every endpoint that is on (buildDedupKey).
Keys(events, endpoints, c) ==
    FlattenSeq([i \in DOMAIN events |->
        LET to == SetToSeq(endpoints) IN
        [j \in DOMAIN to |-> [endpoint |-> to[j], type |-> events[i].type,
                              threshold |-> events[i].threshold, cert |-> c, day |-> events[i].day]]])

\* A table with the value of one key set.
Put(table, key, value) ==
    [k \in DOMAIN table \cup {key} |-> IF k = key THEN value ELSE table[k]]

-----------------------------------------------------------------------------
Init ==
    /\ time = 0 /\ served \in Cert
    /\ row = NoRow
    /\ \E p \in Policies, daily \in Daily : policy = Applied(p, daily)
    /\ override = NoPolicy
    /\ on = Endpoint
    /\ deliveries = <<>> /\ calls = <<>> /\ accepted = {}
    /\ seen = [first |-> NoCert, above |-> {}]
    /\ faults = 0
    /\ wpc = [w \in Worker |-> "idle"]
    /\ wprev = [w \in Worker |-> NoRow]
    /\ wcheck = [w \in Worker |-> NoCheck]
    /\ wtodo = [w \in Worker |-> <<>>]
    /\ wkey = [w \in Worker |-> NoKey]

-----------------------------------------------------------------------------
(* The world: the clock, and the certificate the host presents. *)

Tick ==
    /\ time < MaxTime /\ time' = time + 1
    /\ UNCHANGED <<served, row, configVars, sendVars, seen, faults, workerVars>>

Renew ==
    /\ \E c \in Cert : ExpiresAt[c] > ExpiresAt[served] /\ served' = c
    /\ UNCHANGED <<time, row, configVars, sendVars, seen, faults, workerVars>>

-----------------------------------------------------------------------------
(* A worker in processDomain *)

WorkerReads(w) ==
    /\ wpc[w] = "idle"
    /\ wprev' = [wprev EXCEPT ![w] = row]
    /\ wpc' = [wpc EXCEPT ![w] = "checking"]
    /\ UNCHANGED <<worldVars, row, configVars, sendVars, seen, faults, wcheck, wtodo, wkey>>

\* A certificate that verifies, one that does not, or none at all: then the certificate
\* columns are kept, and the days of the certificate the worker read are counted anew.
WorkerChecks(w) ==
    LET Found(status, c, kept) ==
            [status |-> status, cert |-> c, kept |-> kept, days |-> IF c = NoCert THEN 0 ELSE DaysLeft(c, time)]
    IN
    /\ wpc[w] = "checking"
    /\ \/ /\ DaysLeft(served, time) >= 0
          /\ wcheck' = [wcheck EXCEPT ![w] = Found("healthy", served, FALSE)]
          /\ UNCHANGED seen
       \/ /\ \E found \in {Found("error", served, FALSE), Found("error", wprev[w].cert, TRUE)} :
                wcheck' = [wcheck EXCEPT ![w] = found]
          /\ seen' = Spoiled
    /\ wpc' = [wpc EXCEPT ![w] = "recording"]
    /\ UNCHANGED <<worldVars, row, configVars, sendVars, faults, wprev, wtodo, wkey>>

\* The transaction that stores the result and updates the row.
WorkerRecords(w) ==
    LET found == wcheck[w] IN
    /\ wpc[w] = "recording"
    /\ row' = [status |-> found.status,
               cert |-> IF found.kept THEN row.cert ELSE found.cert,
               days |-> IF found.cert = NoCert THEN row.days ELSE found.days]
    /\ seen' = IF seen = Spoiled THEN Spoiled
               ELSE [first |-> IF seen.first = NoCert THEN row'.cert ELSE seen.first,
                     above |-> seen.above \cup {<<row'.cert, t>> : t \in {u \in InForce.thresholds : row'.days > u}}]
    /\ wpc' = [wpc EXCEPT ![w] = "notifying"]
    /\ wcheck' = [wcheck EXCEPT ![w] = NoCheck]
    /\ UNCHANGED <<worldVars, configVars, sendVars, faults, wprev, wtodo, wkey>>

Released(w) ==
    /\ wpc' = [wpc EXCEPT ![w] = "idle"]
    /\ wprev' = [wprev EXCEPT ![w] = NoRow]
    /\ wcheck' = [wcheck EXCEPT ![w] = NoCheck]
    /\ wtodo' = [wtodo EXCEPT ![w] = <<>>]
    /\ wkey' = [wkey EXCEPT ![w] = NoKey]

\* MaybeNotify, on the row as it is now; policies and endpoints are read with it.
WorkerPlans(w) ==
    LET keys == Keys(Events(wprev[w], row, InForce, time), InForce.endpoints \cap on, row.cert) IN
    /\ wpc[w] = "notifying"
    /\ \/ /\ row.status = "healthy" /\ keys # <<>>
          /\ wtodo' = [wtodo EXCEPT ![w] = keys]
          /\ wprev' = [wprev EXCEPT ![w] = NoRow]
          /\ wpc' = [wpc EXCEPT ![w] = "looking"]
          /\ UNCHANGED <<wcheck, wkey>>
       \/ /\ row.status # "healthy" \/ keys = <<>>
          /\ Released(w)
    /\ UNCHANGED <<worldVars, row, configVars, sendVars, seen, faults>>

\* The next key of the loop, or the end of it.
Continue(w, todo) ==
    IF todo = <<>> THEN Released(w)
    ELSE /\ wpc' = [wpc EXCEPT ![w] = "looking"]
         /\ wtodo' = [wtodo EXCEPT ![w] = todo]
         /\ wkey' = [wkey EXCEPT ![w] = NoKey]
         /\ UNCHANGED <<wprev, wcheck>>

\* deliverEvent: is there a row with the key?
WorkerLooks(w) ==
    LET k == Head(wtodo[w]) IN
    /\ wpc[w] = "looking"
    /\ \/ k \in DOMAIN deliveries /\ Continue(w, Tail(wtodo[w]))
       \/ /\ k \notin DOMAIN deliveries
          /\ wpc' = [wpc EXCEPT ![w] = "creating"]
          /\ wtodo' = [wtodo EXCEPT ![w] = Tail(@)]
          /\ wkey' = [wkey EXCEPT ![w] = k]
          /\ UNCHANGED <<wprev, wcheck>>
    /\ UNCHANGED <<worldVars, row, configVars, sendVars, seen, faults>>

\* Mutant: no unique index, the row is created again.
WorkerCreatesAlways(w) ==
    /\ wpc[w] = "creating"
    /\ deliveries' = Put(deliveries, wkey[w], "pending")
    /\ wpc' = [wpc EXCEPT ![w] = "sending"]
    /\ UNCHANGED <<wprev, wcheck, wtodo, wkey>>
    /\ UNCHANGED <<worldVars, row, configVars, calls, accepted, seen, faults>>

\* The unique index on dedup_key refuses the second of two rows; that delivery ends.
WorkerCreates(w) ==
    /\ wpc[w] = "creating"
    /\ \/ wkey[w] \in DOMAIN deliveries /\ Continue(w, wtodo[w]) /\ UNCHANGED deliveries
       \/ /\ wkey[w] \notin DOMAIN deliveries
          /\ deliveries' = Put(deliveries, wkey[w], "pending")
          /\ wpc' = [wpc EXCEPT ![w] = "sending"]
          /\ UNCHANGED <<wprev, wcheck, wtodo, wkey>>
    /\ UNCHANGED <<worldVars, row, configVars, calls, accepted, seen, faults>>

WorkerSends(w) ==
    LET k == wkey[w] IN
    /\ wpc[w] = "sending"
    /\ calls' = Put(calls, k, IF k \in DOMAIN calls THEN calls[k] + 1 ELSE 1)
    /\ \/ accepted' = accepted \cup {k} /\ wpc' = [wpc EXCEPT ![w] = "settling"]
       \/ UNCHANGED accepted /\ wpc' = [wpc EXCEPT ![w] = "failing"]
    /\ UNCHANGED <<worldVars, row, configVars, deliveries, seen, faults, wprev, wcheck, wtodo, wkey>>

\* Mutants: a failed send ends the loop, is not recorded, or is recorded as sent.
WorkerSettlesAndStops(w) ==
    /\ wpc[w] \in {"settling", "failing"}
    /\ deliveries' = [deliveries EXCEPT ![wkey[w]] = IF wpc[w] = "settling" THEN "sent" ELSE "failed"]
    /\ IF wpc[w] = "settling" THEN Continue(w, wtodo[w]) ELSE Released(w)
    /\ UNCHANGED <<worldVars, row, configVars, calls, accepted, seen, faults>>
WorkerSettlesSentOnly(w) ==
    /\ wpc[w] \in {"settling", "failing"}
    /\ deliveries' = [deliveries EXCEPT ![wkey[w]] = IF wpc[w] = "settling" THEN "sent" ELSE @]
    /\ Continue(w, wtodo[w])
    /\ UNCHANGED <<worldVars, row, configVars, calls, accepted, seen, faults>>
WorkerSettlesAsSent(w) ==
    /\ wpc[w] \in {"settling", "failing"}
    /\ deliveries' = [deliveries EXCEPT ![wkey[w]] = "sent"]
    /\ Continue(w, wtodo[w])
    /\ UNCHANGED <<worldVars, row, configVars, calls, accepted, seen, faults>>

WorkerSettles(w) ==
    /\ wpc[w] \in {"settling", "failing"}
    /\ deliveries' = [deliveries EXCEPT ![wkey[w]] = IF wpc[w] = "settling" THEN "sent" ELSE "failed"]
    /\ Continue(w, wtodo[w])
    /\ UNCHANGED <<worldVars, row, configVars, calls, accepted, seen, faults>>

\* A statement fails: processDomain or MaybeNotify ends, or the delivery in hand does.
WorkerFails(w) ==
    /\ wpc[w] \notin {"idle", "checking", "sending"}
    /\ faults < MaxFaults /\ faults' = faults + 1 /\ seen' = Spoiled
    /\ CASE wpc[w] \in {"recording", "notifying"} -> Released(w)
         [] wpc[w] = "looking" -> Continue(w, Tail(wtodo[w]))
         [] OTHER -> Continue(w, wtodo[w])
    /\ UNCHANGED <<worldVars, row, configVars, sendVars>>

Crash ==
    /\ faults < MaxFaults /\ faults' = faults + 1 /\ seen' = Spoiled
    /\ wpc' = [w \in Worker |-> "idle"]
    /\ wprev' = [w \in Worker |-> NoRow] /\ wcheck' = [w \in Worker |-> NoCheck]
    /\ wtodo' = [w \in Worker |-> <<>>] /\ wkey' = [w \in Worker |-> NoKey]
    /\ UNCHANGED <<worldVars, row, configVars, sendVars>>

-----------------------------------------------------------------------------
(* Requests *)

\* UpsertPolicy for the tenant: repeat_daily stays as it is.
EditPolicy ==
    /\ \E p \in Policies : policy' = Applied(p, policy.daily)
    /\ seen' = Spoiled
    /\ UNCHANGED <<worldVars, row, override, on, sendVars, faults, workerVars>>

\* UpsertPolicy for the domain: never daily, and an empty one goes back to the tenant's.
EditOverride ==
    /\ \E p \in Policies :
        override' = IF NormalizeThresholds(p.thresholds) = {} /\ p.endpoints = {} THEN NoPolicy ELSE Applied(p, FALSE)
    /\ seen' = Spoiled
    /\ UNCHANGED <<worldVars, row, policy, on, sendVars, faults, workerVars>>

\* handleUpsertEndpoint and deleteEndpoint, as far as deliveries tell: on or not.
SwitchEndpoint(e) ==
    /\ on' = IF e \in on THEN on \ {e} ELSE on \cup {e}
    /\ seen' = Spoiled
    /\ UNCHANGED <<worldVars, row, policy, override, sendVars, faults, workerVars>>

-----------------------------------------------------------------------------
WorkerStep(w) ==
    \/ WorkerChecks(w) \/ WorkerRecords(w)
    \/ WorkerPlans(w) \/ WorkerLooks(w) \/ WorkerCreates(w) \/ WorkerSends(w) \/ WorkerSettles(w)

Next ==
    \/ Tick \/ Renew
    \/ \E w \in Worker : WorkerReads(w) \/ WorkerStep(w) \/ WorkerFails(w)
    \/ Crash
    \/ EditPolicy \/ EditOverride \/ \E e \in Switched : SwitchEndpoint(e)

Spec == Init /\ [][Next]_vars

\* A worker that has begun goes on: checks and sends end by their timeouts.
FairSpec == Spec /\ \A w \in Worker : WF_vars(WorkerStep(w))

-----------------------------------------------------------------------------
(* Properties *)

TypeOK ==
    /\ time \in 0..MaxTime /\ served \in Cert
    /\ row \in Row
    /\ policy.thresholds \subseteq Nat /\ policy.endpoints \subseteq Endpoint /\ policy.daily \in BOOLEAN
    /\ override # NoPolicy => override.thresholds \subseteq Nat /\ override.endpoints \subseteq Endpoint /\ ~override.daily
    /\ on \subseteq Endpoint
    /\ DOMAIN deliveries \subseteq Key
    /\ \A k \in DOMAIN deliveries : deliveries[k] \in {"pending", "sent", "failed"}
    /\ DOMAIN calls \subseteq DOMAIN deliveries /\ accepted \subseteq DOMAIN calls
    /\ faults \in 0..MaxFaults
    /\ \A w \in Worker :
        /\ wpc[w] \in {"idle", "checking", "recording", "notifying", "looking", "creating", "sending", "settling", "failing"}
        /\ wprev[w] \in Row /\ wcheck[w] \in Check
        /\ ToSet(wtodo[w]) \subseteq Key /\ (wpc[w] = "looking" => wtodo[w] # <<>>)
        /\ wkey[w] # NoKey <=> wpc[w] \in {"creating", "sending", "settling", "failing"}
        /\ wkey[w] # NoKey => wkey[w] \in Key

\* No endpoint is called twice for one event of one certificate, whatever workers check the
\* domain at once and wherever the process crashed before (deliverEvent, dedup_key).
NotifiedAtMostOnce ==
    \A k \in DOMAIN calls : calls[k] = 1

InHand(w) == ToSet(wtodo[w]) \cup (IF wkey[w] = NoKey THEN {} ELSE {wkey[w]})

\* While the database answers and the process lives, one failed send keeps no other notice
\* back: a key leaves a worker's hands only once its row is there.
NoticesAccounted ==
    [][faults' = faults => \A w \in Worker : InHand(w) \subseteq InHand(w)' \cup DOMAIN deliveries']_vars

\* The log of deliveries tells the truth: "sent" was accepted, "failed" was tried and was not,
\* and without a fault a row is "pending" only while a worker has it in hand.
DeliveriesTellTheTruth ==
    \A k \in DOMAIN deliveries :
        /\ deliveries[k] = "sent" => k \in accepted
        /\ deliveries[k] = "failed" => k \in DOMAIN calls \ accepted
        /\ faults = 0 /\ deliveries[k] = "pending" => \E w \in Worker : wkey[w] = k

Told(e, t, c) == [endpoint |-> e, type |-> "threshold", threshold |-> t, cert |-> c, day |-> NoDay] \in DOMAIN deliveries

\* Under a policy that does not repeat, with every check healthy and nothing edited, every
\* threshold a certificate was above and no longer is has been told to every endpoint, and
\* the first certificate ever seen has its nearest threshold told (computeThresholdCrossings).
CrossingsTold ==
    LET passed == {t \in InForce.thresholds : row.days <= t}
        nearest == {t \in passed : \A u \in passed : t <= u}
    IN  seen # Spoiled /\ ~InForce.daily /\ row.cert # NoCert /\ (\A w \in Worker : wpc[w] \in {"idle", "checking", "recording"})
        => \A e \in InForce.endpoints \cap on :
            /\ \A t \in passed : <<row.cert, t>> \in seen.above => Told(e, t, row.cert)
            /\ row.cert = seen.first => \A t \in nearest : Told(e, t, row.cert)

\* A certificate that a check found to have run out is told as expired to every endpoint of
\* the policy in force (computeEvents), with nothing failing and no worker at it any more.
ExpiryTold ==
    faults = 0 /\ row.cert # NoCert /\ row.days < 0 /\ (\A w \in Worker : wpc[w] = "idle")
        => \A e \in InForce.endpoints \cap on :
            [endpoint |-> e, type |-> "expired", threshold |-> 0, cert |-> row.cert, day |-> NoDay] \in DOMAIN deliveries

\* A delivery that was begun ends as sent or failed, unless a crash or a failed statement
\* leaves it pending for good.
PendingSettles ==
    []<>(faults > 0 \/ \A k \in DOMAIN deliveries : deliveries[k] # "pending")
=============================================================================
