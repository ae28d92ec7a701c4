---------------------------- MODULE Notify_proofs ----------------------------
(***************************************************************************)
(* Proofs about Notify, for any sets of workers, endpoints, certificates   *)
(* and policies.  One part follows a key from the row that reserves it to  *)
(* its settlement: no notice goes out twice, and the log of deliveries     *)
(* tells the truth.  The next follows the keys in a worker's hands: none   *)
(* is dropped.  The last follows a threshold from the check that crosses   *)
(* it to its row: with one worker, every crossing is told.                 *)
(***************************************************************************)
EXTENDS Notify, ListLemmas

-----------------------------------------------------------------------------
(* The inductive invariant *)

\* The points at which a worker has created the row of the key in its hand.
Holding == {"sending", "settling", "failing"}
PC == {"idle", "checking", "recording", "notifying", "looking", "creating"} \cup Holding

ShapeInv ==
    /\ wpc \in [Worker -> PC] /\ DOMAIN wkey = Worker /\ wkey = [w \in Worker |-> wkey[w]]
    /\ faults \in Nat

\* A worker that holds a key has its row pending, and what it knows of the call is so.
RowInv ==
    \A w \in Worker : wpc[w] \in Holding =>
        /\ wkey[w] \in DOMAIN deliveries /\ deliveries[wkey[w]] = "pending"
        /\ wpc[w] = "sending" => wkey[w] \notin DOMAIN calls
        /\ wpc[w] = "settling" => wkey[w] \in accepted
        /\ wpc[w] = "failing" => wkey[w] \in DOMAIN calls \ accepted

\* The unique index: two workers never hold one key.
OneHolder ==
    \A v, w \in Worker : wpc[v] \in Holding /\ wpc[w] \in Holding /\ wkey[v] = wkey[w] => v = w

CallsInv ==
    /\ DOMAIN calls \subseteq DOMAIN deliveries /\ accepted \subseteq DOMAIN calls
    /\ \A k \in DOMAIN calls : calls[k] = 1

LogInv ==
    \A k \in DOMAIN deliveries :
        /\ deliveries[k] = "sent" => k \in accepted
        /\ deliveries[k] = "failed" => k \in DOMAIN calls \ accepted
        /\ faults = 0 /\ deliveries[k] = "pending" =>
                \E w \in Worker : wpc[w] \in Holding /\ wkey[w] = k

NInv == ShapeInv /\ RowInv /\ OneHolder /\ CallsInv /\ LogInv

-----------------------------------------------------------------------------
(* Lemmas *)

\* The loop of MaybeNotify goes on without the key in hand.
LEMMA ContinueEffect ==
    ASSUME NEW w \in Worker, NEW todo, Continue(w, todo)
    PROVE  /\ \E p \in {"idle", "looking"} : wpc' = [wpc EXCEPT ![w] = p]
           /\ wkey' = [wkey EXCEPT ![w] = NoKey]
  BY DEF Continue, Released

\* A step that no delivery can tell.
LEMMA UntoldStep ==
    ASSUME NInv, UNCHANGED <<sendVars, wpc, wkey>>, faults' = faults
    PROVE  NInv'
<1> USE DEF NInv, sendVars
<1>1. ShapeInv'
  BY DEF ShapeInv
<1>2. RowInv' /\ OneHolder'
  BY DEF RowInv, OneHolder
<1>3. CallsInv' /\ LogInv'
  BY DEF CallsInv, LogInv
<1> QED BY <1>1, <1>2, <1>3

\* One worker moves between points at which it holds no row; if it held one, by a fault.
LEMMA LooseStep ==
    ASSUME NInv, UNCHANGED sendVars, NEW w \in Worker, NEW p \in PC \ Holding, NEW key,
           wpc' = [wpc EXCEPT ![w] = p], wkey' = [wkey EXCEPT ![w] = key],
           faults' \in Nat, faults' = 0 => wpc[w] \notin Holding /\ faults = 0
    PROVE  NInv'
<1> USE DEF NInv
<1>1. ShapeInv'
  BY DEF ShapeInv
<1>2. /\ wpc'[w] = p /\ p \notin Holding
      /\ \A v \in Worker \ {w} : wpc'[v] = wpc[v] /\ wkey'[v] = wkey[v]
  BY DEF ShapeInv
<1>3. RowInv' /\ OneHolder'
  BY <1>2 DEF RowInv, OneHolder, sendVars
<1>4. CallsInv'
  BY DEF CallsInv, sendVars
<1>5. ASSUME NEW k \in DOMAIN deliveries, faults' = 0, deliveries[k] = "pending"
      PROVE  \E v \in Worker : wpc'[v] \in Holding /\ wkey'[v] = k
  <2>1. PICK v \in Worker : wpc[v] \in Holding /\ wkey[v] = k
    BY <1>5 DEF LogInv
  <2>2. v # w
    BY <1>5, <2>1
  <2> QED BY <1>2, <2>1, <2>2
<1>6. LogInv'
  BY <1>5 DEF LogInv, sendVars
<1> QED BY <1>1, <1>3, <1>4, <1>6

\* The row is created only if no other has the key: the worker is its only holder.
LEMMA CreatesStep ==
    ASSUME NInv, NEW w \in Worker, wpc[w] = "creating", wkey[w] \notin DOMAIN deliveries,
           deliveries' = Put(deliveries, wkey[w], "pending"),
           wpc' = [wpc EXCEPT ![w] = "sending"], UNCHANGED <<wkey, calls, accepted, faults>>
    PROVE  NInv'
<1> USE DEF NInv
<1> DEFINE k == wkey[w]
<1>1. /\ DOMAIN deliveries' = DOMAIN deliveries \cup {k} /\ deliveries'[k] = "pending"
      /\ \A i \in DOMAIN deliveries : deliveries'[i] = deliveries[i]
  BY DEF Put
<1>2. ShapeInv' /\ wpc'[w] = "sending" /\ \A v \in Worker \ {w} : wpc'[v] = wpc[v]
  BY DEF ShapeInv, PC, Holding
<1>3. k \notin DOMAIN calls /\ k \notin accepted
  BY DEF CallsInv
<1>4. \A v \in Worker \ {w} : wpc[v] \in Holding => wkey[v] # k /\ wkey[v] \in DOMAIN deliveries
  BY DEF RowInv
<1>5. RowInv'
  BY <1>1, <1>2, <1>3, <1>4 DEF RowInv
<1>6. OneHolder'
  BY <1>2, <1>4 DEF OneHolder
<1>7. CallsInv'
  BY <1>1 DEF CallsInv
<1>8. ASSUME NEW i \in DOMAIN deliveries'
      PROVE  /\ deliveries'[i] = "sent" => i \in accepted'
             /\ deliveries'[i] = "failed" => i \in DOMAIN calls' \ accepted'
             /\ faults' = 0 /\ deliveries'[i] = "pending" =>
                    \E v \in Worker : wpc'[v] \in Holding /\ wkey'[v] = i
  <2>1. CASE i = k
    BY <1>1, <1>2, <2>1 DEF Holding
  <2>2. CASE i # k
    <3>1. i \in DOMAIN deliveries /\ deliveries'[i] = deliveries[i]
      BY <1>1, <1>8, <2>2
    <3>2. ASSUME faults = 0, deliveries[i] = "pending"
          PROVE  \E v \in Worker : wpc'[v] \in Holding /\ wkey'[v] = i
      <4>1. PICK v \in Worker : wpc[v] \in Holding /\ wkey[v] = i
        BY <3>1, <3>2 DEF LogInv
      <4> QED BY <1>2, <2>2, <4>1
    <3> QED BY <3>1, <3>2 DEF LogInv
  <2> QED BY <2>1, <2>2
<1>9. LogInv'
  BY <1>8 DEF LogInv
<1> QED BY <1>2, <1>5, <1>6, <1>7, <1>9

\* The one call of a key is made by the worker that holds it, and was not made before.
LEMMA SendsStep == ASSUME NInv, NEW w \in Worker, WorkerSends(w)
                   PROVE  NInv'
<1> USE DEF NInv
<1> DEFINE k == wkey[w]
<1>1. /\ wpc[w] = "sending" /\ UNCHANGED <<deliveries, wkey, faults>>
      /\ calls' = Put(calls, k, IF k \in DOMAIN calls THEN calls[k] + 1 ELSE 1)
      /\ \/ accepted' = accepted \cup {k} /\ wpc' = [wpc EXCEPT ![w] = "settling"]
         \/ accepted' = accepted /\ wpc' = [wpc EXCEPT ![w] = "failing"]
  BY DEF WorkerSends
<1>2. k \in DOMAIN deliveries /\ deliveries[k] = "pending" /\ k \notin DOMAIN calls /\ k \notin accepted
  BY <1>1 DEF RowInv, CallsInv, Holding
<1>3. /\ DOMAIN calls' = DOMAIN calls \cup {k} /\ calls'[k] = 1
      /\ \A i \in DOMAIN calls : calls'[i] = calls[i]
  <2>1. calls' = Put(calls, k, 1)
    BY <1>1, <1>2
  <2> QED BY <1>2, <2>1 DEF Put
<1>4. /\ ShapeInv' /\ wpc'[w] \in {"settling", "failing"}
      /\ wpc'[w] = "settling" => accepted' = accepted \cup {k}
      /\ wpc'[w] = "failing" => accepted' = accepted
      /\ \A v \in Worker \ {w} : wpc'[v] = wpc[v]
  BY <1>1 DEF ShapeInv, PC, Holding
<1>5. accepted \subseteq accepted' /\ accepted' \subseteq accepted \cup {k}
  BY <1>1
<1>6. \A v \in Worker \ {w} : wpc[v] \in Holding => wkey[v] # k
  BY <1>1 DEF OneHolder, Holding
<1>7. RowInv'
  <2>1. ASSUME NEW v \in Worker \ {w}, wpc[v] \in Holding
        PROVE  /\ wpc[v] = "sending" => wkey[v] \notin DOMAIN calls'
               /\ wpc[v] = "settling" => wkey[v] \in accepted'
               /\ wpc[v] = "failing" => wkey[v] \in DOMAIN calls' \ accepted'
    BY <1>3, <1>5, <1>6, <2>1 DEF RowInv
  <2>2. /\ wpc'[w] # "sending"
        /\ wpc'[w] = "settling" => k \in accepted'
        /\ wpc'[w] = "failing" => k \in DOMAIN calls' \ accepted'
    BY <1>2, <1>3, <1>4
  <2>3. \A v \in Worker \ {w} : wpc[v] \in Holding =>
            wkey[v] \in DOMAIN deliveries /\ deliveries[wkey[v]] = "pending"
    BY DEF RowInv
  <2> QED BY <1>1, <1>2, <1>4, <2>1, <2>2, <2>3 DEF RowInv
<1>8. OneHolder'
  BY <1>1, <1>4, <1>6 DEF OneHolder, Holding
<1>9. CallsInv'
  BY <1>1, <1>2, <1>3, <1>5 DEF CallsInv
<1>10. ASSUME NEW i \in DOMAIN deliveries
       PROVE  /\ deliveries[i] = "sent" => i \in accepted'
              /\ deliveries[i] = "failed" => i \in DOMAIN calls' \ accepted'
              /\ faults = 0 /\ deliveries[i] = "pending" =>
                    \E v \in Worker : wpc'[v] \in Holding /\ wkey[v] = i
  <2>1. deliveries[i] = "sent" => i \in accepted'
    BY <1>5 DEF LogInv
  <2>2. deliveries[i] = "failed" => i \in DOMAIN calls' \ accepted'
    BY <1>2, <1>3, <1>5 DEF LogInv
  <2>3. ASSUME faults = 0, deliveries[i] = "pending"
        PROVE  \E v \in Worker : wpc'[v] \in Holding /\ wkey[v] = i
    <3>1. PICK v \in Worker : wpc[v] \in Holding /\ wkey[v] = i
      BY <2>3 DEF LogInv
    <3>2. wpc'[v] \in Holding
      BY <1>4, <3>1 DEF Holding
    <3> QED BY <3>1, <3>2
  <2> QED BY <2>1, <2>2, <2>3
<1>11. LogInv'
  BY <1>1, <1>10 DEF LogInv
<1> QED BY <1>4, <1>7, <1>8, <1>9, <1>11

\* The row is settled by its only holder, as its call went.
LEMMA SettlesStep == ASSUME NInv, NEW w \in Worker, WorkerSettles(w)
                     PROVE  NInv'
<1> USE DEF NInv
<1> DEFINE k == wkey[w]
           outcome == IF wpc[w] = "settling" THEN "sent" ELSE "failed"
<1>1. /\ wpc[w] \in {"settling", "failing"} /\ UNCHANGED <<calls, accepted, faults>>
      /\ deliveries' = [deliveries EXCEPT ![k] = outcome]
      /\ Continue(w, wtodo[w])
  BY DEF WorkerSettles
<1>2. PICK p \in {"idle", "looking"} :
          wpc' = [wpc EXCEPT ![w] = p] /\ wkey' = [wkey EXCEPT ![w] = NoKey]
  BY <1>1, ContinueEffect
<1>3. /\ ShapeInv' /\ wpc'[w] \notin Holding
      /\ \A v \in Worker \ {w} : wpc'[v] = wpc[v] /\ wkey'[v] = wkey[v]
  BY <1>1, <1>2 DEF ShapeInv, PC, Holding
<1>4. /\ k \in DOMAIN deliveries
      /\ wpc[w] = "settling" => k \in accepted
      /\ wpc[w] = "failing" => k \in DOMAIN calls \ accepted
  BY <1>1 DEF RowInv, Holding
<1>5. /\ DOMAIN deliveries' = DOMAIN deliveries /\ deliveries'[k] = outcome
      /\ \A i \in DOMAIN deliveries : i # k => deliveries'[i] = deliveries[i]
  BY <1>1, <1>4
<1>6. \A v \in Worker \ {w} : wpc[v] \in Holding => wkey[v] # k
  BY <1>1 DEF OneHolder, Holding
<1>7. RowInv'
  BY <1>1, <1>3, <1>5, <1>6 DEF RowInv
<1>8. OneHolder' /\ CallsInv'
  BY <1>1, <1>3, <1>5 DEF OneHolder, CallsInv
<1>9. ASSUME NEW i \in DOMAIN deliveries
      PROVE  /\ deliveries'[i] = "sent" => i \in accepted
             /\ deliveries'[i] = "failed" => i \in DOMAIN calls \ accepted
             /\ faults = 0 /\ deliveries'[i] = "pending" =>
                    \E v \in Worker : wpc'[v] \in Holding /\ wkey'[v] = i
  <2>1. CASE i = k
    BY <1>1, <1>4, <1>5, <2>1
  <2>2. CASE i # k
    <3>1. deliveries'[i] = deliveries[i]
      BY <1>5, <2>2
    <3>2. ASSUME faults = 0, deliveries[i] = "pending"
          PROVE  \E v \in Worker : wpc'[v] \in Holding /\ wkey'[v] = i
      <4>1. PICK v \in Worker : wpc[v] \in Holding /\ wkey[v] = i
        BY <3>2 DEF LogInv
      <4> QED BY <1>3, <2>2, <4>1
    <3> QED BY <3>1, <3>2 DEF LogInv
  <2> QED BY <2>1, <2>2
<1>10. LogInv'
  BY <1>1, <1>5, <1>9 DEF LogInv
<1> QED BY <1>3, <1>7, <1>8, <1>10

-----------------------------------------------------------------------------
(* The invariant is inductive *)

LEMMA InitNInv == Init => NInv
  BY DEF Init, NInv, ShapeInv, RowInv, OneHolder, CallsInv, LogInv, PC, Holding

\* A worker's step, by what it does to the row of the key in its hand.
LEMMA WorkerKeepsNInv ==
    ASSUME NInv, NEW w \in Worker, WorkerReads(w) \/ WorkerStep(w)
    PROVE  NInv'
<1>1. CASE WorkerReads(w)
  <2>1. /\ UNCHANGED sendVars /\ faults' = faults /\ wpc[w] = "idle"
        /\ wpc' = [wpc EXCEPT ![w] = "checking"] /\ wkey' = [wkey EXCEPT ![w] = wkey[w]]
    BY <1>1 DEF WorkerReads, NInv, ShapeInv
  <2> QED BY <2>1, LooseStep DEF PC, Holding, NInv, ShapeInv
<1>2. CASE WorkerChecks(w)
  <2>1. /\ UNCHANGED sendVars /\ faults' = faults /\ wpc[w] = "checking"
        /\ wpc' = [wpc EXCEPT ![w] = "recording"] /\ wkey' = [wkey EXCEPT ![w] = wkey[w]]
    BY <1>2 DEF WorkerChecks, NInv, ShapeInv
  <2> QED BY <2>1, LooseStep DEF PC, Holding, NInv, ShapeInv
<1>3. CASE WorkerRecords(w)
  <2>1. /\ UNCHANGED sendVars /\ faults' = faults /\ wpc[w] = "recording"
        /\ wpc' = [wpc EXCEPT ![w] = "notifying"] /\ wkey' = [wkey EXCEPT ![w] = wkey[w]]
    BY <1>3 DEF WorkerRecords, NInv, ShapeInv
  <2> QED BY <2>1, LooseStep DEF PC, Holding, NInv, ShapeInv
<1>4. CASE WorkerPlans(w)
  <2>1. /\ UNCHANGED sendVars /\ faults' = faults /\ wpc[w] = "notifying"
        /\ \E p \in {"idle", "looking"}, key \in {wkey[w], NoKey} :
              wpc' = [wpc EXCEPT ![w] = p] /\ wkey' = [wkey EXCEPT ![w] = key]
    BY <1>4 DEF WorkerPlans, Released, NInv, ShapeInv
  <2> QED BY <2>1, LooseStep DEF PC, Holding, NInv, ShapeInv
<1>5. CASE WorkerLooks(w)
  <2>1. /\ UNCHANGED sendVars /\ faults' = faults /\ wpc[w] = "looking"
        /\ \E p \in {"idle", "looking", "creating"} : \E key :
              wpc' = [wpc EXCEPT ![w] = p] /\ wkey' = [wkey EXCEPT ![w] = key]
    BY <1>5, ContinueEffect DEF WorkerLooks
  <2> QED BY <2>1, LooseStep DEF PC, Holding, NInv, ShapeInv
<1>6. CASE WorkerCreates(w)
  <2>1. CASE wkey[w] \in DOMAIN deliveries /\ Continue(w, wtodo[w]) /\ UNCHANGED deliveries
    <3>1. /\ UNCHANGED sendVars /\ faults' = faults /\ wpc[w] = "creating"
          /\ \E p \in {"idle", "looking"} :
                wpc' = [wpc EXCEPT ![w] = p] /\ wkey' = [wkey EXCEPT ![w] = NoKey]
      BY <1>6, <2>1, ContinueEffect DEF WorkerCreates, sendVars
    <3> QED BY <3>1, LooseStep DEF PC, Holding, NInv, ShapeInv
  <2>2. CASE wkey[w] \notin DOMAIN deliveries
    <3>1. /\ wpc[w] = "creating" /\ deliveries' = Put(deliveries, wkey[w], "pending")
          /\ wpc' = [wpc EXCEPT ![w] = "sending"] /\ UNCHANGED <<wkey, calls, accepted, faults>>
      BY <1>6, <2>2 DEF WorkerCreates
    <3> QED BY <2>2, <3>1, CreatesStep
  <2> QED BY <1>6, <2>1, <2>2 DEF WorkerCreates
<1>7. CASE WorkerSends(w)
  BY <1>7, SendsStep
<1>8. CASE WorkerSettles(w)
  BY <1>8, SettlesStep
<1> QED BY <1>1, <1>2, <1>3, <1>4, <1>5, <1>6, <1>7, <1>8 DEF WorkerStep

\* A failed statement lets go of the key in hand, and of what is known of its row.
LEMMA FaultKeepsNInv ==
    ASSUME NInv, NEW w \in Worker, WorkerFails(w)
    PROVE  NInv'
<1>1. /\ UNCHANGED sendVars /\ faults' = faults + 1
      /\ \E p \in {"idle", "looking"} :
            wpc' = [wpc EXCEPT ![w] = p] /\ wkey' = [wkey EXCEPT ![w] = NoKey]
  <2>1. Released(w) \/ \E todo : Continue(w, todo)
    BY DEF WorkerFails
  <2>2. CASE Released(w)
    BY <2>2 DEF Released, WorkerFails
  <2>3. CASE \E todo : Continue(w, todo)
    BY <2>3, ContinueEffect DEF WorkerFails
  <2> QED BY <2>1, <2>2, <2>3
<1>2. faults' \in Nat /\ faults' # 0
  BY <1>1 DEF NInv, ShapeInv
<1> QED BY <1>1, <1>2, LooseStep DEF PC, Holding

\* After a crash no worker holds a row; the rows they held stay pending.
LEMMA CrashKeepsNInv == NInv /\ Crash => NInv'
<1> SUFFICES ASSUME NInv, Crash PROVE NInv'
  OBVIOUS
<1>1. /\ UNCHANGED <<deliveries, calls, accepted>> /\ faults' = faults + 1
      /\ wpc' = [w \in Worker |-> "idle"] /\ wkey' = [w \in Worker |-> NoKey]
  BY DEF Crash, sendVars
<1>2. ShapeInv' /\ faults' # 0
  BY <1>1 DEF NInv, ShapeInv, PC
<1>3. RowInv' /\ OneHolder'
  BY <1>1 DEF RowInv, OneHolder, Holding
<1>4. CallsInv' /\ LogInv'
  BY <1>1, <1>2 DEF NInv, CallsInv, LogInv
<1> QED BY <1>2, <1>3, <1>4 DEF NInv

LEMMA NextNInv == NInv /\ [Next]_vars => NInv'
<1> SUFFICES ASSUME NInv, [Next]_vars PROVE NInv'
  OBVIOUS
<1>1. CASE Tick \/ Renew \/ EditPolicy \/ EditOverride \/ \E e \in Switched : SwitchEndpoint(e)
  BY <1>1, UntoldStep DEF Tick, Renew, EditPolicy, EditOverride, SwitchEndpoint, sendVars, workerVars
<1>2. CASE \E w \in Worker : WorkerReads(w) \/ WorkerStep(w)
  BY <1>2, WorkerKeepsNInv
<1>3. CASE \E w \in Worker : WorkerFails(w)
  BY <1>3, FaultKeepsNInv
<1>4. CASE Crash
  BY <1>4, CrashKeepsNInv
<1>5. CASE UNCHANGED vars
  BY <1>5, UntoldStep DEF vars, workerVars
<1> QED BY <1>1, <1>2, <1>3, <1>4, <1>5 DEF Next

-----------------------------------------------------------------------------
(* The theorems *)

\* What every reachable state satisfies.
THEOREM AlwaysNInv == Spec => []NInv
<1> QED BY InitNInv, NextNInv, PTL DEF Spec

\* No endpoint is called twice for one event of one certificate: the unique key of
\* notification_deliveries is reserved before the call and never given up (deliverEvent).
THEOREM NeverNotifiedTwice == Spec => []NotifiedAtMostOnce
<1>1. NInv => NotifiedAtMostOnce
  BY DEF NInv, CallsInv, NotifiedAtMostOnce
<1> QED BY AlwaysNInv, <1>1, PTL

\* The log of deliveries tells the truth in every state: "sent" was accepted, "failed" was
\* tried and was not, and without a fault a pending row is in some worker's hand.
THEOREM LogIsTrue == Spec => []DeliveriesTellTheTruth
<1>1. NInv => DeliveriesTellTheTruth
  BY DEF NInv, LogInv, DeliveriesTellTheTruth
<1> QED BY AlwaysNInv, <1>1, PTL

-----------------------------------------------------------------------------
(* The events of a check, and the keys they lead to *)

WellFormed(p) ==
    /\ p.thresholds \subseteq Nat /\ IsFiniteSet(p.thresholds)
    /\ p.endpoints \subseteq Endpoint /\ p.daily \in BOOLEAN

EventSet == [type : {"threshold", "expired", "recovered"}, threshold : Nat, day : Nat \cup {NoDay}]
ThresholdEvent(t, day) == [type |-> "threshold", threshold |-> t, day |-> day]

KeyOf(e, event, c) ==
    [endpoint |-> e, type |-> event.type, threshold |-> event.threshold, cert |-> c, day |-> event.day]

LEMMA AscendingIsList ==
    ASSUME NEW S \in SUBSET Int, IsFiniteSet(S)
    PROVE  Ascending(S) \in Seq(S) /\ ToSet(Ascending(S)) = S
<1>1. Ascending(S) \in SetToSeqs(S)
  BY AscendingExists DEF Ascending
<1> QED BY <1>1, ListIsOnto

\* With a policy that does not repeat, every threshold that is crossed is an event.
LEMMA EventsAre ==
    ASSUME NEW prev \in Row, NEW current \in Row, NEW p, WellFormed(p), NEW now \in Nat
    PROVE  /\ Events(prev, current, p, now) \in Seq(EventSet)
           /\ ~p.daily => \A t \in Crossings(prev, current.days, p.thresholds) :
                            ThresholdEvent(t, NoDay) \in ToSet(Events(prev, current, p, now))
<1> DEFINE last == CHOOSE t \in p.thresholds : \A u \in p.thresholds : u <= t
           over == Crossings(prev, current.days, p.thresholds)
           crossed == Ascending(over)
           due == p.thresholds # {} /\ current.days >= 0 /\ current.days <= last
           daily == IF due THEN <<ThresholdEvent(last, Date(now))>> ELSE <<>>
           expires == (prev.cert = NoCert \/ prev.days >= 0) /\ current.days < 0
           expired == IF expires THEN <<[type |-> "expired", threshold |-> 0, day |-> NoDay]>> ELSE <<>>
           recovers == prev.status = "error" /\ current.status = "healthy"
           recovered == IF recovers THEN <<[type |-> "recovered", threshold |-> 0, day |-> NoDay]>> ELSE <<>>
           each == [i \in DOMAIN crossed |-> ThresholdEvent(crossed[i], NoDay)]
           first == IF p.daily THEN daily ELSE each
<1>1. Events(prev, current, p, now) = first \o expired \o recovered
  BY DEF Events, ThresholdEvent
<1>2. over \in SUBSET p.thresholds /\ p.thresholds \in SUBSET Int /\ IsFiniteSet(over)
  <2>1. over \in SUBSET p.thresholds
    BY DEF Crossings
  <2> HIDE DEF over
  <2> QED BY <2>1, FS_Subset DEF WellFormed
<1>3. crossed \in Seq(over) /\ ToSet(crossed) = over
  <2>1. over \in SUBSET Int
    BY <1>2
  <2> HIDE DEF over
  <2> QED BY <1>2, <2>1, AscendingIsList
<1>4. each \in Seq(EventSet)
  <2> HIDE DEF crossed, over
  <2>1. Len(crossed) \in Nat /\ DOMAIN crossed = 1..Len(crossed) /\ \A i \in 1..Len(crossed) : crossed[i] \in Nat
    BY <1>2, <1>3 DEF WellFormed
  <2>2. \A i \in 1..Len(crossed) : ThresholdEvent(crossed[i], NoDay) \in EventSet
    BY <2>1 DEF EventSet, ThresholdEvent
  <2>3. each \in [1..Len(crossed) -> EventSet]
    BY <2>1, <2>2
  <2> QED BY <2>1, <2>3
<1>5. \A t \in over : ThresholdEvent(t, NoDay) \in ToSet(each)
  <2> SUFFICES ASSUME NEW t \in over PROVE ThresholdEvent(t, NoDay) \in ToSet(each)
    OBVIOUS
  <2> HIDE DEF crossed, over
  <2>1. PICK i \in DOMAIN crossed : crossed[i] = t
    BY <1>3 DEF ToSet
  <2>2. i \in DOMAIN each /\ each[i] = ThresholdEvent(t, NoDay)
    BY <2>1
  <2> QED BY <2>2 DEF ToSet
<1>6. daily \in Seq(EventSet)
  <2>1. CASE due
    <3>1. last \in p.thresholds
      <4>1. \E t \in p.thresholds : \A u \in p.thresholds : u <= t
        BY <1>2, <2>1, GreatestOf DEF WellFormed
      <4> QED BY <4>1
    <3>2. Date(now) \in Nat
      BY DEF Date
    <3> HIDE DEF last
    <3>3. ThresholdEvent(last, Date(now)) \in EventSet
      BY <3>1, <3>2 DEF WellFormed, EventSet, ThresholdEvent
    <3> HIDE DEF due
    <3> QED BY <2>1, <3>3
  <2>2. CASE ~due
    <3> HIDE DEF due, last
    <3> QED BY <2>2, EmptySeq
  <2> QED BY <2>1, <2>2
<1>7. expired \in Seq(EventSet)
  <2>1. [type |-> "expired", threshold |-> 0, day |-> NoDay] \in EventSet
    BY DEF EventSet
  <2> HIDE DEF expires
  <2> QED BY <2>1, EmptySeq
<1>8. recovered \in Seq(EventSet)
  <2>1. [type |-> "recovered", threshold |-> 0, day |-> NoDay] \in EventSet
    BY DEF EventSet
  <2> HIDE DEF recovers
  <2> QED BY <2>1, EmptySeq
<1> HIDE DEF daily, each, expired, recovered, over
<1>9. first \in Seq(EventSet)
  BY <1>4, <1>6
<1> HIDE DEF first
<1>10. /\ first \o expired \in Seq(EventSet)
       /\ \A x : x \in ToSet(first) => x \in ToSet(first \o expired)
  BY <1>7, <1>9, ConcatElements
<1>11. PICK front \in Seq(EventSet) : front = first \o expired
  BY <1>10
<1>12. /\ front \o recovered \in Seq(EventSet)
       /\ \A x : x \in ToSet(front) => x \in ToSet(front \o recovered)
  BY <1>8, ConcatElements
<1>13. ~p.daily => first = each
  BY DEF first
<1>14. Events(prev, current, p, now) = front \o recovered
  BY <1>1, <1>11
<1>15. ASSUME ~p.daily, NEW t \in over PROVE ThresholdEvent(t, NoDay) \in ToSet(Events(prev, current, p, now))
  BY <1>5, <1>10, <1>11, <1>12, <1>13, <1>14, <1>15
<1> QED BY <1>12, <1>14, <1>15 DEF over

\* Every event goes to every endpoint.
LEMMA KeysAre ==
    ASSUME NEW list \in Seq(EventSet), NEW E \in SUBSET Endpoint, NEW c \in Cert
    PROVE  /\ Keys(list, E, c) \in Seq(Key)
           /\ \A event \in ToSet(list), e \in E : KeyOf(e, event, c) \in ToSet(Keys(list, E, c))
<1> DEFINE to == SetToSeq(E)
           sent(i) == [j \in DOMAIN to |-> KeyOf(to[j], list[i], c)]
           rows == [i \in DOMAIN list |-> sent(i)]
<1>1. to \in Seq(E) /\ ToSet(to) = E
  BY NotifyAssumption, FS_Subset, SetToSeqIsList
<1>2. Len(to) \in Nat /\ DOMAIN to = 1..Len(to) /\ \A j \in 1..Len(to) : to[j] \in E
  BY <1>1
<1>3. Len(list) \in Nat /\ DOMAIN list = 1..Len(list) /\ \A i \in 1..Len(list) : list[i] \in EventSet
  OBVIOUS
<1>4. Keys(list, E, c) = FlattenSeq(rows)
  BY DEF Keys, KeyOf
<1> HIDE DEF to
<1>5. ASSUME NEW i \in 1..Len(list) PROVE sent(i) \in Seq(Key)
  <2>1. \A j \in 1..Len(to) : KeyOf(to[j], list[i], c) \in Key
    BY <1>2, <1>3 DEF KeyOf, Key, EventSet
  <2>2. sent(i) \in [1..Len(to) -> Key]
    BY <1>2, <2>1
  <2> QED BY <1>2, <2>2
<1>6. rows \in Seq(Seq(Key)) /\ Len(rows) = Len(list)
  <2> HIDE DEF sent
  <2>1. rows \in [1..Len(list) -> Seq(Key)]
    BY <1>3, <1>5
  <2> QED BY <1>3, <2>1
<1>7. ASSUME NEW i \in 1..Len(list), NEW e \in E
      PROVE  KeyOf(e, list[i], c) \in ToSet(rows[i])
  <2>1. PICK j \in DOMAIN to : to[j] = e
    BY <1>1 DEF ToSet
  <2>2. rows[i] = sent(i)
    BY <1>3
  <2>3. j \in DOMAIN sent(i) /\ sent(i)[j] = KeyOf(e, list[i], c)
    BY <2>1
  <2> HIDE DEF rows, sent
  <2> QED BY <2>2, <2>3 DEF ToSet
<1> HIDE DEF rows
<1>8. FlattenSeq(rows) \in Seq(Key) /\ \A x : x \in ToSet(FlattenSeq(rows)) <=> \E i \in 1..Len(rows) : x \in ToSet(rows[i])
  BY <1>6, FlattenIsList
<1>9. ASSUME NEW event \in ToSet(list), NEW e \in E
      PROVE  KeyOf(e, event, c) \in ToSet(FlattenSeq(rows))
  <2>1. PICK i \in 1..Len(list) : event = list[i]
    BY <1>3 DEF ToSet
  <2> QED BY <1>6, <1>7, <1>8, <2>1
<1> QED BY <1>4, <1>8, <1>9
-----------------------------------------------------------------------------
(* What a worker knows, and the keys in its hands *)

\* A worker has keys only from its plan to its last delivery, and a healthy check has found a
\* certificate.
GoodHand(p, prev, check, todo, key) ==
    /\ p \in PC /\ prev \in Row /\ check \in Check /\ todo \in Seq(Key) /\ key \in Key \cup {NoKey}
    /\ p \in {"idle", "checking", "recording", "notifying"} => todo = <<>>
    /\ p = "looking" => todo # <<>>
    /\ key # NoKey <=> p \in {"creating", "sending", "settling", "failing"}
    /\ check.status = "healthy" => check.cert \in Cert /\ ~check.kept

HandsInv ==
    /\ wpc \in [Worker -> PC] /\ wprev \in [Worker -> Row] /\ wcheck \in [Worker -> Check]
    /\ wtodo \in [Worker -> Seq(Key)] /\ wkey \in [Worker -> Key \cup {NoKey}]
    /\ \A w \in Worker : GoodHand(wpc[w], wprev[w], wcheck[w], wtodo[w], wkey[w])

WorldInv ==
    /\ time \in 0..MaxTime /\ served \in Cert /\ row \in Row /\ faults \in 0..MaxFaults
    /\ row.status = "healthy" => row.cert \in Cert

ConfigInv ==
    /\ WellFormed(policy) /\ on \subseteq Endpoint
    /\ override # NoPolicy => WellFormed(override) /\ ~override.daily

DeliveriesInv ==
    /\ DOMAIN deliveries \subseteq Key
    /\ \A k \in DOMAIN deliveries : deliveries[k] \in {"pending", "sent", "failed"}

PlanInv == WorldInv /\ ConfigInv /\ DeliveriesInv /\ HandsInv

\* One worker comes to know and to hold these; the others stay as they are.
Moves(w, p, prev, check, todo, key) ==
    /\ wpc' = [wpc EXCEPT ![w] = p] /\ wprev' = [wprev EXCEPT ![w] = prev]
    /\ wcheck' = [wcheck EXCEPT ![w] = check] /\ wtodo' = [wtodo EXCEPT ![w] = todo]
    /\ wkey' = [wkey EXCEPT ![w] = key]

LEMMA MovesWell ==
    ASSUME HandsInv, NEW w \in Worker, NEW p, NEW prev, NEW check, NEW todo, NEW key,
           Moves(w, p, prev, check, todo, key), GoodHand(p, prev, check, todo, key)
    PROVE  /\ HandsInv'
           /\ wpc'[w] = p /\ wprev'[w] = prev /\ wcheck'[w] = check /\ wtodo'[w] = todo /\ wkey'[w] = key
           /\ \A v \in Worker \ {w} : wtodo'[v] = wtodo[v] /\ wkey'[v] = wkey[v]
<1>1. /\ p \in PC /\ prev \in Row /\ check \in Check /\ todo \in Seq(Key) /\ key \in Key \cup {NoKey}
  BY DEF GoodHand
<1>2. /\ wpc' \in [Worker -> PC] /\ wprev' \in [Worker -> Row] /\ wcheck' \in [Worker -> Check]
      /\ wtodo' \in [Worker -> Seq(Key)] /\ wkey' \in [Worker -> Key \cup {NoKey}]
  BY <1>1 DEF HandsInv, Moves
<1>3. wpc'[w] = p /\ wprev'[w] = prev /\ wcheck'[w] = check /\ wtodo'[w] = todo /\ wkey'[w] = key
  BY DEF HandsInv, Moves
<1>4. ASSUME NEW v \in Worker \ {w}
      PROVE  /\ wpc'[v] = wpc[v] /\ wprev'[v] = wprev[v] /\ wcheck'[v] = wcheck[v]
             /\ wtodo'[v] = wtodo[v] /\ wkey'[v] = wkey[v]
  BY DEF HandsInv, Moves
<1>5. ASSUME NEW v \in Worker
      PROVE  GoodHand(wpc'[v], wprev'[v], wcheck'[v], wtodo'[v], wkey'[v])
  <2>1. CASE v = w
    BY <1>3, <2>1
  <2>2. CASE v # w
    BY <1>4, <2>2 DEF HandsInv
  <2> QED BY <2>1, <2>2
<1> QED BY <1>2, <1>3, <1>4, <1>5 DEF HandsInv

\* What a worker has in its hands when it holds nothing.
LEMMA EmptyHand ==
    /\ NoRow \in Row /\ NoCheck \in Check /\ <<>> \in Seq(Key)
    /\ GoodHand("idle", NoRow, NoCheck, <<>>, NoKey)
  BY EmptySeq DEF GoodHand, PC, Row, Check, NoRow, NoCheck

\* What a step that leaves a part of a worker alone does to it.
LEMMA Alone ==
    ASSUME HandsInv, NEW w \in Worker
    PROVE  /\ wpc = [wpc EXCEPT ![w] = wpc[w]] /\ wprev = [wprev EXCEPT ![w] = wprev[w]]
           /\ wcheck = [wcheck EXCEPT ![w] = wcheck[w]] /\ wtodo = [wtodo EXCEPT ![w] = wtodo[w]]
           /\ wkey = [wkey EXCEPT ![w] = wkey[w]]
  BY DEF HandsInv

\* The loop goes on with what is left of it, or ends.
LEMMA ContinueMoves ==
    ASSUME HandsInv, NEW w \in Worker, NEW todo \in Seq(Key), Continue(w, todo),
           wpc[w] \notin {"idle", "checking", "recording", "notifying"}
    PROVE  \E p \in {"idle", "looking"}, prev \in Row, check \in Check :
              Moves(w, p, prev, check, todo, NoKey) /\ GoodHand(p, prev, check, todo, NoKey)
<1>1. CASE todo = <<>>
  <2>1. Moves(w, "idle", NoRow, NoCheck, todo, NoKey)
    BY <1>1 DEF Continue, Released, Moves
  <2> QED BY <1>1, <2>1, EmptyHand
<1>2. CASE todo # <<>>
  <2>1. Moves(w, "looking", wprev[w], wcheck[w], todo, NoKey)
    BY <1>2, Alone DEF Continue, Moves
  <2>2. wprev[w] \in Row /\ wcheck[w] \in Check
    BY DEF HandsInv
  <2>3. GoodHand("looking", wprev[w], wcheck[w], todo, NoKey)
    BY <1>2 DEF HandsInv, GoodHand, PC
  <2> QED BY <2>1, <2>2, <2>3
<1> QED BY <1>1, <1>2

\* The first key of a list and the others.
LEMMA HeadAndTail ==
    ASSUME NEW S, NEW s \in Seq(S), s # <<>>
    PROVE  Head(s) \in S /\ Tail(s) \in Seq(S) /\ ToSet(s) = {Head(s)} \cup ToSet(Tail(s))
<1>1. PICK n \in Nat : n = Len(s)
  BY LenProperties
<1>2. n # 0
  BY <1>1, EmptySeq
<1>3. Head(s) = s[1] /\ Tail(s) \in Seq(S) /\ Len(Tail(s)) = n - 1 /\ \A i \in 1..(n - 1) : Tail(s)[i] = s[i + 1]
  BY <1>1, <1>2, HeadTailProperties
<1>4. DOMAIN s = 1..n /\ DOMAIN Tail(s) = 1..(n - 1) /\ \A i \in 1..n : s[i] \in S
  BY <1>1, <1>3, LenProperties
<1>5. ToSet(s) = {s[i] : i \in 1..n} /\ ToSet(Tail(s)) = {Tail(s)[i] : i \in 1..(n - 1)}
  BY <1>4 DEF ToSet
<1>6. 1 \in 1..n /\ \A i \in 1..(n - 1) : i + 1 \in 1..n
  BY <1>2
<1>7. ASSUME NEW i \in 1..n PROVE s[i] = s[1] \/ s[i] \in ToSet(Tail(s))
  <2>1. CASE i = 1
    BY <2>1
  <2>2. CASE i # 1
    <3>1. i - 1 \in 1..(n - 1) /\ (i - 1) + 1 = i
      BY <2>2
    <3> QED BY <1>3, <1>5, <3>1
  <2> QED BY <2>1, <2>2
<1>8. Head(s) \in S
  BY <1>3, <1>4, <1>6
<1>9. ToSet(s) \subseteq {Head(s)} \cup ToSet(Tail(s))
  BY <1>3, <1>5, <1>7
<1>10. {Head(s)} \cup ToSet(Tail(s)) \subseteq ToSet(s)
  BY <1>3, <1>5, <1>6
<1> QED BY <1>3, <1>8, <1>9, <1>10

-----------------------------------------------------------------------------
(* Each step of a worker *)

Held(todo, key) == ToSet(todo) \cup (IF key = NoKey THEN {} ELSE {key})

\* A worker goes to a point where it may be, and lets go of no key without its row.
Keeps(w, p, prev, check, todo, key) ==
    /\ Moves(w, p, prev, check, todo, key) /\ GoodHand(p, prev, check, todo, key)
    /\ faults' = faults => Held(wtodo[w], wkey[w]) \subseteq Held(todo, key) \cup DOMAIN deliveries'

LEMMA NothingHeld ==
    ASSUME HandsInv, NEW w \in Worker, wpc[w] \in {"idle", "checking", "recording", "notifying"}
    PROVE  wtodo[w] = <<>> /\ wkey[w] = NoKey /\ Held(wtodo[w], wkey[w]) = {}
<1>1. wtodo[w] = <<>> /\ wkey[w] = NoKey
  BY DEF HandsInv, GoodHand
<1>2. ToSet(<<>>) = {}
  BY EmptySeq DEF ToSet
<1> QED BY <1>1, <1>2 DEF Held

LEMMA InForceIs ==
    ASSUME ConfigInv
    PROVE  WellFormed(InForce) /\ InForce.thresholds \in SUBSET Nat /\ (InForce.endpoints \cap on) \in SUBSET Endpoint
  BY DEF ConfigInv, InForce, WellFormed

\* MaybeNotify's list, for a row that is healthy.
LEMMA PlanIs ==
    ASSUME WorldInv, ConfigInv, row.status = "healthy", NEW prev \in Row
    PROVE  LET list == Keys(Events(prev, row, InForce, time), InForce.endpoints \cap on, row.cert)
           IN  /\ list \in Seq(Key)
               /\ ~InForce.daily => \A t \in Crossings(prev, row.days, InForce.thresholds), e \in InForce.endpoints \cap on :
                      KeyOf(e, ThresholdEvent(t, NoDay), row.cert) \in ToSet(list)
<1>1. row \in Row /\ row.cert \in Cert /\ time \in Nat
  BY DEF WorldInv
<1>2. WellFormed(InForce) /\ (InForce.endpoints \cap on) \in SUBSET Endpoint
  BY InForceIs
<1> DEFINE events == Events(prev, row, InForce, time)
<1>3. /\ events \in Seq(EventSet)
      /\ ~InForce.daily => \A t \in Crossings(prev, row.days, InForce.thresholds) : ThresholdEvent(t, NoDay) \in ToSet(events)
  BY <1>1, <1>2, EventsAre
<1> HIDE DEF events
<1>4. /\ Keys(events, InForce.endpoints \cap on, row.cert) \in Seq(Key)
      /\ \A event \in ToSet(events), e \in InForce.endpoints \cap on :
            KeyOf(e, event, row.cert) \in ToSet(Keys(events, InForce.endpoints \cap on, row.cert))
  BY <1>1, <1>2, <1>3, KeysAre
<1> QED BY <1>3, <1>4 DEF events

LEMMA ReadsKeeps ==
    ASSUME PlanInv, NEW w \in Worker, WorkerReads(w)
    PROVE  Keeps(w, "checking", row, wcheck[w], <<>>, NoKey)
<1>1. wpc[w] = "idle" /\ wtodo[w] = <<>> /\ wkey[w] = NoKey /\ Held(wtodo[w], wkey[w]) = {}
  BY NothingHeld DEF PlanInv, WorkerReads
<1>2. Moves(w, "checking", row, wcheck[w], wtodo[w], wkey[w])
  BY Alone DEF WorkerReads, Moves, PlanInv
<1>3. GoodHand("checking", row, wcheck[w], wtodo[w], wkey[w])
  BY <1>1 DEF PlanInv, HandsInv, WorldInv, GoodHand, PC
<1> QED BY <1>1, <1>2, <1>3 DEF Keeps

LEMMA ChecksKeeps ==
    ASSUME PlanInv, NEW w \in Worker, WorkerChecks(w)
    PROVE  \E check : /\ Keeps(w, "recording", wprev[w], check, <<>>, NoKey)
                      /\ seen' # Spoiled => seen' = seen /\ check = [status |-> "healthy", cert |-> served, kept |-> FALSE,
                                                                     days |-> DaysLeft(served, time)]
<1>1. wpc[w] = "checking" /\ wtodo[w] = <<>> /\ wkey[w] = NoKey /\ Held(wtodo[w], wkey[w]) = {}
  BY NothingHeld DEF PlanInv, WorkerChecks
<1> DEFINE Found(status, c, kept) ==
      [status |-> status, cert |-> c, kept |-> kept, days |-> IF c = NoCert THEN 0 ELSE DaysLeft(c, time)]
<1>2. served \in Cert /\ served # NoCert /\ time \in Nat /\ wprev[w].cert \in Cert \cup {NoCert}
  BY NotifyAssumption DEF PlanInv, WorldInv, HandsInv, Row
<1>3. PICK check :
         /\ \E status \in {"healthy", "error"}, c \in Cert \cup {NoCert}, kept \in BOOLEAN :
                check = Found(status, c, kept) /\ (status = "healthy" => c \in Cert /\ ~kept)
         /\ wcheck' = [wcheck EXCEPT ![w] = check]
         /\ seen' # Spoiled => seen' = seen /\ check = Found("healthy", served, FALSE)
  BY <1>2 DEF WorkerChecks
<1>4. \A c \in Cert : DaysLeft(c, time) \in Int
  BY <1>2, NotifyAssumption DEF DaysLeft
<1>5. check \in Check /\ (check.status = "healthy" => check.cert \in Cert /\ ~check.kept)
  <2>1. \A status \in {"healthy", "error"}, c \in Cert \cup {NoCert}, kept \in BOOLEAN : Found(status, c, kept) \in Check
    BY <1>4 DEF Check
  <2>2. \A status, c, kept : Found(status, c, kept).status = status /\ Found(status, c, kept).cert = c
                               /\ Found(status, c, kept).kept = kept
    OBVIOUS
  <2> HIDE DEF Found
  <2> QED BY <1>3, <2>1, <2>2
<1>6. Found("healthy", served, FALSE) = [status |-> "healthy", cert |-> served, kept |-> FALSE, days |-> DaysLeft(served, time)]
  BY <1>2
<1> HIDE DEF Found
<1>7. Moves(w, "recording", wprev[w], check, wtodo[w], wkey[w])
  BY <1>3, Alone DEF WorkerChecks, Moves, PlanInv
<1>8. GoodHand("recording", wprev[w], check, wtodo[w], wkey[w])
  BY <1>1, <1>5 DEF PlanInv, HandsInv, GoodHand, PC
<1>9. Keeps(w, "recording", wprev[w], check, <<>>, NoKey)
  BY <1>1, <1>7, <1>8 DEF Keeps
<1> QED BY <1>3, <1>9, <1>6

LEMMA RecordsKeeps ==
    ASSUME PlanInv, NEW w \in Worker, WorkerRecords(w)
    PROVE  Keeps(w, "notifying", wprev[w], NoCheck, <<>>, NoKey)
<1>1. wpc[w] = "recording" /\ wtodo[w] = <<>> /\ wkey[w] = NoKey /\ Held(wtodo[w], wkey[w]) = {}
  BY NothingHeld DEF PlanInv, WorkerRecords
<1>2. Moves(w, "notifying", wprev[w], NoCheck, wtodo[w], wkey[w])
  BY Alone DEF WorkerRecords, Moves, PlanInv
<1>3. NoCheck \in Check /\ NoCheck.status = "error"
  BY EmptyHand DEF NoCheck
<1>4. GoodHand("notifying", wprev[w], NoCheck, wtodo[w], wkey[w])
  BY <1>1, <1>3 DEF PlanInv, HandsInv, GoodHand, PC
<1> QED BY <1>1, <1>2, <1>4 DEF Keeps

LEMMA PlansKeeps ==
    ASSUME PlanInv, NEW w \in Worker, WorkerPlans(w)
    PROVE  LET list == Keys(Events(wprev[w], row, InForce, time), InForce.endpoints \cap on, row.cert)
           IN  \E p \in {"idle", "looking"} : \E prev, check, todo :
                  /\ Keeps(w, p, prev, check, todo, NoKey)
                  /\ row.status = "healthy" => todo = list
<1> DEFINE list == Keys(Events(wprev[w], row, InForce, time), InForce.endpoints \cap on, row.cert)
<1>1. wpc[w] = "notifying" /\ wtodo[w] = <<>> /\ wkey[w] = NoKey /\ Held(wtodo[w], wkey[w]) = {}
  BY NothingHeld DEF PlanInv, WorkerPlans
<1>2. wprev[w] \in Row /\ wcheck[w] \in Check
  BY DEF PlanInv, HandsInv
<1>3. row.status = "healthy" => list \in Seq(Key)
  BY <1>2, PlanIs DEF PlanInv
<1>4. \/ /\ row.status = "healthy" /\ list # <<>>
         /\ wtodo' = [wtodo EXCEPT ![w] = list] /\ wprev' = [wprev EXCEPT ![w] = NoRow]
         /\ wpc' = [wpc EXCEPT ![w] = "looking"] /\ UNCHANGED <<wcheck, wkey>>
      \/ (row.status # "healthy" \/ list = <<>>) /\ Released(w)
  BY DEF WorkerPlans
<1> HIDE DEF list
<1>5. CASE row.status = "healthy" /\ list # <<>>
  <2>1. Moves(w, "looking", NoRow, wcheck[w], list, wkey[w])
    BY <1>4, <1>5, Alone DEF Moves, PlanInv
  <2>2. GoodHand("looking", NoRow, wcheck[w], list, NoKey)
    BY <1>1, <1>3, <1>5, EmptyHand DEF PlanInv, HandsInv, GoodHand, PC
  <2>3. Keeps(w, "looking", NoRow, wcheck[w], list, NoKey)
    BY <1>1, <2>1, <2>2 DEF Keeps
  <2> QED BY <2>3 DEF list
<1>6. CASE row.status # "healthy" \/ list = <<>>
  <2>1. Moves(w, "idle", NoRow, NoCheck, <<>>, NoKey)
    BY <1>4, <1>6 DEF Released, Moves
  <2>2. Keeps(w, "idle", NoRow, NoCheck, <<>>, NoKey)
    BY <1>1, <2>1, EmptyHand DEF Keeps
  <2> QED BY <1>6, <2>2 DEF list
<1> QED BY <1>5, <1>6

LEMMA LooksKeeps ==
    ASSUME PlanInv, NEW w \in Worker, WorkerLooks(w)
    PROVE  \E p \in {"idle", "looking", "creating"} : \E prev, check, todo, key : Keeps(w, p, prev, check, todo, key)
<1> DEFINE k == Head(wtodo[w])
           rest == Tail(wtodo[w])
<1>1. wpc[w] = "looking" /\ wtodo[w] \in Seq(Key) /\ wtodo[w] # <<>> /\ wkey[w] = NoKey
      /\ wprev[w] \in Row /\ wcheck[w] \in Check
  BY DEF WorkerLooks, PlanInv, HandsInv, GoodHand
<1>2. k \in Key /\ k # NoKey /\ rest \in Seq(Key) /\ ToSet(wtodo[w]) = {k} \cup ToSet(rest)
  BY <1>1, HeadAndTail, NoKeyAssumption
<1>3. UNCHANGED deliveries
  BY DEF WorkerLooks, sendVars
<1>4. CASE k \in DOMAIN deliveries /\ Continue(w, rest)
  <2>1. PICK p \in {"idle", "looking"}, prev \in Row, check \in Check :
            Moves(w, p, prev, check, rest, NoKey) /\ GoodHand(p, prev, check, rest, NoKey)
    BY <1>1, <1>2, <1>4, ContinueMoves DEF PlanInv
  <2>2. Held(wtodo[w], wkey[w]) \subseteq Held(rest, NoKey) \cup DOMAIN deliveries'
    BY <1>1, <1>2, <1>3, <1>4 DEF Held
  <2> QED BY <2>1, <2>2 DEF Keeps
<1>5. CASE k \notin DOMAIN deliveries
  <2> HIDE DEF k, rest
  <2>1. Moves(w, "creating", wprev[w], wcheck[w], rest, k)
    BY <1>5, Alone DEF WorkerLooks, Moves, PlanInv, k, rest
  <2>2. GoodHand("creating", wprev[w], wcheck[w], rest, k)
    BY <1>1, <1>2 DEF PlanInv, HandsInv, GoodHand, PC
  <2>3. Held(wtodo[w], wkey[w]) \subseteq Held(rest, k) \cup DOMAIN deliveries'
    BY <1>1, <1>2 DEF Held
  <2> QED BY <2>1, <2>2, <2>3 DEF Keeps
<1> QED BY <1>4, <1>5 DEF WorkerLooks

\* The delivery of the key in hand ends, and its row is there.
LEMMA EndsKeeps ==
    ASSUME PlanInv, NEW w \in Worker, wpc[w] \in {"creating", "sending", "settling", "failing"},
           Continue(w, wtodo[w]), faults' = faults => wkey[w] \in DOMAIN deliveries'
    PROVE  \E p \in {"idle", "looking"} : \E prev, check, todo, key : Keeps(w, p, prev, check, todo, key)
<1>1. wtodo[w] \in Seq(Key)
  BY DEF PlanInv, HandsInv
<1>2. PICK p \in {"idle", "looking"}, prev \in Row, check \in Check :
          Moves(w, p, prev, check, wtodo[w], NoKey) /\ GoodHand(p, prev, check, wtodo[w], NoKey)
  BY <1>1, ContinueMoves DEF PlanInv
<1>3. faults' = faults => Held(wtodo[w], wkey[w]) \subseteq Held(wtodo[w], NoKey) \cup DOMAIN deliveries'
  BY DEF Held
<1> QED BY <1>2, <1>3 DEF Keeps

\* The key stays in hand from one point of its delivery to the next.
LEMMA HoldsKeeps ==
    ASSUME PlanInv, NEW w \in Worker, wpc[w] \in {"creating", "sending"},
           NEW p \in {"sending", "settling", "failing"},
           wpc' = [wpc EXCEPT ![w] = p], UNCHANGED <<wprev, wcheck, wtodo, wkey>>
    PROVE  Keeps(w, p, wprev[w], wcheck[w], wtodo[w], wkey[w])
<1>1. Moves(w, p, wprev[w], wcheck[w], wtodo[w], wkey[w])
  BY Alone DEF Moves, PlanInv
<1>2. GoodHand(p, wprev[w], wcheck[w], wtodo[w], wkey[w])
  BY DEF PlanInv, HandsInv, GoodHand, PC, Holding
<1> QED BY <1>1, <1>2 DEF Keeps

LEMMA DeliversKeeps ==
    ASSUME NInv, PlanInv, NEW w \in Worker, WorkerCreates(w) \/ WorkerSends(w) \/ WorkerSettles(w)
    PROVE  \E p \in {"idle", "looking", "sending", "settling", "failing"} : \E prev, check, todo, key :
              Keeps(w, p, prev, check, todo, key)
<1>1. CASE WorkerCreates(w)
  <2>1. CASE wkey[w] \in DOMAIN deliveries /\ Continue(w, wtodo[w]) /\ UNCHANGED deliveries
    BY <1>1, <2>1, EndsKeeps DEF WorkerCreates
  <2>2. CASE wpc' = [wpc EXCEPT ![w] = "sending"] /\ UNCHANGED <<wprev, wcheck, wtodo, wkey>>
    BY <1>1, <2>2, HoldsKeeps DEF WorkerCreates
  <2> QED BY <1>1, <2>1, <2>2 DEF WorkerCreates
<1>2. CASE WorkerSends(w)
  BY <1>2, HoldsKeeps DEF WorkerSends
<1>3. CASE WorkerSettles(w)
  <2>1. wkey[w] \in DOMAIN deliveries /\ wpc[w] \in {"settling", "failing"} /\ Continue(w, wtodo[w])
    BY <1>3 DEF NInv, RowInv, Holding, WorkerSettles
  <2>2. DOMAIN deliveries' = DOMAIN deliveries
    BY <1>3 DEF WorkerSettles
  <2> QED BY <2>1, <2>2, EndsKeeps
<1> QED BY <1>1, <1>2, <1>3

LEMMA FailsKeeps ==
    ASSUME PlanInv, NEW w \in Worker, WorkerFails(w)
    PROVE  \E p, prev, check, todo, key : Keeps(w, p, prev, check, todo, key)
<1>1. faults' # faults
  BY DEF WorkerFails, PlanInv, WorldInv
<1>2. CASE wpc[w] \in {"recording", "notifying"}
  <2>1. Moves(w, "idle", NoRow, NoCheck, <<>>, NoKey)
    BY <1>2 DEF WorkerFails, Released, Moves
  <2> QED BY <1>1, <2>1, EmptyHand DEF Keeps
<1>3. CASE wpc[w] = "looking"
  <2>1. wtodo[w] \in Seq(Key) /\ wtodo[w] # <<>>
    BY <1>3 DEF PlanInv, HandsInv, GoodHand
  <2>2. Tail(wtodo[w]) \in Seq(Key)
    BY <2>1, HeadAndTail
  <2>3. Continue(w, Tail(wtodo[w]))
    BY <1>3 DEF WorkerFails
  <2> QED BY <1>1, <1>3, <2>2, <2>3, ContinueMoves DEF Keeps, PlanInv
<1>4. CASE wpc[w] \in {"creating", "settling", "failing"}
  <2>1. Continue(w, wtodo[w])
    BY <1>4 DEF WorkerFails
  <2> QED BY <1>1, <1>4, <2>1, EndsKeeps
<1> QED BY <1>2, <1>3, <1>4 DEF WorkerFails, PlanInv, HandsInv, PC, Holding

-----------------------------------------------------------------------------
(* What every step keeps *)

LEMMA AppliedIsWellFormed ==
    ASSUME NEW p \in Policies, NEW daily \in BOOLEAN
    PROVE  WellFormed(Applied(p, daily))
<1> DEFINE kept == NormalizeThresholds(p.thresholds)
<1>1. p.thresholds \in SUBSET Int /\ IsFiniteSet(p.thresholds) /\ p.endpoints \subseteq Endpoint
  BY NotifyAssumption
<1>2. kept \in SUBSET p.thresholds /\ kept \subseteq Nat
  BY <1>1 DEF NormalizeThresholds
<1> HIDE DEF kept
<1>3. IsFiniteSet(kept)
  BY <1>1, <1>2, FS_Subset
<1> QED BY <1>1, <1>2, <1>3 DEF Applied, WellFormed, kept

LEMMA InitPlanInv == Init => PlanInv
<1> SUFFICES ASSUME Init PROVE PlanInv
  OBVIOUS
<1>1. WorldInv
  BY NotifyAssumption DEF Init, WorldInv, Row, NoRow
<1>2. ConfigInv
  BY AppliedIsWellFormed, NotifyAssumption DEF Init, ConfigInv
<1>3. DeliveriesInv
  BY EmptySeq DEF Init, DeliveriesInv
<1>4. HandsInv
  <2>1. /\ "idle" \in PC /\ NoRow \in Row /\ NoCheck \in Check /\ <<>> \in Seq(Key) /\ NoKey \in Key \cup {NoKey}
        /\ GoodHand("idle", NoRow, NoCheck, <<>>, NoKey)
    BY EmptyHand DEF GoodHand
  <2> QED BY <2>1 DEF Init, HandsInv
<1> QED BY <1>1, <1>2, <1>3, <1>4 DEF PlanInv

\* A worker that moves well, whatever else its step does.
LEMMA KeepsHands ==
    ASSUME HandsInv, NEW w \in Worker, \E p, prev, check, todo, key : Keeps(w, p, prev, check, todo, key)
    PROVE  /\ HandsInv'
           /\ faults' = faults /\ DOMAIN deliveries \subseteq DOMAIN deliveries'
                => \A v \in Worker : InHand(v) \subseteq InHand(v)' \cup DOMAIN deliveries'
<1>1. PICK p, prev, check, todo, key : Keeps(w, p, prev, check, todo, key)
  OBVIOUS
<1>2. /\ HandsInv' /\ wtodo'[w] = todo /\ wkey'[w] = key
      /\ \A v \in Worker \ {w} : wtodo'[v] = wtodo[v] /\ wkey'[v] = wkey[v]
  BY <1>1, MovesWell DEF Keeps
<1>3. \A v \in Worker : InHand(v) = Held(wtodo[v], wkey[v]) /\ InHand(v)' = Held(wtodo'[v], wkey'[v])
  BY DEF InHand, Held
<1>4. ASSUME faults' = faults, NEW v \in Worker PROVE InHand(v) \subseteq InHand(v)' \cup DOMAIN deliveries'
  <2>1. CASE v = w
    BY <1>1, <1>2, <1>3, <1>4, <2>1 DEF Keeps
  <2>2. CASE v # w
    BY <1>2, <1>3, <2>2
  <2> QED BY <2>1, <2>2
<1> QED BY <1>2, <1>4

LEMMA WorkerKeepsHands ==
    ASSUME NInv, PlanInv, NEW w \in Worker, WorkerReads(w) \/ WorkerStep(w) \/ WorkerFails(w)
    PROVE  \E p, prev, check, todo, key : Keeps(w, p, prev, check, todo, key)
<1>1. CASE WorkerReads(w)
  BY <1>1, ReadsKeeps
<1>2. CASE WorkerChecks(w)
  BY <1>2, ChecksKeeps
<1>3. CASE WorkerRecords(w)
  BY <1>3, RecordsKeeps
<1>4. CASE WorkerPlans(w)
  BY <1>4, PlansKeeps
<1>5. CASE WorkerLooks(w)
  BY <1>5, LooksKeeps
<1>6. CASE WorkerCreates(w) \/ WorkerSends(w) \/ WorkerSettles(w)
  BY <1>6, DeliversKeeps
<1>7. CASE WorkerFails(w)
  BY <1>7, FailsKeeps
<1> QED BY <1>1, <1>2, <1>3, <1>4, <1>5, <1>6, <1>7 DEF WorkerStep

LEMMA DeliveriesGrow ==
    ASSUME NInv, PlanInv, [Next]_vars
    PROVE  DOMAIN deliveries \subseteq DOMAIN deliveries' /\ DeliveriesInv'
<1>1. CASE UNCHANGED deliveries
  BY <1>1 DEF PlanInv, DeliveriesInv
<1>2. CASE \E w \in Worker : WorkerCreates(w) /\ deliveries' # deliveries
  <2>1. PICK w \in Worker : WorkerCreates(w) /\ deliveries' # deliveries
    BY <1>2
  <2>2. wpc[w] = "creating" /\ deliveries' = Put(deliveries, wkey[w], "pending")
    BY <2>1 DEF WorkerCreates
  <2>3. wkey[w] \in Key
    BY <2>2 DEF PlanInv, HandsInv, GoodHand
  <2> QED BY <2>2, <2>3 DEF PlanInv, DeliveriesInv, Put
<1>3. CASE \E w \in Worker : WorkerSettles(w)
  <2>1. PICK w \in Worker : WorkerSettles(w)
    BY <1>3
  <2>2. PICK outcome \in {"sent", "failed"} : deliveries' = [deliveries EXCEPT ![wkey[w]] = outcome]
    BY <2>1 DEF WorkerSettles
  <2>3. DOMAIN deliveries' = DOMAIN deliveries
        /\ \A k \in DOMAIN deliveries : deliveries'[k] = deliveries[k] \/ deliveries'[k] = outcome
    BY <2>2
  <2> QED BY <2>3 DEF PlanInv, DeliveriesInv
<1> QED BY <1>1, <1>2, <1>3 DEF Next, vars, sendVars, Tick, Renew, WorkerReads, WorkerStep, WorkerChecks,
        WorkerRecords, WorkerPlans, WorkerLooks, WorkerSends, WorkerFails, Crash, EditPolicy, EditOverride, SwitchEndpoint

LEMMA RecordsRow ==
    ASSUME PlanInv, NEW w \in Worker, WorkerRecords(w)
    PROVE  row' \in Row /\ (row'.status = "healthy" => row'.cert \in Cert)
<1>1. wcheck[w] \in Check /\ (wcheck[w].status = "healthy" => wcheck[w].cert \in Cert /\ ~wcheck[w].kept) /\ row \in Row
  BY DEF PlanInv, HandsInv, GoodHand, WorldInv
<1> QED BY <1>1 DEF WorkerRecords, Row, Check

LEMMA WorldStep ==
    ASSUME PlanInv, [Next]_vars
    PROVE  WorldInv'
<1>1. time \in 0..MaxTime /\ served \in Cert /\ row \in Row /\ faults \in 0..MaxFaults
      /\ (row.status = "healthy" => row.cert \in Cert) /\ MaxTime \in Nat /\ MaxFaults \in Nat
  BY NotifyAssumption DEF PlanInv, WorldInv
<1>2. CASE Tick
  <2>1. time' \in 0..MaxTime
    BY <1>1, <1>2 DEF Tick
  <2> QED BY <1>1, <1>2, <2>1 DEF Tick, WorldInv
<1>3. CASE Renew
  BY <1>1, <1>3 DEF Renew, WorldInv
<1>4. CASE \E w \in Worker : WorkerRecords(w)
  BY <1>1, <1>4, RecordsRow DEF WorldInv, WorkerRecords, worldVars
<1>5. CASE Crash \/ \E w \in Worker : WorkerFails(w)
  <2>1. faults' \in 0..MaxFaults
    BY <1>1, <1>5 DEF Crash, WorkerFails
  <2> QED BY <1>1, <1>5, <2>1 DEF Crash, WorkerFails, WorldInv, worldVars
<1>6. CASE UNCHANGED <<worldVars, row, faults>>
  BY <1>1, <1>6 DEF WorldInv, worldVars
<1> QED BY <1>2, <1>3, <1>4, <1>5, <1>6 DEF Next, vars, WorkerReads, WorkerStep, WorkerChecks,
        WorkerPlans, WorkerLooks, WorkerCreates, WorkerSends, WorkerSettles, EditPolicy, EditOverride, SwitchEndpoint, worldVars

LEMMA ConfigStep ==
    ASSUME PlanInv, [Next]_vars
    PROVE  ConfigInv'
<1>1. WellFormed(policy) /\ on \subseteq Endpoint /\ (override # NoPolicy => WellFormed(override) /\ ~override.daily)
  BY DEF PlanInv, ConfigInv
<1>2. CASE EditPolicy
  <2>1. PICK p \in Policies : policy' = Applied(p, policy.daily)
    BY <1>2 DEF EditPolicy
  <2>2. WellFormed(policy')
    BY <1>1, <2>1, AppliedIsWellFormed DEF WellFormed
  <2>3. UNCHANGED <<override, on>>
    BY <1>2 DEF EditPolicy
  <2> HIDE DEF WellFormed
  <2>4. WellFormed(policy)'
    BY <2>2 DEF WellFormed
  <2>5. WellFormed(override)' <=> WellFormed(override)
    BY <2>3 DEF WellFormed
  <2> QED BY <1>1, <2>3, <2>4, <2>5 DEF ConfigInv
<1>3. CASE EditOverride
  <2>1. PICK p \in Policies : override' = NoPolicy \/ override' = Applied(p, FALSE)
    BY <1>3 DEF EditOverride
  <2>2. WellFormed(Applied(p, FALSE)) /\ ~Applied(p, FALSE).daily
    BY AppliedIsWellFormed DEF Applied
  <2>3. UNCHANGED <<policy, on>>
    BY <1>3 DEF EditOverride
  <2>4. WellFormed(policy)'
    BY <1>1, <2>3 DEF WellFormed
  <2>5. override' # NoPolicy => WellFormed(override)' /\ ~override'.daily
    BY <2>1, <2>2 DEF WellFormed
  <2> QED BY <1>1, <2>3, <2>4, <2>5 DEF ConfigInv
<1>4. CASE UNCHANGED <<policy, override>> /\ on' \subseteq Endpoint
  BY <1>1, <1>4 DEF ConfigInv, WellFormed
<1>5. CASE \E e \in Switched : SwitchEndpoint(e)
  <2>1. UNCHANGED <<policy, override>> /\ on' \subseteq Endpoint
    BY <1>1, <1>5, NotifyAssumption DEF SwitchEndpoint
  <2> QED BY <1>1, <2>1 DEF ConfigInv, WellFormed
<1> QED BY <1>1, <1>2, <1>3, <1>4, <1>5 DEF Next, vars, Tick, Renew, WorkerReads, WorkerStep, WorkerChecks, WorkerFails, Crash,
        WorkerRecords, WorkerPlans, WorkerLooks, WorkerCreates, WorkerSends, WorkerSettles, configVars

LEMMA CrashHands == ASSUME PlanInv, Crash PROVE HandsInv'
<1>1. /\ "idle" \in PC /\ NoRow \in Row /\ NoCheck \in Check /\ <<>> \in Seq(Key) /\ NoKey \in Key \cup {NoKey}
      /\ GoodHand("idle", NoRow, NoCheck, <<>>, NoKey)
  BY EmptyHand DEF GoodHand
<1> QED BY <1>1 DEF Crash, HandsInv

\* Hands stay good, and while nothing fails every key in them stays there or has its row.
LEMMA HandsStep ==
    ASSUME NInv, PlanInv, [Next]_vars
    PROVE  /\ HandsInv'
           /\ faults' = faults => \A w \in Worker : InHand(w) \subseteq InHand(w)' \cup DOMAIN deliveries'
<1>1. CASE \E w \in Worker : WorkerReads(w) \/ WorkerStep(w) \/ WorkerFails(w)
  BY <1>1, WorkerKeepsHands, KeepsHands, DeliveriesGrow DEF PlanInv
<1>2. CASE Crash
  <2>1. faults' # faults
    BY <1>2 DEF Crash, PlanInv, WorldInv
  <2> QED BY <1>2, <2>1, CrashHands
<1>3. CASE UNCHANGED workerVars
  <2>1. HandsInv'
    BY <1>3 DEF workerVars, PlanInv, HandsInv
  <2>2. \A w \in Worker : InHand(w)' = InHand(w)
    BY <1>3 DEF workerVars, InHand
  <2> QED BY <2>1, <2>2
<1> QED BY <1>1, <1>2, <1>3 DEF Next, vars, Tick, Renew, EditPolicy, EditOverride, SwitchEndpoint

LEMMA NextPlanInv == NInv /\ PlanInv /\ [Next]_vars => PlanInv'
  BY WorldStep, ConfigStep, DeliveriesGrow, HandsStep DEF PlanInv

\* The invariant of what workers know (notify/service.go): rows, policies and deliveries are
\* typed, and a worker has keys only from its plan to its last delivery.
THEOREM AlwaysPlanInv == Spec => []PlanInv
<1> QED BY InitPlanInv, NextPlanInv, AlwaysNInv, PTL DEF Spec

\* Types: a worker has keys exactly from its plan to its last delivery, and every threshold
\* of a policy is a natural number whatever a request submits.
THEOREM AlwaysTyped == Spec => []TypeOK
<1>1. ASSUME NInv, PlanInv PROVE TypeOK
  <2>1. time \in 0..MaxTime /\ served \in Cert /\ row \in Row /\ faults \in 0..MaxFaults
    BY <1>1 DEF PlanInv, WorldInv
  <2>2. /\ policy.thresholds \subseteq Nat /\ policy.endpoints \subseteq Endpoint /\ policy.daily \in BOOLEAN
        /\ override # NoPolicy => override.thresholds \subseteq Nat /\ override.endpoints \subseteq Endpoint /\ ~override.daily
        /\ on \subseteq Endpoint
    BY <1>1 DEF PlanInv, ConfigInv, WellFormed
  <2>3. /\ DOMAIN deliveries \subseteq Key /\ \A k \in DOMAIN deliveries : deliveries[k] \in {"pending", "sent", "failed"}
        /\ DOMAIN calls \subseteq DOMAIN deliveries /\ accepted \subseteq DOMAIN calls
    BY <1>1 DEF PlanInv, DeliveriesInv, NInv, CallsInv
  <2>4. ASSUME NEW w \in Worker
        PROVE  /\ wpc[w] \in {"idle", "checking", "recording", "notifying", "looking", "creating", "sending", "settling", "failing"}
               /\ wprev[w] \in Row /\ wcheck[w] \in Check
               /\ ToSet(wtodo[w]) \subseteq Key /\ (wpc[w] = "looking" => wtodo[w] # <<>>)
               /\ wkey[w] # NoKey <=> wpc[w] \in {"creating", "sending", "settling", "failing"}
               /\ wkey[w] # NoKey => wkey[w] \in Key
    <3>1. GoodHand(wpc[w], wprev[w], wcheck[w], wtodo[w], wkey[w])
      BY <1>1 DEF PlanInv, HandsInv
    <3>2. ToSet(wtodo[w]) \subseteq Key
      BY <3>1, LenProperties DEF GoodHand, ToSet
    <3> QED BY <3>1, <3>2 DEF GoodHand, PC, Holding
  <2> QED BY <2>1, <2>2, <2>3, <2>4 DEF TypeOK
<1> QED BY <1>1, AlwaysPlanInv, AlwaysNInv, PTL

\* While the database answers and the process lives, a key leaves a worker's hands only once
\* its row is there, and a row is never removed: one failed send keeps no other notice back.
THEOREM NoticesStayAccounted == Spec => NoticesAccounted
<1>1. ASSUME NInv, PlanInv, [Next]_vars
      PROVE  [faults' = faults => \A w \in Worker : InHand(w) \subseteq InHand(w)' \cup DOMAIN deliveries']_vars
  BY <1>1, HandsStep
<1> QED BY <1>1, AlwaysPlanInv, AlwaysNInv, PTL DEF Spec, NoticesAccounted

-----------------------------------------------------------------------------
(* One worker, healthy checks and nothing edited: what is owed is told *)

OneWorker == \E w : Worker = {w}

ThresholdKey(e, t, c) == [endpoint |-> e, type |-> "threshold", threshold |-> t, cert |-> c, day |-> NoDay]

\* The thresholds of the row that have to be told.
Passed == {t \in InForce.thresholds : row.days <= t}
Owed ==
    {t \in Passed : \/ <<row.cert, t>> \in seen.above
                    \/ row.cert = seen.first /\ \A u \in Passed : t <= u}

Before(c, d) == c = d \/ ExpiresAt[c] < ExpiresAt[d]

\* Certificates come in the order in which they run out, and the days of one only go down.
SeenInv ==
    /\ row.cert = NoCert => row = NoRow /\ seen.first = NoCert /\ seen.above = {}
    /\ row.cert # NoCert =>
        /\ Before(row.cert, served) /\ DaysLeft(row.cert, time) <= row.days
        /\ seen.first \in Cert /\ Before(seen.first, row.cert)
    /\ \A p \in seen.above : p[1] \in Cert /\ Before(p[1], row.cert)
    /\ \A t \in InForce.thresholds : row.cert # NoCert /\ row.days > t => <<row.cert, t>> \in seen.above

\* What the worker read is still the row, and what it found comes after that.
FoundInv(w) ==
    /\ wpc[w] \in {"checking", "recording"} => wprev[w] = row
    /\ wpc[w] = "recording" =>
        /\ wcheck[w].status = "healthy" /\ Before(wcheck[w].cert, served)
        /\ DaysLeft(wcheck[w].cert, time) <= wcheck[w].days
        /\ row.cert # NoCert => Before(row.cert, wcheck[w].cert)
        /\ wcheck[w].cert = row.cert => wcheck[w].days <= row.days
    /\ wpc[w] \notin {"idle", "checking", "recording"} => row.status = "healthy"

\* What is owed is told, in hand or, before the plan is made, about to be planned.
OwedInv(w) ==
    row.cert # NoCert => \A e \in InForce.endpoints \cap on, t \in Owed :
        \/ ThresholdKey(e, t, row.cert) \in DOMAIN deliveries
        \/ wpc[w] = "notifying" /\ t \in Crossings(wprev[w], row.days, InForce.thresholds)
        \/ ThresholdKey(e, t, row.cert) \in InHand(w)

ToldInv == seen # Spoiled /\ ~InForce.daily => SeenInv /\ \A w \in Worker : FoundInv(w) /\ OwedInv(w)

LEMMA BeforeIsTransitive ==
    ASSUME NEW c \in Cert, NEW d \in Cert, NEW b \in Cert, Before(b, c), Before(c, d)
    PROVE  Before(b, d)
<1>1. ExpiresAt[b] \in Int /\ ExpiresAt[c] \in Int /\ ExpiresAt[d] \in Int
  BY NotifyAssumption
<1> QED BY <1>1 DEF Before

LEMMA BeforeBoth ==
    ASSUME NEW c \in Cert, NEW d \in Cert, Before(c, d), Before(d, c)
    PROVE  c = d
<1>1. ExpiresAt[c] \in Int /\ ExpiresAt[d] \in Int
  BY NotifyAssumption
<1> QED BY <1>1 DEF Before

LEMMA DaysGoDown ==
    ASSUME NEW c \in Cert, NEW now \in Nat
    PROVE  DaysLeft(c, now) \in Int /\ DaysLeft(c, now + 1) \in Int /\ DaysLeft(c, now + 1) <= DaysLeft(c, now)
<1>1. ExpiresAt[c] \in Int
  BY NotifyAssumption
<1> QED BY <1>1 DEF DaysLeft

\* Without a fault or an edit the policy in force and the endpoints stay.
LEMMA UnspoiledStep ==
    ASSUME [Next]_vars, seen' # Spoiled
    PROVE  seen # Spoiled /\ UNCHANGED configVars /\ InForce' = InForce
           /\ (UNCHANGED vars \/ Tick \/ Renew \/ \E w \in Worker : WorkerReads(w) \/ WorkerStep(w))
<1>1. UNCHANGED vars \/ Tick \/ Renew \/ \E w \in Worker : WorkerReads(w) \/ WorkerStep(w)
  BY DEF Next, WorkerFails, Crash, EditPolicy, EditOverride, SwitchEndpoint
<1>2. UNCHANGED configVars
  BY <1>1 DEF vars, Tick, Renew, WorkerReads, WorkerStep, WorkerChecks, WorkerRecords, WorkerPlans, WorkerLooks,
        WorkerCreates, WorkerSends, WorkerSettles
<1>3. seen # Spoiled
  BY <1>1 DEF vars, Tick, Renew, WorkerReads, WorkerStep, WorkerChecks, WorkerRecords, WorkerPlans, WorkerLooks,
        WorkerCreates, WorkerSends, WorkerSettles
<1>4. InForce' = InForce
  BY <1>2 DEF InForce, configVars
<1> QED BY <1>1, <1>2, <1>3, <1>4

\* What is recorded: the certificate and the days of a healthy check.
LEMMA RecordsFound ==
    ASSUME PlanInv, SeenInv, NEW w \in Worker, FoundInv(w), WorkerRecords(w), seen' # Spoiled, seen # Spoiled
    PROVE  \E c \in Cert, d \in Int :
              /\ row' = [status |-> "healthy", cert |-> c, days |-> d]
              /\ wprev[w] = row /\ wprev' = wprev /\ wpc' = [wpc EXCEPT ![w] = "notifying"] /\ wpc[w] = "recording"
              /\ Before(c, served) /\ DaysLeft(c, time) <= d
              /\ row.cert # NoCert => Before(row.cert, c)
              /\ c = row.cert => d <= row.days
              /\ seen'.first = IF seen.first = NoCert THEN c ELSE seen.first
              /\ seen'.above = seen.above \cup {<<c, t>> : t \in {u \in InForce.thresholds : d > u}}
<1> DEFINE found == wcheck[w]
<1>1. wpc[w] = "recording" /\ found \in Check /\ found.status = "healthy" /\ found.cert \in Cert /\ ~found.kept
      /\ found.cert # NoCert /\ found.days \in Int
  BY NotifyAssumption DEF PlanInv, HandsInv, GoodHand, FoundInv, WorkerRecords, Check
<1>2. row' = [status |-> "healthy", cert |-> found.cert, days |-> found.days]
  BY <1>1 DEF WorkerRecords
<1>3. /\ seen'.first = IF seen.first = NoCert THEN row'.cert ELSE seen.first
      /\ seen'.above = seen.above \cup {<<row'.cert, t>> : t \in {u \in InForce.thresholds : row'.days > u}}
  BY DEF WorkerRecords
<1>4. /\ wprev[w] = row /\ wprev' = wprev /\ wpc' = [wpc EXCEPT ![w] = "notifying"]
      /\ Before(found.cert, served) /\ DaysLeft(found.cert, time) <= found.days
      /\ row.cert # NoCert => Before(row.cert, found.cert)
      /\ found.cert = row.cert => found.days <= row.days
  BY <1>1 DEF FoundInv, WorkerRecords
<1> HIDE DEF found
<1>5. row'.cert = found.cert /\ row'.days = found.days
  BY <1>2
<1> QED BY <1>1, <1>2, <1>3, <1>4, <1>5

LEMMA SeenStep ==
    ASSUME PlanInv, SeenInv, [Next]_vars, seen' # Spoiled, \A w \in Worker : FoundInv(w)
    PROVE  SeenInv'
<1>1. /\ seen # Spoiled /\ InForce' = InForce
      /\ (UNCHANGED vars \/ Tick \/ Renew \/ \E w \in Worker : WorkerReads(w) \/ WorkerStep(w))
  BY UnspoiledStep
<1>2. time \in Nat /\ served \in Cert /\ row \in Row /\ row.cert \in Cert \cup {NoCert} /\ row.days \in Int /\ NoCert \notin Cert
  BY NotifyAssumption DEF PlanInv, WorldInv, Row
<1>3. CASE Tick
  <2>1. row.cert # NoCert => DaysLeft(row.cert, time') <= row.days
    BY <1>2, <1>3, DaysGoDown DEF Tick, SeenInv
  <2> QED BY <1>1, <1>3, <2>1 DEF Tick, SeenInv, Before
<1>4. CASE Renew
  <2>1. served' \in Cert /\ Before(served, served')
    BY <1>4 DEF Renew, Before
  <2>2. row.cert # NoCert => Before(row.cert, served')
    BY <1>2, <2>1, BeforeIsTransitive DEF SeenInv
  <2> HIDE DEF Before
  <2>3. UNCHANGED <<time, row, seen>>
    BY <1>4 DEF Renew
  <2>4. \A c, d : Before(c, d)' <=> Before(c, d)
    BY DEF Before
  <2> QED BY <1>1, <2>2, <2>3 DEF SeenInv, Before
<1>5. CASE \E w \in Worker : WorkerRecords(w)
  <2>1. PICK w \in Worker : WorkerRecords(w)
    BY <1>5
  <2>2. PICK c \in Cert, d \in Int :
              /\ row' = [status |-> "healthy", cert |-> c, days |-> d]
              /\ Before(c, served) /\ DaysLeft(c, time) <= d
              /\ row.cert # NoCert => Before(row.cert, c)
              /\ seen'.first = IF seen.first = NoCert THEN c ELSE seen.first
              /\ seen'.above = seen.above \cup {<<c, t>> : t \in {u \in InForce.thresholds : d > u}}
    BY <1>1, <2>1, RecordsFound
  <2>3. row'.cert = c /\ row'.days = d /\ c # NoCert /\ UNCHANGED worldVars
    BY <1>2, <2>1, <2>2 DEF WorkerRecords
  <2>4. seen'.first \in Cert /\ Before(seen'.first, c)
    <3>1. CASE row.cert = NoCert
      BY <2>2, <3>1 DEF SeenInv, Before
    <3>2. CASE row.cert # NoCert
      <4>1. seen.first \in Cert /\ Before(seen.first, row.cert) /\ row.cert \in Cert /\ seen'.first = seen.first
        BY <1>2, <2>2, <3>2 DEF SeenInv
      <4> QED BY <2>2, <3>2, <4>1, BeforeIsTransitive
    <3> QED BY <3>1, <3>2
  <2>5. ASSUME NEW p \in seen'.above PROVE p[1] \in Cert /\ Before(p[1], c)
    <3>1. CASE p \in seen.above
      <4>1. row.cert # NoCert /\ row.cert \in Cert /\ p[1] \in Cert /\ Before(p[1], row.cert)
        BY <1>2, <3>1 DEF SeenInv
      <4> QED BY <2>2, <4>1, BeforeIsTransitive
    <3>2. CASE p \notin seen.above
      <4>1. p[1] = c
        BY <2>2, <2>5, <3>2
      <4> QED BY <4>1 DEF Before
    <3> QED BY <3>1, <3>2
  <2>6. \A t \in InForce.thresholds : d > t => <<c, t>> \in seen'.above
    BY <2>2
  <2>7. Before(c, served') /\ DaysLeft(c, time') <= d
    BY <2>2, <2>3 DEF worldVars
  <2>8. \A x, y : Before(x, y)' <=> Before(x, y)
    BY DEF Before
  <2> HIDE DEF Before
  <2> QED BY <1>1, <2>3, <2>4, <2>5, <2>6, <2>7 DEF SeenInv, Before, DaysLeft
<1>6. CASE UNCHANGED <<worldVars, row, seen>>
  BY <1>1, <1>6 DEF SeenInv, Before, DaysLeft, worldVars
<1>7. CASE \E w \in Worker : WorkerChecks(w)
  BY <1>6, <1>7 DEF WorkerChecks
<1> QED BY <1>1, <1>3, <1>4, <1>5, <1>6, <1>7 DEF vars, WorkerReads, WorkerStep, WorkerPlans, WorkerLooks, WorkerCreates,
        WorkerSends, WorkerSettles

\* Where a worker at its notices goes: on with them, or to its rest.
LEMMA NoticesMove ==
    ASSUME NInv, PlanInv, NEW w \in Worker,
           WorkerPlans(w) \/ WorkerLooks(w) \/ WorkerCreates(w) \/ WorkerSends(w) \/ WorkerSettles(w)
    PROVE  /\ wpc[w] \notin {"idle", "checking", "recording"} /\ wpc'[w] \notin {"checking", "recording", "notifying"}
           /\ UNCHANGED <<worldVars, row, seen, faults>>
<1>1. wpc[w] \notin {"idle", "checking", "recording"} /\ UNCHANGED <<worldVars, row, seen, faults>>
  BY DEF WorkerPlans, WorkerLooks, WorkerCreates, WorkerSends, WorkerSettles
<1>2. \E p \in {"idle", "looking", "creating", "sending", "settling", "failing"} : \E prev, check, todo, key :
         Keeps(w, p, prev, check, todo, key)
  BY PlansKeeps, LooksKeeps, DeliversKeeps
<1>3. wpc'[w] \in {"idle", "looking", "creating", "sending", "settling", "failing"}
  BY <1>2, MovesWell DEF Keeps, PlanInv
<1> QED BY <1>1, <1>3

LEMMA FoundStep ==
    ASSUME NInv, PlanInv, SeenInv, [Next]_vars, seen' # Spoiled, NEW w, Worker = {w}, FoundInv(w)
    PROVE  FoundInv(w)'
<1>1. /\ seen # Spoiled /\ w \in Worker
      /\ (UNCHANGED vars \/ Tick \/ Renew \/ WorkerReads(w) \/ WorkerStep(w))
  BY UnspoiledStep
<1>2. /\ time \in Nat /\ served \in Cert /\ NoCert \notin Cert /\ row.cert \in Cert \cup {NoCert}
      /\ wcheck[w].status = "healthy" => wcheck[w].cert \in Cert
  BY <1>1, NotifyAssumption DEF PlanInv, WorldInv, HandsInv, GoodHand, Row
<1>3. CASE Tick
  <2>1. wpc[w] = "recording" => DaysLeft(wcheck[w].cert, time') <= wcheck[w].days
    <3>1. wpc[w] = "recording" => wcheck[w].cert \in Cert /\ wcheck[w].days \in Int /\ DaysLeft(wcheck[w].cert, time) <= wcheck[w].days
      BY <1>1, <1>2 DEF FoundInv, PlanInv, HandsInv, Check
    <3> QED BY <1>2, <1>3, <3>1, DaysGoDown DEF Tick
  <2> QED BY <1>3, <2>1 DEF Tick, FoundInv, Before, workerVars
<1>4. CASE Renew
  <2>1. served' \in Cert /\ Before(served, served') /\ UNCHANGED <<time, row, workerVars>>
    BY <1>4 DEF Renew, Before
  <2>2. wpc[w] = "recording" => Before(wcheck[w].cert, served')
    BY <1>2, <2>1, BeforeIsTransitive DEF FoundInv
  <2> QED BY <2>1, <2>2 DEF FoundInv, workerVars, Before
<1>5. CASE WorkerReads(w)
  <2>1. wpc'[w] = "checking" /\ wprev'[w] = row
    BY <1>1, <1>5, ReadsKeeps, MovesWell DEF Keeps, PlanInv
  <2> QED BY <1>5, <2>1 DEF WorkerReads, FoundInv
<1>6. CASE WorkerChecks(w)
  <2> DEFINE good == [status |-> "healthy", cert |-> served, kept |-> FALSE, days |-> DaysLeft(served, time)]
  <2>1. Keeps(w, "recording", wprev[w], good, <<>>, NoKey)
    BY <1>1, <1>6, ChecksKeeps
  <2>2. wpc'[w] = "recording" /\ wprev'[w] = wprev[w] /\ wcheck'[w] = good
    BY <1>1, <2>1, MovesWell DEF Keeps, PlanInv
  <2>3. wprev[w] = row /\ UNCHANGED <<worldVars, row>>
    BY <1>1, <1>6 DEF WorkerChecks, FoundInv
  <2>4. good.status = "healthy" /\ good.cert = served /\ good.days = DaysLeft(served, time)
    OBVIOUS
  <2>5. Before(served, served) /\ DaysLeft(served, time) \in Int
    BY <1>2, DaysGoDown DEF Before
  <2>6. /\ row.cert # NoCert => Before(row.cert, served)
        /\ served = row.cert => DaysLeft(served, time) <= row.days
    BY <1>2 DEF SeenInv
  <2>7. UNCHANGED <<time, served, row>>
    BY <2>3 DEF worldVars
  <2> HIDE DEF good
  <2>8. /\ wcheck'[w].status = "healthy" /\ wcheck'[w].cert = served /\ wcheck'[w].days = DaysLeft(served, time)
    BY <2>2, <2>4
  <2>9. DaysLeft(served, time) <= DaysLeft(served, time)
    BY <2>5
  <2> QED BY <2>2, <2>3, <2>5, <2>6, <2>7, <2>8, <2>9 DEF FoundInv, Before, DaysLeft
<1>7. CASE WorkerRecords(w)
  <2>1. \E c \in Cert, d \in Int : row' = [status |-> "healthy", cert |-> c, days |-> d]
    BY <1>1, <1>7, RecordsFound
  <2>2. wpc'[w] = "notifying"
    BY <1>1, <1>7, RecordsKeeps, MovesWell DEF Keeps, PlanInv
  <2> QED BY <2>1, <2>2 DEF FoundInv
<1>8. CASE WorkerPlans(w) \/ WorkerLooks(w) \/ WorkerCreates(w) \/ WorkerSends(w) \/ WorkerSettles(w)
  <2>1. row.status = "healthy" /\ UNCHANGED row /\ wpc'[w] \notin {"checking", "recording"}
    BY <1>1, <1>8, NoticesMove DEF FoundInv
  <2> QED BY <2>1 DEF FoundInv
<1>9. CASE UNCHANGED vars
  BY <1>9 DEF vars, worldVars, workerVars, FoundInv, Before, DaysLeft
<1> QED BY <1>1, <1>3, <1>4, <1>5, <1>6, <1>7, <1>8, <1>9 DEF WorkerStep

\* What was told or in hand is told or in hand after a step that leaves the row as it is.
LEMMA OwedStays ==
    ASSUME NInv, PlanInv, [Next]_vars, NEW w \in Worker, OwedInv(w), InForce' = InForce,
           UNCHANGED <<row, on, seen, faults>>, wpc[w] # "notifying" \/ UNCHANGED workerVars
    PROVE  OwedInv(w)'
<1>1. DOMAIN deliveries \subseteq DOMAIN deliveries' /\ InHand(w) \subseteq InHand(w)' \cup DOMAIN deliveries'
  BY DeliveriesGrow, HandsStep
<1>2. Owed' = Owed
  BY DEF Owed, Passed
<1>3. ASSUME row.cert # NoCert, NEW e \in InForce.endpoints \cap on, NEW t \in Owed
      PROVE  \/ ThresholdKey(e, t, row.cert) \in DOMAIN deliveries'
             \/ wpc'[w] = "notifying" /\ t \in Crossings(wprev'[w], row.days, InForce.thresholds)
             \/ ThresholdKey(e, t, row.cert) \in InHand(w)'
  <2>1. \/ ThresholdKey(e, t, row.cert) \in DOMAIN deliveries
        \/ wpc[w] = "notifying" /\ t \in Crossings(wprev[w], row.days, InForce.thresholds)
        \/ ThresholdKey(e, t, row.cert) \in InHand(w)
    BY <1>3 DEF OwedInv
  <2>2. CASE wpc[w] = "notifying" /\ t \in Crossings(wprev[w], row.days, InForce.thresholds)
    BY <2>2 DEF workerVars
  <2> QED BY <1>1, <2>1, <2>2
<1>4. \A e, t, c : ThresholdKey(e, t, c)' = ThresholdKey(e, t, c)
  BY DEF ThresholdKey
<1>5. Crossings(wprev[w], row.days, InForce.thresholds)' = Crossings(wprev'[w], row.days, InForce.thresholds)
  BY DEF Crossings
<1>6. /\ UNCHANGED <<row, on>> /\ InForce' = InForce
  OBVIOUS
<1> QED BY <1>2, <1>3, <1>5, <1>6 DEF OwedInv, ThresholdKey

\* What a new row owes is owed before, and told, or crossed from the row before.
LEMMA OwedRecorded ==
    ASSUME NInv, PlanInv, SeenInv, NEW w, Worker = {w}, FoundInv(w), OwedInv(w), InForce' = InForce, on' = on,
           WorkerRecords(w), seen' # Spoiled, seen # Spoiled
    PROVE  OwedInv(w)'
<1>1. PICK c \in Cert, d \in Int :
              /\ row' = [status |-> "healthy", cert |-> c, days |-> d]
              /\ wprev[w] = row /\ wprev' = wprev /\ wpc' = [wpc EXCEPT ![w] = "notifying"] /\ wpc[w] = "recording"
              /\ row.cert # NoCert => Before(row.cert, c)
              /\ c = row.cert => d <= row.days
              /\ seen'.first = IF seen.first = NoCert THEN c ELSE seen.first
              /\ seen'.above = seen.above \cup {<<c, t>> : t \in {u \in InForce.thresholds : d > u}}
  BY RecordsFound
<1>2. /\ row'.cert = c /\ row'.days = d /\ c # NoCert /\ row.cert \in Cert \cup {NoCert} /\ row.days \in Int
      /\ InForce.thresholds \in SUBSET Nat /\ UNCHANGED deliveries /\ wpc'[w] = "notifying" /\ wprev'[w] = row
  <2>1. InForce.thresholds \in SUBSET Nat
    BY InForceIs DEF PlanInv
  <2>2. UNCHANGED deliveries
    BY DEF WorkerRecords, sendVars
  <2>3. wpc'[w] = "notifying"
    BY <1>1 DEF PlanInv, HandsInv
  <2> QED BY <1>1, <2>1, <2>2, <2>3, NotifyAssumption DEF PlanInv, WorldInv, Row
<1>3. /\ Passed' = {t \in InForce.thresholds : d <= t}
      /\ Owed' = {t \in Passed' : <<c, t>> \in seen'.above \/ (c = seen'.first /\ \A u \in Passed' : t <= u)}
  BY <1>2 DEF Passed, Owed
<1>4. ASSUME NEW e \in InForce.endpoints \cap on, NEW t \in Owed, row.cert # NoCert
      PROVE  ThresholdKey(e, t, row.cert) \in DOMAIN deliveries
  <2>1. InHand(w) = {}
    <3>1. Held(wtodo[w], wkey[w]) = {}
      BY <1>1, NothingHeld DEF PlanInv
    <3> QED BY <3>1 DEF Held, InHand
  <2> QED BY <1>1, <1>4, <2>1 DEF OwedInv
<1>5. ASSUME NEW t \in Owed'
      PROVE  t \in Crossings(row, d, InForce.thresholds) \/ (row.cert # NoCert /\ row.cert = c /\ t \in Owed)
  <2>1. t \in InForce.thresholds /\ t \in Nat /\ d <= t
    BY <1>2, <1>3, <1>5
  <2>2. <<c, t>> \in seen'.above => <<c, t>> \in seen.above
    <3>1. ~ (d > t)
      BY <2>1
    <3> QED BY <1>1, <3>1
  <2>3. <<c, t>> \in seen.above \/ (c = seen'.first /\ \A u \in InForce.thresholds : d <= u => t <= u)
    BY <1>3, <1>5, <2>2
  <2>4. CASE row.cert = NoCert
    BY <2>1, <2>3, <2>4 DEF SeenInv, Crossings
  <2>5. CASE row.cert # NoCert
    <3>1. seen.first \in Cert /\ Before(seen.first, row.cert) /\ row.cert \in Cert /\ seen'.first = seen.first
      BY <1>1, <1>2, <2>5, NotifyAssumption DEF SeenInv
    <3>2. <<c, t>> \in seen.above => Before(c, row.cert)
      BY DEF SeenInv
    <3>3. row.cert = c /\ d <= row.days
      BY <1>1, <2>3, <2>5, <3>1, <3>2, BeforeBoth
    <3>4. CASE row.days > t
      BY <2>1, <2>5, <3>4 DEF Crossings
    <3>5. CASE ~ (row.days > t)
      <4>1. t \in Passed
        BY <1>2, <2>1, <3>5 DEF Passed
      <4>2. \A u \in Passed : u \in InForce.thresholds /\ d <= u
        BY <1>2, <3>3 DEF Passed
      <4> QED BY <2>3, <2>5, <3>1, <3>3, <4>1, <4>2 DEF Owed
    <3> QED BY <3>4, <3>5
  <2> QED BY <2>4, <2>5
<1>6. ASSUME NEW e \in InForce.endpoints \cap on, NEW t \in Owed'
      PROVE  ThresholdKey(e, t, c) \in DOMAIN deliveries \/ t \in Crossings(row, d, InForce.thresholds)
  BY <1>4, <1>5
<1>7. Crossings(wprev[w], row.days, InForce.thresholds)' = Crossings(row, d, InForce.thresholds)
  BY <1>2 DEF Crossings
<1> QED BY <1>2, <1>6, <1>7 DEF OwedInv, ThresholdKey

\* The plan holds every threshold that is crossed.
LEMMA OwedPlanned ==
    ASSUME NInv, PlanInv, [Next]_vars, NEW w \in Worker, FoundInv(w), OwedInv(w), InForce' = InForce, on' = on,
           WorkerPlans(w), ~InForce.daily
    PROVE  OwedInv(w)'
<1> DEFINE list == Keys(Events(wprev[w], row, InForce, time), InForce.endpoints \cap on, row.cert)
<1>1. UNCHANGED <<row, seen, faults>> /\ wpc[w] = "notifying" /\ wprev[w] \in Row
  BY DEF WorkerPlans, PlanInv, HandsInv
<1>2. row.status = "healthy"
  BY <1>1 DEF FoundInv
<1>3. \A t \in Crossings(wprev[w], row.days, InForce.thresholds), e \in InForce.endpoints \cap on :
          KeyOf(e, ThresholdEvent(t, NoDay), row.cert) \in ToSet(list)
  BY <1>1, <1>2, PlanIs DEF PlanInv
<1>4. wtodo'[w] = list
  <2>1. PICK p, prev, check, todo : Keeps(w, p, prev, check, todo, NoKey) /\ todo = list
    BY <1>2, PlansKeeps
  <2> HIDE DEF list
  <2> QED BY <2>1, MovesWell DEF Keeps, PlanInv
<1> HIDE DEF list
<1>5. ToSet(list) \subseteq InHand(w)'
  BY <1>4 DEF InHand
<1>6. DOMAIN deliveries \subseteq DOMAIN deliveries' /\ InHand(w) \subseteq InHand(w)' \cup DOMAIN deliveries'
  BY <1>1, DeliveriesGrow, HandsStep
<1>7. Owed' = Owed
  BY <1>1 DEF Owed, Passed
<1>8. \A e, t, c : KeyOf(e, ThresholdEvent(t, NoDay), c) = ThresholdKey(e, t, c)
  BY DEF KeyOf, ThresholdEvent, ThresholdKey
<1>9. ASSUME row.cert # NoCert, NEW e \in InForce.endpoints \cap on, NEW t \in Owed
      PROVE  ThresholdKey(e, t, row.cert) \in DOMAIN deliveries' \/ ThresholdKey(e, t, row.cert) \in InHand(w)'
  BY <1>3, <1>5, <1>6, <1>8, <1>9 DEF OwedInv
<1> QED BY <1>1, <1>7, <1>9 DEF OwedInv, ThresholdKey

LEMMA OwedStep ==
    ASSUME NInv, PlanInv, SeenInv, [Next]_vars, seen' # Spoiled, NEW w, Worker = {w}, FoundInv(w), OwedInv(w), ~InForce.daily
    PROVE  OwedInv(w)'
<1>1. /\ seen # Spoiled /\ UNCHANGED configVars /\ InForce' = InForce /\ on' = on
      /\ (UNCHANGED vars \/ Tick \/ Renew \/ WorkerReads(w) \/ WorkerStep(w))
  BY UnspoiledStep DEF configVars
<1>2. w \in Worker
  OBVIOUS
<1>3. CASE UNCHANGED vars \/ Tick \/ Renew
  BY <1>1, <1>2, <1>3, OwedStays DEF vars, Tick, Renew
<1>4. CASE WorkerReads(w)
  BY <1>1, <1>2, <1>4, OwedStays DEF WorkerReads
<1>5. CASE WorkerChecks(w)
  <2>1. seen' = seen
    BY <1>1, <1>2, <1>5, ChecksKeeps
  <2> QED BY <1>1, <1>2, <1>5, <2>1, OwedStays DEF WorkerChecks
<1>6. CASE WorkerRecords(w)
  BY <1>1, <1>6, OwedRecorded
<1>7. CASE WorkerPlans(w)
  BY <1>1, <1>2, <1>7, OwedPlanned
<1>8. CASE WorkerLooks(w) \/ WorkerCreates(w) \/ WorkerSends(w) \/ WorkerSettles(w)
  <2>1. wpc[w] # "notifying"
    BY <1>8 DEF WorkerLooks, WorkerCreates, WorkerSends, WorkerSettles
  <2>2. UNCHANGED <<row, seen, faults>>
    BY <1>2, <1>8, NoticesMove
  <2> QED BY <1>1, <1>2, <2>1, <2>2, OwedStays
<1> QED BY <1>1, <1>3, <1>4, <1>5, <1>6, <1>7, <1>8 DEF WorkerStep

LEMMA InitToldInv == Init => ToldInv
<1> SUFFICES ASSUME Init PROVE ToldInv
  OBVIOUS
<1>1. row = NoRow /\ row.cert = NoCert /\ seen.first = NoCert /\ seen.above = {}
  BY DEF Init, NoRow
<1>2. SeenInv
  BY <1>1 DEF SeenInv
<1>3. \A w \in Worker : FoundInv(w) /\ OwedInv(w)
  BY <1>1 DEF Init, FoundInv, OwedInv
<1> QED BY <1>2, <1>3 DEF ToldInv

LEMMA NextToldInv ==
    ASSUME OneWorker, NInv, PlanInv, ToldInv, [Next]_vars
    PROVE  ToldInv'
<1> SUFFICES ASSUME seen' # Spoiled, ~InForce'.daily
             PROVE  SeenInv' /\ \A w \in Worker : FoundInv(w)' /\ OwedInv(w)'
  BY DEF ToldInv
<1>1. PICK w : Worker = {w}
  BY DEF OneWorker
<1>2. seen # Spoiled /\ ~InForce.daily
  BY UnspoiledStep
<1>3. SeenInv /\ FoundInv(w) /\ OwedInv(w)
  BY <1>1, <1>2 DEF ToldInv
<1>4. SeenInv'
  BY <1>1, <1>3, SeenStep
<1>5. FoundInv(w)' /\ OwedInv(w)'
  BY <1>1, <1>2, <1>3, FoundStep, OwedStep
<1> QED BY <1>1, <1>4, <1>5

\* With one worker at the domain, every check healthy and nothing edited, every threshold a
\* certificate comes down to is told to every endpoint, and of the first certificate the
\* nearest one (computeThresholdCrossings).
THEOREM CrossingsAlwaysTold == OneWorker => (Spec => []CrossingsTold)
<1>1. ASSUME NEW w, Worker = {w}, PlanInv, ToldInv PROVE CrossingsTold
  <2> SUFFICES ASSUME seen # Spoiled, ~InForce.daily, row.cert # NoCert, wpc[w] \in {"idle", "checking", "recording"},
                      NEW e \in InForce.endpoints \cap on
               PROVE  /\ \A t \in Passed : <<row.cert, t>> \in seen.above => Told(e, t, row.cert)
                      /\ row.cert = seen.first => \A t \in {t \in Passed : \A u \in Passed : t <= u} : Told(e, t, row.cert)
    BY <1>1 DEF CrossingsTold, Passed
  <2>1. InHand(w) = {}
    <3>1. Held(wtodo[w], wkey[w]) = {}
      BY <1>1, NothingHeld DEF PlanInv
    <3> QED BY <3>1 DEF Held, InHand
  <2>2. \A t \in Owed : ThresholdKey(e, t, row.cert) \in DOMAIN deliveries
    BY <1>1, <2>1 DEF ToldInv, OwedInv
  <2> QED BY <2>2 DEF Owed, Told, ThresholdKey
<1>2. OneWorker /\ PlanInv /\ ToldInv => CrossingsTold
  BY <1>1 DEF OneWorker
<1>3. ASSUME OneWorker PROVE Spec => []CrossingsTold
  <2>1. NInv /\ PlanInv /\ ToldInv /\ [Next]_vars => ToldInv'
    BY <1>3, NextToldInv
  <2>2. PlanInv /\ ToldInv => CrossingsTold
    BY <1>2, <1>3
  <2> QED BY <2>1, <2>2, InitToldInv, AlwaysNInv, AlwaysPlanInv, PTL DEF Spec
<1> QED BY <1>3
=============================================================================
