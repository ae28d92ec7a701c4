----------------------------- MODULE CheckStream -----------------------------
(***************************************************************************)
(* Following a check job: the event stream handler                         *)
(* (httpapi/handlers_checks.go) and the web client that reads it and       *)
(* resumes after a lost connection (web/src/lib/api.ts), composed with the *)
(* pool and the jobs of CheckJobs.                                         *)
(*                                                                         *)
(* A connection is a handler goroutine and the bytes on their way; bytes   *)
(* are whole events here, named by their identifiers, since the client     *)
(* drops an event that a closed connection cut in half.                    *)
(***************************************************************************)
EXTENDS CheckJobs

CONSTANTS
    Client,        \* browser pages, each following one job
    ClientTenant,  \* the tenant of the user signed in on each page
    MaxCloses      \* bound: how often the connections of a page are closed early

ASSUME ClientAssumption == ClientTenant \in [Client -> Tenant] /\ MaxCloses \in Nat

VARIABLES
    \* streamCheckJobEvents in the page
    cpc,           \* idle, connecting, reading, backoff, completed, failed, aborted
    cjob,          \* the job it follows
    lastEventID,   \* the highest identifier it has seen
    received,      \* identifiers handed to onEvent, in order
    sawVerdict,    \* its local variable "completed"
    closes,        \* early closes so far (bounded by MaxCloses)
    \* the connection: handleCheckJobEvents and the bytes it has written
    hpc,           \* none, waiting (in its select), returned
    hlast, hsig,   \* its lastEventID and the signal it waits on
    wire

clientVars == <<cpc, cjob, lastEventID, received, sawVerdict, closes>>
connVars   == <<hpc, hlast, hsig, wire>>
streamVars == <<clientVars, connVars>>
allVars    == <<vars, streamVars>>

Settled == {"completed", "failed", "aborted"}

-----------------------------------------------------------------------------
(* CheckJobEvents: the job must be in the map and belong to the tenant; snapshot *)
(* takes events, done and signal together under job.mu.                          *)

JobFound(c) == cjob[c] \in checkJobs /\ tenantID[cjob[c]] = ClientTenant[c]

Snapshot(j, after) == [i \in 1..(Len(events[j]) - after) |-> after + i]

\* One turn of the handler's loop from CheckJobEvents to the next select: write what is
\* new, then return if the job is done, else wait on the signal of that snapshot.
HandlerTurn(c, after, inFlight) ==
    LET j == cjob[c] IN
    /\ wire' = [wire EXCEPT ![c] = inFlight \o Snapshot(j, after)]
    /\ hlast' = [hlast EXCEPT ![c] = Len(events[j])]
    /\ hsig' = [hsig EXCEPT ![c] = signal[j]]
    /\ hpc' = [hpc EXCEPT ![c] = IF done[j] THEN "returned" ELSE "waiting"]

-----------------------------------------------------------------------------
StreamInit ==
    /\ Init
    /\ cpc = [c \in Client |-> "idle"]
    /\ cjob = [c \in Client |-> NoJob]
    /\ lastEventID = [c \in Client |-> 0]
    /\ received = [c \in Client |-> <<>>]
    /\ sawVerdict = [c \in Client |-> FALSE]
    /\ closes = [c \in Client |-> 0]
    /\ hpc = [c \in Client |-> "none"]
    /\ hlast = [c \in Client |-> 0]
    /\ hsig = [c \in Client |-> 0]
    /\ wire = [c \in Client |-> <<>>]

\* The page has the identifier from the answer to its check request.
Follow(c, j) ==
    /\ cpc[c] = "idle"
    /\ rpc[j] # "none"
    /\ cpc' = [cpc EXCEPT ![c] = "connecting"]
    /\ cjob' = [cjob EXCEPT ![c] = j]
    /\ UNCHANGED <<vars, lastEventID, received, sawVerdict, closes, connVars>>

\* Mutant: the page does not send Last-Event-ID.
ConnectFromStart(c) ==
    /\ cpc[c] = "connecting"
    /\ \/ /\ JobFound(c)
          /\ cpc' = [cpc EXCEPT ![c] = "reading"]
          /\ HandlerTurn(c, 0, <<>>)
       \/ /\ ~JobFound(c)
          /\ cpc' = [cpc EXCEPT ![c] = "failed"]
          /\ UNCHANGED connVars
    /\ UNCHANGED <<vars, cjob, lastEventID, received, sawVerdict, closes>>

\* The request reaches the handler with Last-Event-ID; without the job it answers 404.
Connect(c) ==
    /\ cpc[c] = "connecting"
    /\ \/ /\ JobFound(c)
          /\ cpc' = [cpc EXCEPT ![c] = "reading"]
          /\ HandlerTurn(c, lastEventID[c], <<>>)
       \/ /\ ~JobFound(c)
          /\ cpc' = [cpc EXCEPT ![c] = "failed"]
          /\ UNCHANGED connVars
    /\ UNCHANGED <<vars, cjob, lastEventID, received, sawVerdict, closes>>

HandlerPass(c) ==
    /\ \/ /\ JobFound(c)
          /\ HandlerTurn(c, hlast[c], wire[c])
       \/ /\ ~JobFound(c)
          /\ hpc' = [hpc EXCEPT ![c] = "returned"]
          /\ UNCHANGED <<hlast, hsig, wire>>
    /\ UNCHANGED <<vars, clientVars>>

\* The select takes the closed signal, or the ticker.
HandlerWakes(c) == hpc[c] = "waiting" /\ signal[cjob[c]] # hsig[c] /\ HandlerPass(c)
Heartbeat(c) == hpc[c] = "waiting" /\ HandlerPass(c)

ClientReads(c) ==
    /\ cpc[c] = "reading"
    /\ wire[c] # <<>>
    /\ LET id == Head(wire[c]) IN
        /\ wire' = [wire EXCEPT ![c] = Tail(@)]
        /\ lastEventID' = [lastEventID EXCEPT ![c] = IF id > @ THEN id ELSE @]
        /\ received' = [received EXCEPT ![c] = Append(@, id)]
        /\ sawVerdict' = [sawVerdict EXCEPT ![c] = @ \/ events[cjob[c]][id].type = "job.completed"]
    /\ UNCHANGED <<vars, cpc, cjob, closes, hpc, hlast, hsig>>

\* reader.read() reports the end of the stream.
ClientReachesEnd(c) ==
    /\ cpc[c] = "reading"
    /\ hpc[c] = "returned" /\ wire[c] = <<>>
    /\ cpc' = [cpc EXCEPT ![c] = IF sawVerdict[c] THEN "completed" ELSE "backoff"]
    /\ hpc' = [hpc EXCEPT ![c] = "none"]
    /\ UNCHANGED <<vars, cjob, lastEventID, received, sawVerdict, closes, hlast, hsig, wire>>

\* waitForReconnect resolves.
Reconnect(c) ==
    /\ cpc[c] = "backoff"
    /\ cpc' = [cpc EXCEPT ![c] = "connecting"]
    /\ UNCHANGED <<vars, cjob, lastEventID, received, sawVerdict, closes, connVars>>

\* Something between the two closes the connection in good order: the page still gets a
\* part of what was written, and the handler's request context is done.
ClosesEarly(c) ==
    /\ cpc[c] = "reading" /\ hpc[c] \in {"waiting", "returned"}
    /\ closes[c] < MaxCloses
    /\ closes' = [closes EXCEPT ![c] = @ + 1]
    /\ \E n \in 0..Len(wire[c]) : wire' = [wire EXCEPT ![c] = SubSeq(@, 1, n)]
    /\ hpc' = [hpc EXCEPT ![c] = "returned"]
    /\ UNCHANGED <<vars, cpc, cjob, lastEventID, received, sawVerdict, hlast, hsig>>

\* The page gives up for good: fetch or read rejects, or it is left (AbortController).
GivesUp(c, how) ==
    /\ cpc[c] \in {"connecting", "reading", "backoff"}
    /\ cpc' = [cpc EXCEPT ![c] = how]
    /\ hpc' = [hpc EXCEPT ![c] = "none"]
    /\ wire' = [wire EXCEPT ![c] = <<>>]
    /\ UNCHANGED <<vars, cjob, lastEventID, received, sawVerdict, closes, hlast, hsig>>

-----------------------------------------------------------------------------
StreamStep(c) == Connect(c) \/ HandlerWakes(c) \/ ClientReads(c) \/ ClientReachesEnd(c) \/ Reconnect(c)

StreamNext ==
    \/ Next /\ UNCHANGED streamVars
    \/ \E c \in Client :
        \/ \E j \in Job : Follow(c, j)
        \/ StreamStep(c) \/ Heartbeat(c) \/ ClosesEarly(c)
        \/ \E how \in {"failed", "aborted"} : GivesUp(c, how)

StreamSpec == StreamInit /\ [][StreamNext]_allVars

\* Handler and page keep running; no ticker, close, failure or abort is relied on.
StreamFairSpec == StreamSpec /\ Fairness /\ \A c \in Client :
    /\ WF_allVars(Connect(c)) /\ WF_allVars(HandlerWakes(c)) /\ WF_allVars(ClientReads(c))
    /\ WF_allVars(ClientReachesEnd(c)) /\ WF_allVars(Reconnect(c))

-----------------------------------------------------------------------------
(* Properties *)

StreamTypeOK ==
    /\ cpc \in [Client -> {"idle", "connecting", "reading", "backoff"} \cup Settled]
    /\ cjob \in [Client -> Job \cup {NoJob}]
    /\ lastEventID \in [Client -> Nat]
    /\ received \in [Client -> Seq(Nat)]
    /\ sawVerdict \in [Client -> BOOLEAN]
    /\ closes \in [Client -> 0..MaxCloses]
    /\ hpc \in [Client -> {"none", "waiting", "returned"}]
    /\ hlast \in [Client -> Nat] /\ hsig \in [Client -> Nat]
    /\ wire \in [Client -> Seq(Nat)]
    /\ \A c \in Client : \A i \in 1..Len(wire[c]) : wire[c][i] \in 1..Len(events[cjob[c]])

\* Across any number of connections the page is handed every event once and in order, none
\* skipped and none repeated (Last-Event-ID, snapshot).
NothingSkippedOrRepeated ==
    \A c \in Client : \A i \in 1..Len(received[c]) : received[c][i] = i

\* A handler that waits on an open signal has written the whole log, and the job still has
\* events to come: no append falls between the snapshot and the wait (appendEventLocked).
NoLostWakeup ==
    \A c \in Client : hpc[c] = "waiting" /\ hsig[c] = signal[cjob[c]] =>
        hlast[c] = Len(events[cjob[c]]) /\ ~done[cjob[c]]

\* A page that is told the outcome has seen the report of every target that was reported,
\* and counts all targets of the job.
CompletedSawEverything ==
    \A c \in Client : cpc[c] = "completed" =>
        LET j == cjob[c] IN
        /\ \A i \in 1..Len(events[j]) :
              events[j][i].type \in {"domain.completed", "job.completed"} => i <= lastEventID[c]
        /\ events[j][lastEventID[c]].completed = Total(j)

\* Every page that follows a job gets to an end, by the signal alone and without heartbeats.
PagesSettle == \A c \in Client : cpc[c] = "connecting" ~> cpc[c] \in Settled

\* No stream holds up the shutdown that follows Stop: every handler still waiting returns.
StreamsDrain == \A c \in Client : stop = "stopped" /\ hpc[c] = "waiting" ~> hpc[c] # "waiting"
=============================================================================
