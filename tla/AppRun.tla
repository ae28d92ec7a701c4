------------------------------- MODULE AppRun -------------------------------
(***************************************************************************)
(* The life of the process after its start (Run in app/app.go, main.go):   *)
(* the scheduler and the HTTP server at work, what Run waits for, and the  *)
(* order in which it stops them, with the requests the server still has.   *)
(* A progress stream lasts as long as its job, which ends with the         *)
(* scheduler (CheckJobs.JobsFinish, CheckStream.StreamsDrain); what net/http *)
(* does is modelled from how Run uses it.                                  *)
(***************************************************************************)
EXTENDS Naturals, Sequences

CONSTANT Conn   \* connections the server may have

VARIABLES
    cancelled,  \* main's context: a signal has come
    sched,      \* the scheduler's workers and loop
    panicked,   \* its error channel holds an error
    listener,   \* the server's
    server,     \* the goroutine of ListenAndServe
    errs, shut, \* errCh: what it holds, whether it is closed
    conn,       \* the request on each connection
    run, runErr \* Run: where it is, what it will return

appVars == <<cancelled, sched, panicked, listener, server, errs, shut, conn, run, runErr>>
serverVars == <<listener, server, errs, shut, conn>>

-----------------------------------------------------------------------------
AppInit ==
    /\ cancelled = FALSE
    /\ sched = "running" /\ panicked = FALSE
    /\ listener = "none" /\ server = "start" /\ errs = <<>> /\ shut = FALSE
    /\ conn = [c \in Conn |-> "none"]
    /\ run = "waiting" /\ runErr = {}

-----------------------------------------------------------------------------
(* What happens to the process *)

Signal ==
    /\ ~cancelled /\ cancelled' = TRUE
    /\ UNCHANGED <<sched, panicked, serverVars, run, runErr>>

\* reportPanic: once, into a channel with room for one
SchedulerPanics ==
    /\ sched = "running" /\ sched' = "panicked" /\ panicked' = TRUE
    /\ UNCHANGED <<cancelled, serverVars, run, runErr>>

-----------------------------------------------------------------------------
(* The server's goroutine *)

ServerStep(at, next) ==
    /\ server = at /\ server' = next
    /\ UNCHANGED <<cancelled, sched, panicked, conn, run, runErr>>

Listen ==
    /\ listener = "none" /\ listener' = "open"
    /\ ServerStep("start", "serving")
    /\ UNCHANGED <<errs, shut>>

\* The address is in use, or accepting connections fails.
ListenFails ==
    /\ ServerStep("start", "failing") \/ ServerStep("serving", "failing")
    /\ listener # "closed" /\ listener' = "broken"
    /\ UNCHANGED <<errs, shut>>

\* ErrServerClosed, which is no error: before it listened, or while it served.
ListenEnds ==
    /\ listener = "closed"
    /\ ServerStep("start", "ending") \/ ServerStep("serving", "ending")
    /\ UNCHANGED <<listener, errs, shut>>

Report ==
    /\ ServerStep("failing", "ending")
    /\ errs = <<>> /\ errs' = <<"server">>
    /\ UNCHANGED <<listener, shut>>

\* recover: the error is sent if there is room.
ServerPanics ==
    /\ ServerStep("start", "ending") \/ ServerStep("serving", "ending")
    /\ errs' = IF errs = <<>> THEN <<"server">> ELSE errs
    /\ listener' = IF listener = "closed" THEN listener ELSE "broken"
    /\ UNCHANGED shut

\* Mutant: the channel is closed when ListenAndServe returns, whatever it returned.
CloseAlways ==
    /\ ServerStep("ending", "over") \/ ServerStep("failing", "over")
    /\ shut' = TRUE
    /\ UNCHANGED <<listener, errs>>

\* The deferred close
Close ==
    /\ ServerStep("ending", "over")
    /\ shut' = TRUE
    /\ UNCHANGED <<listener, errs>>

-----------------------------------------------------------------------------
(* Requests *)

Accept(c) ==
    /\ listener = "open" /\ conn[c] = "none"
    /\ \E kind \in {"request", "stream"} : conn' = [conn EXCEPT ![c] = kind]
    /\ UNCHANGED <<cancelled, sched, panicked, listener, server, errs, shut, run, runErr>>

\* A request is answered; a stream ends with its job or when its reader leaves.
Answer(c) ==
    /\ conn[c] # "none" /\ conn' = [conn EXCEPT ![c] = "none"]
    /\ UNCHANGED <<cancelled, sched, panicked, listener, server, errs, shut, run, runErr>>

\* What is bound to end: a request, and the stream of a job that has ended.
AnswerDue(c) == (conn[c] = "request" \/ sched = "stopped") /\ Answer(c)

-----------------------------------------------------------------------------
(* Run *)

RunStep(at, next) ==
    /\ run = at /\ run' = next
    /\ UNCHANGED <<cancelled, server, shut, conn>>

RunCancelled ==
    /\ cancelled
    /\ RunStep("waiting", "stopping")
    /\ UNCHANGED <<sched, panicked, listener, errs, runErr>>

\* Mutant: a scheduler that has failed is not stopped.
RunSkipsStop ==
    /\ panicked /\ panicked' = FALSE
    /\ RunStep("waiting", "stopped") /\ runErr' = {"scheduler"}
    /\ UNCHANGED <<sched, listener, errs>>

RunSchedulerFailed ==
    /\ panicked /\ panicked' = FALSE
    /\ RunStep("waiting", "stopping") /\ runErr' = {"scheduler"}
    /\ UNCHANGED <<sched, listener, errs>>

\* An error received, or the closed channel
RunServerFailed ==
    /\ RunStep("waiting", "stopping")
    /\ \/ errs # <<>> /\ errs' = <<>> /\ runErr' = {"server"}
       \/ errs = <<>> /\ shut /\ UNCHANGED <<errs, runErr>>
    /\ UNCHANGED <<sched, panicked, listener>>

\* Mutant: the server is shut down first and the scheduler after it.
StopAfterShutdown ==
    /\ RunStep("stopping", "stopped")
    /\ UNCHANGED <<sched, panicked, listener, errs, runErr>>

\* scheduler.Stop returns once its goroutines have (CheckJobs.StopReturnsEventually).
StopScheduler ==
    /\ RunStep("stopping", "stopped") /\ sched' = "stopped"
    /\ UNCHANGED <<panicked, listener, errs, runErr>>

Shutdown ==
    /\ RunStep("stopped", "draining") /\ listener' = "closed"
    /\ UNCHANGED <<sched, panicked, errs, runErr>>

NoneUnderWay == \A c \in Conn : conn[c] = "none"

Drained ==
    /\ NoneUnderWay
    /\ RunStep("draining", "returned")
    /\ UNCHANGED <<sched, panicked, listener, errs, runErr>>

\* Ten seconds are over.
DrainTimesOut ==
    /\ ~NoneUnderWay
    /\ RunStep("draining", "returned") /\ runErr' = runErr \cup {"deadline"}
    /\ UNCHANGED <<sched, panicked, listener, errs>>

-----------------------------------------------------------------------------
Server == Listen \/ ListenFails \/ ListenEnds \/ Report \/ ServerPanics \/ Close
Run == RunCancelled \/ RunSchedulerFailed \/ RunServerFailed \/ StopScheduler \/ Shutdown \/ Drained

AppNext ==
    \/ Signal \/ SchedulerPanics \/ Server \/ Run \/ DrainTimesOut
    \/ \E c \in Conn : Accept(c) \/ Answer(c)

AppSpec ==
    /\ AppInit /\ [][AppNext]_appVars
    /\ WF_appVars(Run) /\ WF_appVars(Report \/ Close \/ ListenEnds)
    /\ \A c \in Conn : WF_appVars(AnswerDue(c))

-----------------------------------------------------------------------------
(* The supervisor learns of every failure: without a signal the process    *)
(* never exits as if it had been asked to, whichever of the server and the *)
(* scheduler failed, in whichever order their reports came.  And when Run  *)
(* returns, no worker writes any more, no new request comes in, and none   *)
(* is under way unless the deadline has passed, which is an error too.     *)
ExitTellsAll ==
    run = "returned" =>
        /\ ~cancelled => runErr # {}
        /\ sched = "stopped" /\ listener = "closed"
        /\ NoneUnderWay \/ "deadline" \in runErr

(* A signal or a failure ends the process, by itself: the streams of check *)
(* jobs do not hold the shutdown until its deadline, for the scheduler,    *)
(* stopped before, has ended their jobs.                                   *)
ShutsDown == (cancelled \/ sched = "panicked" \/ server = "failing") ~> (run = "returned")
=============================================================================
