---------------------------- MODULE DashboardPage ----------------------------
(***************************************************************************)
(* The dashboard (pages/dashboard-page.tsx) and its domain form            *)
(* (components/domains/domain-form.tsx): the certificate table and the     *)
(* overview, two queries of the same rows; one form for adding and         *)
(* editing; and the checks, followed event by event.                       *)
(*                                                                         *)
(* The job is the one of CheckJobs.tla reduced to what its events say, and *)
(* the stream the one of CheckStream.tla: every event once, in order, late *)
(* by any amount, or an error. A row holds whose values it has and how its *)
(* last check went.                                                        *)
(***************************************************************************)
EXTENDS Naturals, SequencesExt, QueryCache

CONSTANTS
    DomainId,        \* the domains there are at first
    MaxDomains,      \* bound: domains that have ever been
    Budget           \* bound: how often, in one behaviour, the user uses a form, checks or leaves,
                     \* and a request or a stream is lost or a job cut short

ASSUME DashboardAssumption ==
    /\ MaxDomains \in Nat /\ DomainId \subseteq 1..MaxDomains
    /\ Budget \subseteq [{"edit", "check", "leave", "trouble"} -> Nat]
    /\ \A D \in SUBSET (1..MaxDomains) :
        NoData \notin [D -> [of : 0..MaxDomains, status : {"pending", "healthy", "error"}]]

VARIABLES
    domainRows,                 \* the table domains
    domainsQuery, statusQuery,
    onDashboard,                \* the page is mounted
    editingDomain, showAddForm, \* 0: none
    domainForm,                 \* the mounted form: whose values it has, and isSubmitting
    saving, deleting,           \* saveMutation, deleteMutation
    checkProgress, domainCheckStates,
    check,                      \* handleDomainCheck or handleCheckAll under way
    job,                        \* the job it started, at the server
    toast,
    budget                      \* what is left of one of the Budgets

formVars      == <<editingDomain, showAddForm, domainForm>>
queryVars     == <<domainsQuery, statusQuery>>
mutationVars  == <<saving, deleting>>
checkVars     == <<checkProgress, domainCheckStates, check>>
dashboardVars == <<domainRows, queryVars, onDashboard, formVars, mutationVars, checkVars, job, toast, budget>>

NoForm   == [shown |-> FALSE, of |-> 0, busy |-> FALSE]
NoSave   == [phase |-> "idle", id |-> 0, of |-> 0, add |-> FALSE]
NoCheck  == [phase |-> "idle", mode |-> "none", id |-> 0, read |-> 0, result |-> "none", final |-> <<>>]
NoJob    == [phase |-> "none", mode |-> "none", todo |-> {}, active |-> {}, log |-> <<>>,
             total |-> 0, succeeded |-> 0, failed |-> 0]
NoStates == [d \in 1..MaxDomains |-> "none"]

Spend(kind) == budget[kind] > 0 /\ budget' = [budget EXCEPT ![kind] = @ - 1]

-----------------------------------------------------------------------------
(* The answers of the server *)

DomainList == domainRows

\* GET /public/tenants/{id}/status: how many domains, and how they are (all enabled here: one
\* that is not would be in the table only).
Summary == [count   |-> Cardinality(DOMAIN domainRows),
            healthy |-> Cardinality({d \in DOMAIN domainRows : domainRows[d].status = "healthy"}),
            error   |-> Cardinality({d \in DOMAIN domainRows : domainRows[d].status = "error"})]

ListedDomains == IF domainsQuery.data = NoData THEN {} ELSE DOMAIN domainsQuery.data

\* The overview shows the public status, and counts the table's rows until it has it.
OverviewCount == IF statusQuery.data = NoData THEN Cardinality(ListedDomains) ELSE statusQuery.data.count

\* Mutant: the overview is not fetched again.
RefreshTableOnly ==
    /\ domainsQuery' = IF onDashboard THEN Invalidated(domainsQuery) ELSE domainsQuery
    /\ UNCHANGED statusQuery

\* refreshMonitoringData: a page that has been left has no query to fetch again.
RefreshMonitoringData ==
    /\ domainsQuery' = IF onDashboard THEN Invalidated(domainsQuery) ELSE domainsQuery
    /\ statusQuery' = IF onDashboard THEN Invalidated(statusQuery) ELSE statusQuery

\* What was fetched again is there.
Idle == domainsQuery.flight = "idle" /\ statusQuery.flight = "idle"

MonitoringOutdated ==
    /\ domainsQuery' = Outdated(domainsQuery)
    /\ statusQuery' = Outdated(statusQuery)

-----------------------------------------------------------------------------
DashboardInit ==
    /\ domainRows = [d \in DomainId |-> [of |-> d, status |-> "pending"]]
    /\ domainsQuery = Started(Blank) /\ statusQuery = Started(Blank)
    /\ onDashboard = TRUE
    /\ editingDomain = 0 /\ showAddForm = FALSE /\ domainForm = NoForm
    /\ saving = NoSave /\ deleting = NoSave
    /\ checkProgress = <<>> /\ domainCheckStates = NoStates /\ check = NoCheck
    /\ job = NoJob /\ toast = "none"
    /\ budget \in Budget

DomainsAnswered ==
    /\ domainsQuery.flight = "sent"
    /\ domainsQuery' = Answered(domainsQuery, DomainList)
    /\ UNCHANGED <<domainRows, statusQuery, onDashboard, formVars, mutationVars, checkVars, job, toast,
                   budget>>

StatusAnswered ==
    /\ statusQuery.flight = "sent"
    /\ statusQuery' = Answered(statusQuery, Summary)
    /\ UNCHANGED <<domainRows, domainsQuery, onDashboard, formVars, mutationVars, checkVars, job, toast,
                   budget>>

QueriesArrive ==
    /\ \/ domainsQuery.flight = "answered" /\ domainsQuery' = Settled(domainsQuery) /\ UNCHANGED statusQuery
       \/ statusQuery.flight = "answered" /\ statusQuery' = Settled(statusQuery) /\ UNCHANGED domainsQuery
    /\ UNCHANGED <<domainRows, onDashboard, formVars, mutationVars, checkVars, job, toast, budget>>

-----------------------------------------------------------------------------
(* The form: mounted while showAddForm or editingDomain says so; its effect resets it to *)
(* the values of the domain it is given.                                                 *)

\* Mutant: no effect, so a form that stays mounted keeps the values it has.
ShowFormKeeping(domain, adding) ==
    /\ editingDomain' = domain /\ showAddForm' = adding
    /\ domainForm' = IF domain = 0 /\ ~adding THEN NoForm
               ELSE IF domainForm.shown THEN domainForm
               ELSE [shown |-> TRUE, of |-> domain, busy |-> FALSE]

ShowForm(domain, adding) ==
    /\ editingDomain' = domain /\ showAddForm' = adding
    /\ domainForm' = IF domain = 0 /\ ~adding THEN NoForm
               ELSE IF domainForm.shown /\ domain = editingDomain THEN domainForm
               ELSE [shown |-> TRUE, of |-> domain, busy |-> FALSE]

ToggleAddForm ==
    /\ onDashboard /\ Spend("edit")
    /\ ShowForm(0, ~showAddForm)
    /\ UNCHANGED <<domainRows, queryVars, onDashboard, mutationVars, checkVars, job, toast>>

EditDomain(d) ==
    /\ onDashboard /\ Spend("edit") /\ d \in ListedDomains /\ d # editingDomain
    /\ ShowForm(d, FALSE)
    /\ UNCHANGED <<domainRows, queryVars, onDashboard, mutationVars, checkVars, job, toast>>

CancelForm ==
    /\ onDashboard /\ Spend("edit") /\ domainForm.shown
    /\ ShowForm(0, FALSE)
    /\ UNCHANGED <<domainRows, queryVars, onDashboard, mutationVars, checkVars, job, toast>>

\* handleSubmit and handleDomainSave: the values of the form, for the domain edited now.
SubmitDomain ==
    /\ onDashboard /\ Spend("edit") /\ domainForm.shown /\ ~domainForm.busy /\ saving.phase = "idle"
    /\ domainForm' = [domainForm EXCEPT !.busy = TRUE]
    /\ saving' = [phase |-> "sent", id |-> editingDomain, of |-> domainForm.of, add |-> editingDomain = 0]
    /\ UNCHANGED <<domainRows, queryVars, onDashboard, editingDomain, showAddForm, deleting, checkVars,
                   job, toast>>

WithRow(table, d, row) == [e \in DOMAIN table \cup {d} |-> IF e = d THEN row ELSE table[e]]

\* PUT /domains/{id} or POST /domains; a domain that is gone is refused.
SaveHandled ==
    /\ saving.phase = "sent"
    /\ LET next == 1 + Cardinality(DOMAIN domainRows)
           id   == IF saving.add THEN CHOOSE d \in 1..MaxDomains : d \notin DOMAIN domainRows ELSE saving.id
       IN  IF saving.add \/ saving.id \in DOMAIN domainRows
           THEN /\ saving.add => next <= MaxDomains
                /\ domainRows' = WithRow(domainRows, id,
                       [of     |-> IF saving.add /\ saving.of = 0 THEN id ELSE saving.of,
                        status |-> IF saving.add THEN "pending" ELSE domainRows[id].status])
                /\ saving' = [saving EXCEPT !.phase = "done"]
           ELSE saving' = [saving EXCEPT !.phase = "refused"] /\ UNCHANGED domainRows
    /\ UNCHANGED <<queryVars, onDashboard, formVars, deleting, checkVars, job, toast, budget>>

\* onSuccess closes whichever form is open by now, then fetches both queries again.
SaveSucceeds ==
    /\ saving.phase = "done"
    /\ saving' = [saving EXCEPT !.phase = "refreshing"]
    /\ ShowForm(0, FALSE)
    /\ RefreshMonitoringData
    /\ UNCHANGED <<domainRows, onDashboard, deleting, checkVars, job, toast, budget>>

\* The toast waits for what was fetched.
SaveReported ==
    /\ saving.phase = "refreshing" /\ Idle
    /\ saving' = NoSave
    /\ toast' = IF onDashboard THEN "success" ELSE toast
    /\ UNCHANGED <<domainRows, queryVars, onDashboard, formVars, deleting, checkVars, job, budget>>

\* The error is shown and thrown again, for the form to keep its values.
SaveFails ==
    /\ \/ saving.phase = "refused" /\ UNCHANGED <<queryVars, budget>>
       \/ saving.phase \in {"sent", "done"} /\ Spend("trouble") /\ MonitoringOutdated
    /\ saving' = NoSave
    /\ domainForm' = [domainForm EXCEPT !.busy = FALSE]
    /\ toast' = IF onDashboard THEN "error" ELSE toast
    /\ UNCHANGED <<domainRows, onDashboard, editingDomain, showAddForm, deleting, checkVars, job>>

DeleteDomain(d) ==
    /\ onDashboard /\ Spend("edit") /\ d \in ListedDomains /\ deleting.phase = "idle"
    /\ deleting' = [NoSave EXCEPT !.phase = "sent", !.id = d]
    /\ UNCHANGED <<domainRows, queryVars, onDashboard, formVars, saving, checkVars, job, toast>>

DeleteHandled ==
    /\ deleting.phase = "sent"
    /\ domainRows' = [d \in DOMAIN domainRows \ {deleting.id} |-> domainRows[d]]
    /\ deleting' = [deleting EXCEPT !.phase = IF deleting.id \in DOMAIN domainRows THEN "done" ELSE "refused"]
    /\ UNCHANGED <<queryVars, onDashboard, formVars, saving, checkVars, job, toast, budget>>

\* A failure is not caught: nothing is shown and nothing is fetched.
DeleteSettles ==
    /\ \/ deleting.phase = "done" /\ RefreshMonitoringData
       \/ deleting.phase = "refused" /\ UNCHANGED queryVars
    /\ deleting' = NoSave
    /\ UNCHANGED <<domainRows, onDashboard, formVars, saving, checkVars, job, toast, budget>>

-----------------------------------------------------------------------------
(* Checking *)

Progress(total, completed, succeeded, failed) ==
    [total |-> total, completed |-> completed, succeeded |-> succeeded, failed |-> failed]

EndCheck == check' = NoCheck /\ checkProgress' = <<>> /\ domainCheckStates' = NoStates

\* (One job at a time at the server: what an abandoned one still does is over before the next.)
HandleDomainCheck(d) ==
    /\ onDashboard /\ Spend("check") /\ d \in ListedDomains /\ checkProgress = <<>> /\ job.phase # "running"
    /\ check' = [NoCheck EXCEPT !.phase = "starting", !.mode = "single", !.id = d]
    /\ checkProgress' = <<Progress(1, 0, 0, 0)>>
    /\ domainCheckStates' = [NoStates EXCEPT ![d] = "queued"]
    /\ UNCHANGED <<domainRows, queryVars, onDashboard, formVars, mutationVars, job, toast>>

HandleCheckAll ==
    /\ onDashboard /\ Spend("check") /\ ListedDomains # {} /\ checkProgress = <<>> /\ job.phase # "running"
    /\ check' = [NoCheck EXCEPT !.phase = "starting", !.mode = "all"]
    /\ checkProgress' = <<Progress(Cardinality(ListedDomains), 0, 0, 0)>>
    /\ domainCheckStates' = [d \in 1..MaxDomains |-> IF d \in ListedDomains THEN "queued" ELSE "none"]
    /\ UNCHANGED <<domainRows, queryVars, onDashboard, formVars, mutationVars, job, toast>>

\* The server starts a job on the domain, or on all it has by now; none is an error.
CheckStarts ==
    /\ check.phase = "starting"
    /\ LET targets == IF check.mode = "all" THEN DOMAIN domainRows ELSE {check.id} \cap DOMAIN domainRows IN
       IF targets # {}
       THEN /\ job' = [NoJob EXCEPT !.phase = "running", !.mode = check.mode, !.todo = targets,
                                    !.total = Cardinality(targets)]
            /\ check' = [check EXCEPT !.phase = "streaming"]
            /\ checkProgress' = <<Progress(Cardinality(targets), 0, 0, 0)>>
            /\ UNCHANGED <<domainCheckStates, toast>>
       ELSE toast' = "error" /\ EndCheck /\ UNCHANGED job
    /\ UNCHANGED <<domainRows, queryVars, onDashboard, formVars, mutationVars, budget>>

\* Mutant: the catch of the start does not clear the progress.
StartFailureLeavesProgress ==
    /\ check.phase = "starting" /\ Spend("trouble")
    /\ toast' = "error"
    /\ check' = NoCheck /\ domainCheckStates' = NoStates
    /\ UNCHANGED <<domainRows, queryVars, onDashboard, formVars, mutationVars, checkProgress, job>>

StartFails ==
    /\ check.phase = "starting" /\ Spend("trouble")
    /\ toast' = "error"
    /\ EndCheck
    /\ UNCHANGED <<domainRows, queryVars, onDashboard, formVars, mutationVars, job>>

Event(type, d, status, ok, bad) ==
    [type |-> type, id |-> d, status |-> status, counts |-> Progress(job.total, ok + bad, ok, bad)]

Followed == check.phase = "streaming"

\* A worker takes a domain of the job.
JobStarts(d) ==
    /\ job.phase = "running" /\ d \in job.todo
    /\ job' = [job EXCEPT !.todo = @ \ {d}, !.active = @ \cup {d},
                          !.log = Append(@, Event("domain.started", d, "running", job.succeeded, job.failed))]
    /\ UNCHANGED <<domainRows, queryVars, onDashboard, formVars, mutationVars, checkVars, toast,
                   budget>>

\* Its check is stored and reported; a domain deleted meanwhile is reported without its name.
JobCompletes(d, status) ==
    /\ job.phase = "running" /\ d \in job.active
    /\ LET there == d \in DOMAIN domainRows
           ok    == job.succeeded + (IF there /\ status = "healthy" THEN 1 ELSE 0)
           bad   == job.failed + (IF there /\ status = "healthy" THEN 0 ELSE 1)
       IN  /\ domainRows' = IF there THEN [domainRows EXCEPT ![d].status = status] ELSE domainRows
           /\ job' = [job EXCEPT !.active = @ \ {d}, !.succeeded = ok, !.failed = bad,
                                 !.log = Append(@, IF there
                                    THEN Event("domain.completed", d, status, ok, bad)
                                    ELSE Event("domain.completed", 0, "error", ok, bad))]
    /\ IF Followed THEN UNCHANGED queryVars ELSE MonitoringOutdated
    /\ UNCHANGED <<onDashboard, formVars, mutationVars, checkVars, toast, budget>>

\* All done, or the server stops and what is left counts as failed.
JobEnds ==
    /\ job.phase = "running"
    /\ LET left == job.total - job.succeeded - job.failed IN
       /\ \/ left = 0 /\ UNCHANGED budget
          \/ left > 0 /\ Spend("trouble")
       /\ job' = [job EXCEPT !.phase = "done", !.todo = {}, !.active = {}, !.failed = @ + left,
                             !.log = Append(@, Event("job.completed", 0, "none", job.succeeded, job.failed + left))]
    /\ UNCHANGED <<domainRows, queryVars, onDashboard, formVars, mutationVars, checkVars, toast>>

\* onEvent: the counts, the row's state, and what the toast will need.
StreamEvent ==
    /\ check.phase = "streaming" /\ check.read < Len(job.log) /\ check.final = <<>>
    /\ LET e == job.log[check.read + 1] IN
       /\ checkProgress' = <<e.counts>>
       /\ domainCheckStates' = IF e.id = 0 THEN domainCheckStates
                               ELSE [domainCheckStates EXCEPT ![e.id] =
                                       IF e.type = "domain.started" THEN "running" ELSE "none"]
       /\ check' = [check EXCEPT !.read = @ + 1,
                                 !.result = IF e.type = "domain.completed" /\ e.id # 0 THEN e.status ELSE @,
                                 !.final = IF e.type = "job.completed" THEN <<e.counts>> ELSE @]
    /\ UNCHANGED <<domainRows, queryVars, onDashboard, formVars, mutationVars, job, toast, budget>>

\* Mutant: a job without failures so far counts as a success.
ToneOfLastEvent == IF checkProgress[1].succeeded > 0 THEN "success" ELSE "error"

ToneOfCheck ==
    LET final == check.final[1] IN
    IF check.mode = "all"
    THEN CASE final.failed = 0    -> "success"
           [] final.failed # 0 /\ final.succeeded = 0 -> "error"
           [] OTHER -> "warning"
    ELSE IF check.result = "healthy" THEN "success" ELSE "error"

\* The stream has ended with the job: the toast, a refresh, and the progress goes.
CheckReported ==
    /\ check.phase = "streaming" /\ check.final # <<>>
    /\ toast' = ToneOfCheck
    /\ RefreshMonitoringData
    /\ check' = [check EXCEPT !.phase = "refreshing"]
    /\ UNCHANGED <<domainRows, onDashboard, formVars, mutationVars, checkProgress, domainCheckStates, job,
                   budget>>

\* The finally, once both queries are back.
CheckEnds ==
    /\ check.phase = "refreshing" /\ Idle
    /\ EndCheck
    /\ UNCHANGED <<domainRows, queryVars, onDashboard, formVars, mutationVars, job, toast, budget>>

\* Mutant: the finally does not reset the progress.
StreamFailureLeavesCheck ==
    /\ check.phase = "streaming" /\ check.final = <<>> /\ Spend("trouble")
    /\ toast' = "error"
    /\ check' = [check EXCEPT !.phase = "failed"]
    /\ MonitoringOutdated
    /\ UNCHANGED <<domainRows, onDashboard, formVars, mutationVars, checkProgress, domainCheckStates, job>>

\* An error of the stream: shown, and the rows already checked are not fetched again.
StreamFails ==
    /\ check.phase = "streaming" /\ check.final = <<>> /\ Spend("trouble")
    /\ toast' = "error"
    /\ EndCheck
    /\ MonitoringOutdated
    /\ UNCHANGED <<domainRows, onDashboard, formVars, mutationVars, job>>

\* The toast goes after a while (here: once nothing is under way).
DismissToast ==
    /\ toast # "none" /\ saving.phase = "idle" /\ check.phase = "idle" /\ Idle
    /\ toast' = "none"
    /\ UNCHANGED <<domainRows, queryVars, onDashboard, formVars, mutationVars, checkVars, job,
                   budget>>

\* Leaving the page aborts the request or the stream, silently; the job goes on.
LeavePage ==
    /\ onDashboard /\ Spend("leave")
    /\ onDashboard' = FALSE
    /\ editingDomain' = 0 /\ showAddForm' = FALSE /\ domainForm' = NoForm
    /\ EndCheck /\ toast' = "none"
    /\ UNCHANGED <<domainRows, queryVars, mutationVars, job>>

ReturnToPage ==
    /\ ~onDashboard
    /\ onDashboard' = TRUE
    /\ domainsQuery' = Mounted(domainsQuery) /\ statusQuery' = Mounted(statusQuery)
    /\ UNCHANGED <<domainRows, formVars, mutationVars, checkVars, job, toast, budget>>

-----------------------------------------------------------------------------
Answers   == DomainsAnswered \/ StatusAnswered \/ QueriesArrive
Mutating  == SaveHandled \/ SaveSucceeds \/ SaveReported \/ SaveFails \/ DeleteHandled \/ DeleteSettles
JobGoesOn == (\E d \in 1..MaxDomains : JobStarts(d) \/ \E s \in {"healthy", "error"} : JobCompletes(d, s))
             \/ JobEnds
Following == CheckStarts \/ StartFails \/ StreamEvent \/ CheckReported \/ CheckEnds \/ StreamFails

DashboardNext ==
    \/ ToggleAddForm \/ CancelForm \/ SubmitDomain
    \/ \E d \in 1..MaxDomains : EditDomain(d) \/ DeleteDomain(d) \/ HandleDomainCheck(d)
    \/ HandleCheckAll \/ LeavePage \/ ReturnToPage \/ DismissToast
    \/ Answers \/ Mutating \/ JobGoesOn \/ Following

DashboardFairness == WF_dashboardVars(Answers) /\ WF_dashboardVars(Mutating)
                     /\ WF_dashboardVars(JobGoesOn) /\ WF_dashboardVars(Following)

DashboardSpec == DashboardInit /\ [][DashboardNext]_dashboardVars /\ DashboardFairness

-----------------------------------------------------------------------------
\* The values saved for a domain are the ones loaded from it, although one form serves all
\* domains in turn and stays mounted when the user goes from one to the next.
SavesItsOwnDomain ==
    /\ saving.phase # "idle" => saving.of = saving.id
    /\ \A d \in DOMAIN domainRows : domainRows[d].of = d

\* The toast after a check tells how the job went at the server: success only if every one
\* of its domains was checked and found healthy, also when it was cut short or lost one.
ToastTellsTheOutcome ==
    [][check.phase = "streaming" /\ check'.phase = "refreshing"
        => toast' = CASE job.succeeded = job.total -> "success"
                      [] job.succeeded = 0 -> "error"
                      [] OTHER -> "warning"]_dashboardVars

\* When nothing is under way, table and overview show the rows there are and agree, unless a
\* query was joined while an older answer was on its way, an answer or the stream was lost,
\* or the job went on after the page was left.
DashboardFresh ==
    (onDashboard /\ saving.phase = "idle" /\ deleting.phase = "idle" /\ check.phase = "idle"
     /\ job.phase # "running" /\ Idle
     /\ ~domainsQuery.old /\ ~statusQuery.old)
        => domainsQuery.data = DomainList /\ statusQuery.data = Summary /\ OverviewCount = Cardinality(ListedDomains)

\* No row says queued or running, and no progress is shown, unless a check is under way.
CheckLeavesNothing == check.phase = "idle" => checkProgress = <<>> /\ domainCheckStates = NoStates
=============================================================================
