--------------------------- MODULE WebPages_proofs ---------------------------
(***************************************************************************)
(* Proofs about the pages of the web client, for any bounds: the           *)
(* dashboard, the notifications page, the administration page, and what    *)
(* the pages make of their inputs.                                         *)
(***************************************************************************)
EXTENDS DashboardPage, NotificationsPage, AdminPage, WebInputs, ListLemmas, FiniteSetTheorems, TLAPS

-----------------------------------------------------------------------------
(* The dashboard: the inductive invariant *)

QueryOf(S) == [data : S, flight : {"idle", "sent", "answered"}, got : S, old : BOOLEAN]

DomainRow     == [of : 0..MaxDomains, status : {"pending", "healthy", "error"}]
DomainTable   == UNION {[D -> DomainRow] : D \in SUBSET (1..MaxDomains)}
SummaryCounts == [count : Nat, healthy : Nat, error : Nat]
JobCounts     == [total : Nat, completed : Nat, succeeded : Nat, failed : Nat]
JobEvent      == [type : {"domain.started", "domain.completed", "job.completed"}, id : Nat,
                  status : {"running", "healthy", "error", "none"}, counts : JobCounts]
FormState     == [shown : BOOLEAN, of : 0..MaxDomains, busy : BOOLEAN]
SaveState     == [phase : {"idle", "sent", "done", "refused", "refreshing"},
                  id : 0..MaxDomains, of : 0..MaxDomains, add : BOOLEAN]
CheckState    == [phase : {"idle", "starting", "streaming", "refreshing"}, mode : {"none", "single", "all"},
                  id : Nat, read : Nat, result : {"none", "running", "healthy", "error"}, final : Seq(JobCounts)]
JobState      == [phase : {"none", "running", "done"}, mode : {"none", "single", "all"},
                  todo : SUBSET (1..MaxDomains), active : SUBSET (1..MaxDomains), log : Seq(JobEvent),
                  total : Nat, succeeded : Nat, failed : Nat]

DashboardTypes ==
    /\ domainRows \in DomainTable
    /\ domainsQuery \in QueryOf(DomainTable \cup {NoData})
    /\ statusQuery \in QueryOf(SummaryCounts \cup {NoData})
    /\ onDashboard \in BOOLEAN /\ editingDomain \in 0..MaxDomains /\ showAddForm \in BOOLEAN
    /\ domainForm \in FormState /\ saving \in SaveState /\ deleting \in SaveState
    /\ check \in CheckState /\ job \in JobState

\* The form holds the values of the domain edited now, a save those of the domain it is for,
\* and a row its own.
FormInv == domainForm.shown => domainForm.of = editingDomain
SaveInv == saving.phase # "idle" => saving.of = saving.id /\ (saving.add <=> saving.id = 0)
RowsInv == \A d \in DOMAIN domainRows : domainRows[d].of = d

\* Entry i of the log completes a domain, and says which.
CompletedAt(i) == job.log[i].type = "domain.completed"
ToldAt(i)      == CompletedAt(i) /\ job.log[i].id # 0
FinalCounts    == Progress(job.total, job.succeeded + job.failed, job.succeeded, job.failed)

\* The log ends with the job and its final counts; a domain that is gone counts as failed.
LogInv ==
    /\ job.phase # "none" => job.total > 0
    /\ job.phase = "done" => job.succeeded + job.failed = job.total
    /\ \A i \in 1..Len(job.log) : (CompletedAt(i) /\ ~ToldAt(i)) => job.log[i].status = "error"
    /\ \A i \in 1..Len(job.log) : job.log[i].type = "job.completed" =>
        job.phase = "done" /\ i = Len(job.log) /\ job.log[i].counts = FinalCounts

\* The job of one domain has not completed it, or has, and its counts say how.
SingleInv ==
    (job.mode = "single") =>
        /\ job.total = 1
        /\ \/ /\ \A i \in 1..Len(job.log) : ~CompletedAt(i)
              /\ job.succeeded = 0
              /\ job.phase = "running" => job.failed = 0
              /\ job.todo \cap job.active = {}
              /\ \E d \in 1..MaxDomains : job.todo \cup job.active \subseteq {d}
           \/ /\ job.todo = {} /\ job.active = {} /\ job.succeeded + job.failed = 1
              /\ \A i \in 1..Len(job.log) : CompletedAt(i) =>
                    (job.log[i].status = "healthy" <=> job.succeeded = 1)
              /\ \E i \in 1..Len(job.log) : CompletedAt(i)

\* What the page knows of the job it follows is what the entries it has read say.
FollowInv ==
    check.phase = "streaming" =>
        /\ job.phase # "none" /\ check.mode = job.mode /\ check.mode # "none"
        /\ check.read <= Len(job.log)
        /\ check.final # <<>> =>
            job.phase = "done" /\ check.read = Len(job.log) /\ check.final = <<FinalCounts>>
        /\ \/ check.result = "none" /\ \A i \in 1..check.read : ~ToldAt(i)
           \/ \E i \in 1..check.read : ToldAt(i) /\ check.result = job.log[i].status

ModeInv == check.phase = "starting" =>
    check.mode # "none" /\ check.read = 0 /\ check.result = "none" /\ check.final = <<>>

\* Something has changed the rows and its fetch is still to come, or a check may any moment.
Dirty == saving.phase = "done" \/ deleting.phase = "done" \/ check.phase = "streaming"

\* What a query shows, or is about to, is the value there is, unless it says it is old.
UpToDate(q, value) ==
    ~q.old => /\ q.flight = "idle" => q.data = value
              /\ q.flight = "answered" => q.got = value
FreshInv == (onDashboard /\ ~Dirty) => UpToDate(domainsQuery, domainRows) /\ UpToDate(statusQuery, Summary)

LeavesInv ==
    /\ CheckLeavesNothing
    /\ check.phase # "idle" => onDashboard /\ checkProgress # <<>>

DashboardInv ==
    /\ DashboardTypes /\ FormInv /\ SaveInv /\ RowsInv /\ LogInv /\ SingleInv
    /\ FollowInv /\ ModeInv /\ FreshInv /\ LeavesInv

-----------------------------------------------------------------------------
(* What changes where *)

DomainRowsStep  == SaveHandled \/ DeleteHandled \/ \E d \in 1..MaxDomains, s \in {"healthy", "error"} : JobCompletes(d, s)
JobStep   == CheckStarts \/ JobEnds \/ \E d \in 1..MaxDomains : JobStarts(d) \/ \E s \in {"healthy", "error"} : JobCompletes(d, s)
CheckStep == \/ \E d \in 1..MaxDomains : HandleDomainCheck(d)
             \/ HandleCheckAll \/ LeavePage \/ Following
FormStep  == \/ ToggleAddForm \/ CancelForm \/ SubmitDomain \/ SaveSucceeds \/ SaveFails \/ LeavePage
             \/ \E d \in 1..MaxDomains : EditDomain(d)
SaveStep  == SubmitDomain \/ SaveHandled \/ SaveSucceeds \/ SaveReported \/ SaveFails
DeleteStep == DeleteHandled \/ DeleteSettles \/ \E d \in 1..MaxDomains : DeleteDomain(d)
QueryStep == \/ Answers \/ SaveSucceeds \/ SaveFails \/ DeleteSettles \/ CheckReported \/ StreamFails \/ ReturnToPage
             \/ \E d \in 1..MaxDomains, s \in {"healthy", "error"} : JobCompletes(d, s)
VisitStep == LeavePage \/ ReturnToPage

LEMMA ChangesWhere ==
    ASSUME DashboardNext
    PROVE  /\ DomainRowsStep \/ domainRows' = domainRows
           /\ JobStep \/ job' = job
           /\ CheckStep \/ UNCHANGED <<checkProgress, domainCheckStates, check>>
           /\ FormStep \/ UNCHANGED <<editingDomain, showAddForm, domainForm>>
           /\ SaveStep \/ saving' = saving
           /\ DeleteStep \/ deleting' = deleting
           /\ QueryStep \/ UNCHANGED <<domainsQuery, statusQuery>>
           /\ VisitStep \/ onDashboard' = onDashboard
<1> USE DEF formVars, queryVars, mutationVars, checkVars
<1> USE DEF DomainRowsStep, JobStep, CheckStep, FormStep, SaveStep, DeleteStep, QueryStep, VisitStep, Answers, Following
<1> DEFINE Goal == /\ DomainRowsStep \/ domainRows' = domainRows
                   /\ JobStep \/ job' = job
                   /\ CheckStep \/ UNCHANGED <<checkProgress, domainCheckStates, check>>
                   /\ FormStep \/ UNCHANGED <<editingDomain, showAddForm, domainForm>>
                   /\ SaveStep \/ saving' = saving
                   /\ DeleteStep \/ deleting' = deleting
                   /\ QueryStep \/ UNCHANGED <<domainsQuery, statusQuery>>
                   /\ VisitStep \/ onDashboard' = onDashboard
<1>1. ASSUME ToggleAddForm \/ CancelForm \/ SubmitDomain \/ \E d \in 1..MaxDomains : EditDomain(d) PROVE Goal
  BY <1>1 DEF ToggleAddForm, CancelForm, SubmitDomain, EditDomain
<1>2. ASSUME (\E d \in 1..MaxDomains : DeleteDomain(d)) \/ DeleteHandled \/ DeleteSettles PROVE Goal
  BY <1>2 DEF DeleteDomain, DeleteHandled, DeleteSettles
<1>3. ASSUME (\E d \in 1..MaxDomains : HandleDomainCheck(d)) \/ HandleCheckAll PROVE Goal
  BY <1>3 DEF HandleDomainCheck, HandleCheckAll
<1>4. ASSUME LeavePage \/ ReturnToPage \/ DismissToast PROVE Goal
  BY <1>4 DEF LeavePage, ReturnToPage, DismissToast
<1>5. ASSUME Answers PROVE Goal
  BY <1>5 DEF DomainsAnswered, StatusAnswered, QueriesArrive
<1>6. ASSUME SaveHandled \/ SaveSucceeds PROVE Goal
  BY <1>6 DEF SaveHandled, SaveSucceeds
<1>7. ASSUME SaveReported \/ SaveFails PROVE Goal
  BY <1>7 DEF SaveReported, SaveFails
<1>8. ASSUME JobGoesOn PROVE Goal
  BY <1>8 DEF JobGoesOn, JobStarts, JobCompletes, JobEnds
<1>9. ASSUME CheckStarts \/ StartFails \/ StreamEvent PROVE Goal
  BY <1>9 DEF CheckStarts, StartFails, StreamEvent
<1>10. ASSUME CheckReported \/ CheckEnds \/ StreamFails PROVE Goal
  BY <1>10 DEF CheckReported, CheckEnds, StreamFails
<1> HIDE DEF Goal
<1> QED
  <2>1. Goal
    BY <1>1, <1>2, <1>3, <1>4, <1>5, <1>6, <1>7, <1>8, <1>9, <1>10 DEF DashboardNext, Mutating
  <2> QED BY <2>1 DEF Goal

-----------------------------------------------------------------------------
(* The rows *)

LEMMA TableType ==
    ASSUME NEW t \in DomainTable
    PROVE  /\ DOMAIN t \subseteq 1..MaxDomains /\ t \in [DOMAIN t -> DomainRow]
           /\ \A d \in DOMAIN t : t[d] \in DomainRow
  BY DEF DomainTable

LEMMA TableIntro ==
    ASSUME NEW D \in SUBSET (1..MaxDomains), NEW t \in [D -> DomainRow] PROVE t \in DomainTable
  BY DEF DomainTable

LEMMA RowPut ==
    ASSUME NEW t \in DomainTable, NEW d \in 1..MaxDomains, NEW r \in DomainRow
    PROVE  /\ WithRow(t, d, r) \in DomainTable
           /\ DOMAIN WithRow(t, d, r) = DOMAIN t \cup {d}
           /\ \A e \in DOMAIN t \cup {d} : WithRow(t, d, r)[e] = IF e = d THEN r ELSE t[e]
<1>1. DOMAIN t \cup {d} \in SUBSET (1..MaxDomains) /\ \A e \in DOMAIN t : t[e] \in DomainRow
  BY TableType
<1>2. WithRow(t, d, r) \in [DOMAIN t \cup {d} -> DomainRow]
  BY <1>1 DEF WithRow
<1> QED BY <1>1, <1>2, TableIntro DEF WithRow

LEMMA RowPutOwn ==
    ASSUME NEW t \in DomainTable, NEW d \in 1..MaxDomains, NEW r \in DomainRow, r.of = d, \A e \in DOMAIN t : t[e].of = e,
           NEW u, u = WithRow(t, d, r)
    PROVE  u \in DomainTable /\ \A e \in DOMAIN u : u[e].of = e
<1>1. u \in DomainTable /\ DOMAIN u = DOMAIN t \cup {d} /\ \A e \in DOMAIN t \cup {d} : u[e] = IF e = d THEN r ELSE t[e]
  BY RowPut
<1> QED BY <1>1

\* Whose values a save carries, and whose row it changes.
LEMMA SavedRow ==
    ASSUME DashboardTypes, SaveInv, RowsInv, SaveHandled
    PROVE  domainRows' \in DomainTable /\ RowsInv'
<1>0. MaxDomains \in Nat /\ domainRows \in DomainTable /\ saving \in SaveState /\ saving.of = saving.id
      /\ (saving.add <=> saving.id = 0)
  BY DashboardAssumption DEF DashboardTypes, SaveInv, SaveHandled
<1>1. CASE domainRows' = domainRows
  BY <1>0, <1>1 DEF RowsInv
<1>2. CASE saving.add
  <2> DEFINE id == CHOOSE d \in 1..MaxDomains : d \notin DOMAIN domainRows
             row == [of |-> IF saving.of = 0 THEN id ELSE saving.of, status |-> "pending"]
  <2>1. domainRows' = WithRow(domainRows, id, row) /\ 1 + Cardinality(DOMAIN domainRows) <= MaxDomains
    BY <1>2 DEF SaveHandled
  <2>2. id \in 1..MaxDomains
    <3>1. Cardinality(1..MaxDomains) = MaxDomains
      BY <1>0, FS_Interval
    <3>2. DOMAIN domainRows # 1..MaxDomains
      BY <1>0, <2>1, <3>1
    <3>3. \E d \in 1..MaxDomains : d \notin DOMAIN domainRows
      BY <1>0, <3>2, TableType
    <3> QED BY <3>3
  <2> HIDE DEF id
  <2>3. saving.of = 0
    BY <1>0, <1>2
  <2>4. row \in DomainRow /\ row.of = id
    BY <2>2, <2>3 DEF DomainRow
  <2> HIDE DEF row
  <2>5. \A e \in DOMAIN domainRows : domainRows[e].of = e
    BY DEF RowsInv
  <2>6. PICK u : u = WithRow(domainRows, id, row)
    OBVIOUS
  <2>7. u \in DomainTable /\ \A e \in DOMAIN u : u[e].of = e
    BY <1>0, <2>2, <2>4, <2>5, <2>6, RowPutOwn
  <2>8. domainRows' = u
    BY <2>1, <2>6
  <2> QED BY <2>7, <2>8 DEF RowsInv
<1>3. CASE ~saving.add /\ saving.id \in DOMAIN domainRows
  <2> DEFINE row == [of |-> saving.of, status |-> domainRows[saving.id].status]
  <2>1. domainRows' = WithRow(domainRows, saving.id, row)
    BY <1>3 DEF SaveHandled
  <2>2. saving.id \in 1..MaxDomains /\ domainRows[saving.id] \in DomainRow
    BY <1>0, <1>3, TableType
  <2>3. row \in DomainRow /\ row.of = saving.id
    BY <1>0, <2>2 DEF DomainRow, SaveState
  <2> HIDE DEF row
  <2>4. \A e \in DOMAIN domainRows : domainRows[e].of = e
    BY DEF RowsInv
  <2>5. PICK u : u = WithRow(domainRows, saving.id, row)
    OBVIOUS
  <2>6. u \in DomainTable /\ \A e \in DOMAIN u : u[e].of = e
    BY <1>0, <2>2, <2>3, <2>4, <2>5, RowPutOwn
  <2>7. domainRows' = u
    BY <2>1, <2>5
  <2> QED BY <2>6, <2>7 DEF RowsInv
<1> QED BY <1>1, <1>2, <1>3 DEF SaveHandled

LEMMA RowsKept ==
    ASSUME DashboardTypes, SaveInv, RowsInv, DashboardNext
    PROVE  domainRows' \in DomainTable /\ RowsInv'
<1>0. domainRows \in DomainTable
  BY DEF DashboardTypes
<1>1. CASE domainRows' = domainRows
  BY <1>0, <1>1 DEF RowsInv
<1>2. CASE SaveHandled
  BY <1>2, SavedRow
<1>3. CASE DeleteHandled
  <2>1. domainRows' = [d \in DOMAIN domainRows \ {deleting.id} |-> domainRows[d]]
    BY <1>3 DEF DeleteHandled
  <2>2. domainRows' \in [DOMAIN domainRows \ {deleting.id} -> DomainRow]
    BY <1>0, <2>1, TableType
  <2>3. domainRows' \in DomainTable
    BY <1>0, <2>2, TableType, TableIntro
  <2> QED BY <2>1, <2>3 DEF RowsInv
<1>4. ASSUME NEW d \in 1..MaxDomains, NEW s \in {"healthy", "error"}, JobCompletes(d, s), d \in DOMAIN domainRows
      PROVE  domainRows' \in DomainTable /\ RowsInv'
  <2>1. domainRows' = [domainRows EXCEPT ![d].status = s]
    BY <1>4 DEF JobCompletes
  <2>2. domainRows[d] \in DomainRow
    BY <1>0, <1>4, TableType
  <2> DEFINE row == [domainRows[d] EXCEPT !.status = s]
  <2>3. row \in DomainRow /\ row.of = domainRows[d].of
    BY <2>2 DEF DomainRow
  <2>4. domainRows' = [domainRows EXCEPT ![d] = row]
    BY <2>1
  <2> HIDE DEF row
  <2>5. domainRows' \in [DOMAIN domainRows -> DomainRow]
    BY <1>0, <2>3, <2>4, TableType
  <2>6. domainRows' \in DomainTable
    BY <1>0, <2>5, TableType, TableIntro
  <2> QED BY <1>0, <2>3, <2>4, <2>6, TableType DEF RowsInv
<1>5. ASSUME NEW d \in 1..MaxDomains, NEW s \in {"healthy", "error"}, JobCompletes(d, s), d \notin DOMAIN domainRows
      PROVE  domainRows' = domainRows
  BY <1>5 DEF JobCompletes
<1> QED BY <1>1, <1>2, <1>3, <1>4, <1>5, ChangesWhere DEF DomainRowsStep

-----------------------------------------------------------------------------
(* The form and what is saved with it *)

LEMMA ShowFormShows ==
    ASSUME NEW domain \in 0..MaxDomains, NEW adding \in BOOLEAN, DashboardTypes, FormInv, ShowForm(domain, adding)
    PROVE  editingDomain' \in 0..MaxDomains /\ showAddForm' \in BOOLEAN /\ domainForm' \in FormState /\ FormInv'
<1>0. domainForm \in FormState /\ 0 \in 0..MaxDomains
  BY DashboardAssumption DEF DashboardTypes
<1>1. NoForm \in FormState /\ ~NoForm.shown
  BY <1>0 DEF NoForm, FormState
<1>2. [shown |-> TRUE, of |-> domain, busy |-> FALSE] \in FormState
  BY DEF FormState
<1> QED BY <1>0, <1>1, <1>2 DEF ShowForm, FormInv

LEMMA ListedInTable ==
    ASSUME DashboardTypes, NEW d \in ListedDomains PROVE d \in 1..MaxDomains
<1>1. domainsQuery.data \in DomainTable /\ d \in DOMAIN domainsQuery.data
  BY DEF DashboardTypes, QueryOf, ListedDomains
<1> QED BY <1>1, TableType

LEMMA FormKept ==
    ASSUME DashboardTypes, FormInv, DashboardNext
    PROVE  editingDomain' \in 0..MaxDomains /\ showAddForm' \in BOOLEAN /\ domainForm' \in FormState /\ FormInv'
<1> DEFINE Goal == editingDomain' \in 0..MaxDomains /\ showAddForm' \in BOOLEAN /\ domainForm' \in FormState /\ FormInv'
<1>0. /\ MaxDomains \in Nat /\ 0 \in 0..MaxDomains
      /\ editingDomain \in 0..MaxDomains /\ showAddForm \in BOOLEAN /\ domainForm \in FormState
  BY DashboardAssumption DEF DashboardTypes
<1>1. CASE UNCHANGED <<editingDomain, showAddForm, domainForm>>
  BY <1>0, <1>1 DEF FormInv
<1>2. CASE ToggleAddForm \/ CancelForm \/ SaveSucceeds
  <2>1. \E adding \in BOOLEAN : ShowForm(0, adding)
    BY <1>0, <1>2 DEF ToggleAddForm, CancelForm, SaveSucceeds
  <2> QED BY <1>0, <2>1, ShowFormShows
<1>3. CASE SubmitDomain \/ SaveFails
  <2>1. /\ UNCHANGED <<editingDomain, showAddForm>>
        /\ domainForm' = [domainForm EXCEPT !.busy = TRUE] \/ domainForm' = [domainForm EXCEPT !.busy = FALSE]
    BY <1>3 DEF SubmitDomain, SaveFails
  <2>2. domainForm' \in FormState /\ domainForm'.shown = domainForm.shown /\ domainForm'.of = domainForm.of
    BY <1>0, <2>1 DEF FormState
  <2> QED BY <1>0, <2>1, <2>2 DEF FormInv
<1>4. CASE LeavePage
  <2>1. editingDomain' = 0 /\ showAddForm' = FALSE /\ domainForm' = NoForm
    BY <1>4 DEF LeavePage
  <2> QED BY <1>0, <2>1 DEF NoForm, FormState, FormInv
<1>5. ASSUME NEW d \in 1..MaxDomains, EditDomain(d) PROVE Goal
  <2>1. ShowForm(d, FALSE)
    BY <1>5 DEF EditDomain
  <2>2. d \in 0..MaxDomains
    BY <1>0, <1>5
  <2> QED BY <2>1, <2>2, ShowFormShows
<1> QED BY <1>1, <1>2, <1>3, <1>4, <1>5, ChangesWhere DEF FormStep

LEMMA SaveKept ==
    ASSUME DashboardTypes, FormInv, SaveInv, DashboardNext
    PROVE  saving' \in SaveState /\ SaveInv'
<1>0. /\ MaxDomains \in Nat /\ 0 \in 0..MaxDomains /\ saving \in SaveState
      /\ editingDomain \in 0..MaxDomains /\ domainForm \in FormState
  BY DashboardAssumption DEF DashboardTypes
<1>1. CASE saving' = saving
  BY <1>0, <1>1 DEF SaveInv
<1>2. CASE SubmitDomain
  <2>1. saving' = [phase |-> "sent", id |-> editingDomain, of |-> domainForm.of, add |-> editingDomain = 0]
    BY <1>2 DEF SubmitDomain
  <2>2. domainForm.of = editingDomain
    BY <1>2 DEF SubmitDomain, FormInv
  <2> QED BY <1>0, <2>1, <2>2 DEF SaveState, SaveInv
<1>3. CASE SaveHandled \/ SaveSucceeds
  <2>1. /\ saving.phase # "idle"
        /\ \/ saving' = [saving EXCEPT !.phase = "done"]
           \/ saving' = [saving EXCEPT !.phase = "refused"]
           \/ saving' = [saving EXCEPT !.phase = "refreshing"]
    BY <1>3 DEF SaveHandled, SaveSucceeds
  <2>2. saving' \in SaveState /\ saving'.id = saving.id /\ saving'.of = saving.of /\ saving'.add = saving.add
    BY <1>0, <2>1 DEF SaveState
  <2> QED BY <2>1, <2>2 DEF SaveInv
<1>4. CASE SaveReported \/ SaveFails
  <2>1. saving' = NoSave
    BY <1>4 DEF SaveReported, SaveFails
  <2> QED BY <1>0, <2>1 DEF NoSave, SaveState, SaveInv
<1> QED BY <1>1, <1>2, <1>3, <1>4, ChangesWhere DEF SaveStep

LEMMA DeleteKept ==
    ASSUME DashboardTypes, DashboardNext PROVE deleting' \in SaveState
<1>0. MaxDomains \in Nat /\ 0 \in 0..MaxDomains /\ deleting \in SaveState
  BY DashboardAssumption DEF DashboardTypes
<1>1. CASE DeleteHandled
  <2>1. PICK next \in {"done", "refused"} : deleting' = [deleting EXCEPT !.phase = next]
    BY <1>1 DEF DeleteHandled
  <2> QED BY <1>0, <2>1 DEF SaveState
<1>2. ASSUME NEW d \in 1..MaxDomains, DeleteDomain(d) PROVE deleting' \in SaveState
  <2>1. deleting' = [phase |-> "sent", id |-> d, of |-> 0, add |-> FALSE]
    BY <1>2 DEF DeleteDomain, NoSave
  <2>2. d \in 0..MaxDomains
    BY <1>0, <1>2
  <2> QED BY <1>0, <2>1, <2>2 DEF SaveState
<1>3. CASE DeleteSettles
  BY <1>0, <1>3 DEF DeleteSettles, NoSave, SaveState
<1> QED BY <1>0, <1>1, <1>2, <1>3, ChangesWhere DEF DeleteStep

-----------------------------------------------------------------------------
(* The job and its log *)

LEMMA LogGrows ==
    ASSUME NEW l \in Seq(JobEvent), NEW e \in JobEvent, NEW m, m = Append(l, e)
    PROVE  /\ m \in Seq(JobEvent) /\ Len(m) = Len(l) + 1 /\ Len(l) \in Nat
           /\ \A i \in 1..Len(l) : m[i] = l[i]
           /\ m[Len(l) + 1] = e
           /\ \A i \in 1..Len(m) : i \in 1..Len(l) \/ i = Len(m)
  OBVIOUS

LEMMA EventTyped ==
    ASSUME job \in JobState, NEW type, NEW d, NEW status, NEW ok, NEW bad,
           d \in 0..MaxDomains, ok \in Nat, bad \in Nat
    PROVE  /\ (/\ type \in {"domain.started", "domain.completed", "job.completed"}
               /\ status \in {"running", "healthy", "error", "none"}) => Event(type, d, status, ok, bad) \in JobEvent
           /\ Event(type, d, status, ok, bad).id = d
           /\ Event(type, d, status, ok, bad).type = type
           /\ Event(type, d, status, ok, bad).status = status
           /\ Event(type, d, status, ok, bad).counts = Progress(job.total, ok + bad, ok, bad)
<1>1. job.total \in Nat /\ ok + bad \in Nat /\ d \in Nat
  BY DashboardAssumption DEF JobState
<1>2. Progress(job.total, ok + bad, ok, bad) \in JobCounts
  BY <1>1 DEF Progress, JobCounts
<1>3. Event(type, d, status, ok, bad)
        = [type |-> type, id |-> d, status |-> status, counts |-> Progress(job.total, ok + bad, ok, bad)]
  BY DEF Event
<1> HIDE DEF Progress
<1> QED BY <1>1, <1>2, <1>3 DEF JobEvent

JobInv == job \in JobState /\ LogInv /\ SingleInv

LEMMA JobBegins ==
    ASSUME DashboardTypes, CheckStarts, JobInv PROVE JobInv'
<1> DEFINE targets == IF check.mode = "all" THEN DOMAIN domainRows ELSE {check.id} \cap DOMAIN domainRows
<1>0. MaxDomains \in Nat /\ check \in CheckState /\ DOMAIN domainRows \subseteq 1..MaxDomains
  BY DashboardAssumption, TableType DEF DashboardTypes
<1>1. CASE job' = job
  BY <1>1 DEF JobInv, LogInv, SingleInv, CompletedAt, ToldAt, FinalCounts
<1>2. CASE job' # job
  <2>1. targets # {} /\ job' = [NoJob EXCEPT !.phase = "running", !.mode = check.mode, !.todo = targets,
                                             !.total = Cardinality(targets)]
    BY <1>2 DEF CheckStarts
  <2>2. targets \subseteq 1..MaxDomains
    BY <1>0
  <2>3. IsFiniteSet(targets)
    <3>1. IsFiniteSet(1..MaxDomains)
      BY <1>0, FS_Interval
    <3> HIDE DEF targets
    <3> QED BY <2>2, <3>1, FS_Subset
  <2>4. Cardinality(targets) \in Nat
    <3> HIDE DEF targets
    <3> QED BY <2>3, FS_CardinalityType
  <2>5. check.mode = "single" => Cardinality(targets) = 1 /\ targets = {check.id}
    <3>1. check.mode = "single" => targets = {check.id}
      BY <2>1
    <3>2. Cardinality({check.id}) = 1
      BY FS_Singleton
    <3> HIDE DEF targets
    <3> QED BY <3>1, <3>2
  <2> HIDE DEF targets
  <2>6. check.mode \in {"none", "single", "all"}
    BY <1>0 DEF CheckState
  <2>7. job' = [phase |-> "running", mode |-> check.mode, todo |-> targets, active |-> {}, log |-> <<>>,
                total |-> Cardinality(targets), succeeded |-> 0, failed |-> 0]
    BY <2>1 DEF NoJob
  <2>8. job' \in JobState
    BY <2>2, <2>4, <2>6, <2>7 DEF JobState
  <2>9. LogInv'
    <3>1. Cardinality(targets) # 0
      BY <2>1, <2>3, FS_EmptySet
    <3>2. Cardinality(targets) > 0
      BY <2>4, <3>1
    <3> QED BY <2>7, <3>2 DEF LogInv, CompletedAt, ToldAt
  <2>10. ASSUME job'.mode = "single" PROVE \E d \in 1..MaxDomains : job'.todo \cup job'.active \subseteq {d}
    <3>1. targets = {check.id} /\ check.id \in 1..MaxDomains
      BY <2>2, <2>5, <2>7, <2>10
    <3> QED BY <2>7, <3>1
  <2>11. SingleInv'
    BY <2>5, <2>7, <2>10 DEF SingleInv, CompletedAt
  <2> QED BY <2>8, <2>9, <2>11 DEF JobInv
<1> QED BY <1>1, <1>2

LEMMA JobTakesOne ==
    ASSUME JobInv, NEW d \in 1..MaxDomains, JobStarts(d) PROVE JobInv'
<1> DEFINE event == Event("domain.started", d, "running", job.succeeded, job.failed)
<1>0. job \in JobState /\ MaxDomains \in Nat /\ d \in 0..MaxDomains
  BY DashboardAssumption DEF JobInv
<1>1. PICK e : e = event
  OBVIOUS
<1>2. PICK m : m = Append(job.log, e)
  OBVIOUS
<1>3. /\ job.phase = "running" /\ d \in job.todo
      /\ job' = [job EXCEPT !.todo = @ \ {d}, !.active = @ \cup {d}, !.log = m]
  BY <1>1, <1>2 DEF JobStarts
<1>4. e \in JobEvent /\ e.type = "domain.started"
  BY <1>0, <1>1, EventTyped DEF JobState
<1>5. /\ job'.phase = "running" /\ job'.mode = job.mode /\ job'.todo = job.todo \ {d} /\ job'.active = job.active \cup {d}
      /\ job'.log = m /\ job'.total = job.total /\ job'.succeeded = job.succeeded /\ job'.failed = job.failed
  BY <1>0, <1>3 DEF JobState
<1>6. /\ m \in Seq(JobEvent) /\ Len(m) = Len(job.log) + 1 /\ Len(job.log) \in Nat
      /\ \A i \in 1..Len(job.log) : m[i] = job.log[i]
      /\ m[Len(m)] = e
      /\ \A i \in 1..Len(m) : i \in 1..Len(job.log) \/ i = Len(m)
  BY <1>0, <1>2, <1>4, LogGrows DEF JobState
<1>7. job' \in JobState
  BY <1>0, <1>3, <1>6 DEF JobState
<1>8. LogInv'
  <2>1. \A i \in 1..Len(job.log) : job.log[i].type # "job.completed"
    BY <1>3 DEF JobInv, LogInv
  <2>2. \A i \in 1..Len(m) : m[i].type # "job.completed"
    BY <1>4, <1>6, <2>1
  <2>3. \A i \in 1..Len(job.log) :
          job.log[i].type = "domain.completed" /\ job.log[i].id = 0 => job.log[i].status = "error"
    BY DEF JobInv, LogInv, CompletedAt, ToldAt
  <2>4. \A i \in 1..Len(m) : m[i].type = "domain.completed" /\ m[i].id = 0 => m[i].status = "error"
    BY <1>4, <1>6, <2>3
  <2>5. job.total > 0
    BY <1>3 DEF JobInv, LogInv
  <2> QED BY <1>5, <2>2, <2>4, <2>5 DEF LogInv, CompletedAt, ToldAt
<1>9. SingleInv'
  <2>1. SUFFICES ASSUME job.mode = "single" PROVE SingleInv'
    BY <1>5 DEF SingleInv
  <2>2. /\ job.total = 1 /\ \A i \in 1..Len(job.log) : job.log[i].type # "domain.completed"
        /\ job.succeeded = 0 /\ job.failed = 0
        /\ job.todo \cap job.active = {} /\ \E c \in 1..MaxDomains : job.todo \cup job.active \subseteq {c}
    BY <1>3, <2>1 DEF JobInv, SingleInv, CompletedAt
  <2>3. \A i \in 1..Len(m) : m[i].type # "domain.completed"
    BY <1>4, <1>6, <2>2
  <2>4. job'.todo \cap job'.active = {} /\ \E c \in 1..MaxDomains : job'.todo \cup job'.active \subseteq {c}
    BY <1>3, <1>5, <2>2
  <2> QED BY <1>5, <2>2, <2>3, <2>4 DEF SingleInv, CompletedAt
<1> QED BY <1>7, <1>8, <1>9 DEF JobInv

LEMMA JobFinishesOne ==
    ASSUME JobInv, NEW d \in 1..MaxDomains, NEW s \in {"healthy", "error"}, JobCompletes(d, s) PROVE JobInv'
<1> DEFINE there == d \in DOMAIN domainRows
           good  == there /\ s = "healthy"
           event(ok, bad) == IF there THEN Event("domain.completed", d, s, ok, bad)
                             ELSE Event("domain.completed", 0, "error", ok, bad)
<1>0. job \in JobState /\ MaxDomains \in Nat /\ d \in 0..MaxDomains /\ 0 \in 0..MaxDomains
      /\ job.succeeded \in Nat /\ job.failed \in Nat
  BY DashboardAssumption DEF JobInv, JobState
<1>1. PICK ok \in Nat, bad \in Nat : /\ ok = job.succeeded + (IF good THEN 1 ELSE 0)
                                     /\ bad = job.failed + (IF good THEN 0 ELSE 1)
  BY <1>0
<1>2. PICK e : e = event(ok, bad)
  OBVIOUS
<1>3. PICK m : m = Append(job.log, e)
  OBVIOUS
<1>4. /\ job.phase = "running" /\ d \in job.active
      /\ job' = [job EXCEPT !.active = @ \ {d}, !.succeeded = ok, !.failed = bad, !.log = m]
  BY <1>1, <1>2, <1>3 DEF JobCompletes
<1>5. e \in JobEvent /\ e.type = "domain.completed" /\ (e.status = "healthy" <=> good) /\ (e.id = 0 => e.status = "error")
  <2>1. CASE there
    <3>1. e = Event("domain.completed", d, s, ok, bad)
      BY <1>2, <2>1
    <3>2. s \in {"running", "healthy", "error", "none"} /\ d # 0
      BY <1>0
    <3> QED BY <1>0, <2>1, <3>1, <3>2, EventTyped
  <2>2. CASE ~there
    <3>1. e = Event("domain.completed", 0, "error", ok, bad)
      BY <1>2, <2>2
    <3> QED BY <1>0, <2>2, <3>1, EventTyped
  <2> QED BY <2>1, <2>2
<1> HIDE DEF event, good
<1>6. /\ job'.phase = "running" /\ job'.mode = job.mode /\ job'.todo = job.todo /\ job'.active = job.active \ {d}
      /\ job'.log = m /\ job'.total = job.total /\ job'.succeeded = ok /\ job'.failed = bad
  BY <1>0, <1>4 DEF JobState
<1>7. /\ m \in Seq(JobEvent) /\ Len(m) = Len(job.log) + 1 /\ Len(job.log) \in Nat
      /\ \A i \in 1..Len(job.log) : m[i] = job.log[i]
      /\ m[Len(m)] = e
      /\ \A i \in 1..Len(m) : i \in 1..Len(job.log) \/ i = Len(m)
  BY <1>0, <1>3, <1>5, LogGrows DEF JobState
<1>8. job' \in JobState
  BY <1>0, <1>4, <1>7 DEF JobState
<1>9. LogInv'
  <2>1. \A i \in 1..Len(job.log) : job.log[i].type # "job.completed"
    BY <1>4 DEF JobInv, LogInv
  <2>2. \A i \in 1..Len(m) : m[i].type # "job.completed"
    BY <1>5, <1>7, <2>1
  <2>3. \A i \in 1..Len(job.log) :
          job.log[i].type = "domain.completed" /\ job.log[i].id = 0 => job.log[i].status = "error"
    BY DEF JobInv, LogInv, CompletedAt, ToldAt
  <2>4. \A i \in 1..Len(m) : m[i].type = "domain.completed" /\ m[i].id = 0 => m[i].status = "error"
    BY <1>5, <1>7, <2>3
  <2>5. job.total > 0
    BY <1>4 DEF JobInv, LogInv
  <2> QED BY <1>6, <2>2, <2>4, <2>5 DEF LogInv, CompletedAt, ToldAt
<1>10. SingleInv'
  <2>1. SUFFICES ASSUME job.mode = "single" PROVE SingleInv'
    BY <1>6 DEF SingleInv
  <2>2. /\ job.total = 1 /\ \A i \in 1..Len(job.log) : job.log[i].type # "domain.completed"
        /\ job.succeeded = 0 /\ job.failed = 0
        /\ job.todo \cap job.active = {} /\ \E c \in 1..MaxDomains : job.todo \cup job.active \subseteq {c}
    BY <1>4, <2>1 DEF JobInv, SingleInv, CompletedAt
  <2>3. job'.todo = {} /\ job'.active = {}
    BY <1>4, <1>6, <2>2
  <2>4. ok + bad = 1 /\ (ok = 1 <=> good)
    BY <1>1, <2>2
  <2>5. \A i \in 1..Len(m) : m[i].type = "domain.completed" => (m[i].status = "healthy" <=> ok = 1)
    BY <1>5, <1>7, <2>2, <2>4
  <2>6. Len(m) \in 1..Len(m) /\ m[Len(m)].type = "domain.completed"
    BY <1>5, <1>7
  <2> QED BY <1>6, <2>2, <2>3, <2>4, <2>5, <2>6 DEF SingleInv, CompletedAt
<1> QED BY <1>8, <1>9, <1>10 DEF JobInv

LEMMA JobStops ==
    ASSUME JobInv, JobEnds PROVE JobInv'
<1>0. job \in JobState /\ MaxDomains \in Nat /\ 0 \in 0..MaxDomains
      /\ job.succeeded \in Nat /\ job.failed \in Nat /\ job.total \in Nat
  BY DashboardAssumption DEF JobInv, JobState
<1>1. PICK left \in Nat : left = job.total - job.succeeded - job.failed
  BY <1>0 DEF JobEnds
<1>2. PICK e : e = Event("job.completed", 0, "none", job.succeeded, job.failed + left)
  OBVIOUS
<1>3. PICK m : m = Append(job.log, e)
  OBVIOUS
<1>4. /\ job.phase = "running"
      /\ job' = [job EXCEPT !.phase = "done", !.todo = {}, !.active = {}, !.failed = job.failed + left, !.log = m]
  BY <1>1, <1>2, <1>3 DEF JobEnds
<1>5. /\ e \in JobEvent /\ e.type = "job.completed"
      /\ e.counts = Progress(job.total, job.succeeded + (job.failed + left), job.succeeded, job.failed + left)
  <2>1. job.failed + left \in Nat
    BY <1>0
  <2> QED BY <1>0, <1>2, <2>1, EventTyped
<1>6. /\ job'.phase = "done" /\ job'.mode = job.mode /\ job'.todo = {} /\ job'.active = {}
      /\ job'.log = m /\ job'.total = job.total /\ job'.succeeded = job.succeeded /\ job'.failed = job.failed + left
  BY <1>0, <1>4 DEF JobState
<1>7. /\ m \in Seq(JobEvent) /\ Len(m) = Len(job.log) + 1 /\ Len(job.log) \in Nat
      /\ \A i \in 1..Len(job.log) : m[i] = job.log[i]
      /\ m[Len(m)] = e
      /\ \A i \in 1..Len(m) : i \in 1..Len(job.log) \/ i = Len(m)
  BY <1>0, <1>3, <1>5, LogGrows DEF JobState
<1>8. job' \in JobState
  <2>1. job.failed + left \in Nat
    BY <1>0
  <2> QED BY <1>0, <1>4, <1>7, <2>1 DEF JobState
<1>9. LogInv'
  <2>1. \A i \in 1..Len(job.log) : job.log[i].type # "job.completed"
    BY <1>4 DEF JobInv, LogInv
  <2>2. \A i \in 1..Len(m) : m[i].type = "job.completed" => i = Len(m) /\ m[i] = e
    BY <1>7, <2>1
  <2>3. \A i \in 1..Len(job.log) :
          job.log[i].type = "domain.completed" /\ job.log[i].id = 0 => job.log[i].status = "error"
    BY DEF JobInv, LogInv, CompletedAt, ToldAt
  <2>4. \A i \in 1..Len(m) : m[i].type = "domain.completed" /\ m[i].id = 0 => m[i].status = "error"
    BY <1>5, <1>7, <2>3
  <2>5. job.total > 0
    BY <1>4 DEF JobInv, LogInv
  <2>6. job'.succeeded + job'.failed = job'.total
    BY <1>0, <1>1, <1>6
  <2>7. e.counts = FinalCounts'
    BY <1>5, <1>6 DEF FinalCounts, Progress
  <2> QED BY <1>6, <2>2, <2>6, <2>7, <2>4, <2>5 DEF LogInv, CompletedAt, ToldAt
<1>10. SingleInv'
  <2>1. SUFFICES ASSUME job.mode = "single" PROVE SingleInv'
    BY <1>6 DEF SingleInv
  <2>2. m[Len(m)].type # "domain.completed"
    BY <1>5, <1>7
  <2>3. job.total = 1
    BY <2>1 DEF JobInv, SingleInv
  <2>4. CASE job.succeeded = 0 /\ \A i \in 1..Len(job.log) : job.log[i].type # "domain.completed"
    <3>1. \A i \in 1..Len(m) : m[i].type # "domain.completed"
      BY <1>7, <2>2, <2>4
    <3>2. 1 \in 1..MaxDomains
      <4>1. \E d \in 1..MaxDomains : TRUE
        BY <1>4, <2>1, <2>4 DEF JobInv, SingleInv, CompletedAt
      <4> QED BY <1>0, <4>1
    <3> QED BY <1>6, <2>3, <2>4, <3>1, <3>2 DEF SingleInv, CompletedAt
  <2>5. CASE /\ job.succeeded + job.failed = 1
             /\ \A i \in 1..Len(job.log) : job.log[i].type = "domain.completed" =>
                    (job.log[i].status = "healthy" <=> job.succeeded = 1)
             /\ \E i \in 1..Len(job.log) : job.log[i].type = "domain.completed"
    <3>1. left = 0
      BY <1>0, <1>1, <2>3, <2>5
    <3>2. \A i \in 1..Len(m) : m[i].type = "domain.completed" => (m[i].status = "healthy" <=> job.succeeded = 1)
      BY <1>7, <2>2, <2>5
    <3>3. \E i \in 1..Len(m) : m[i].type = "domain.completed"
      BY <1>7, <2>5
    <3>4. job'.succeeded + job'.failed = 1
      BY <1>0, <1>6, <2>5, <3>1
    <3> QED BY <1>6, <2>3, <3>2, <3>3, <3>4 DEF SingleInv, CompletedAt
  <2> QED BY <2>1, <2>4, <2>5 DEF JobInv, SingleInv, CompletedAt
<1> QED BY <1>8, <1>9, <1>10 DEF JobInv

LEMMA JobKept ==
    ASSUME DashboardTypes, JobInv, DashboardNext PROVE JobInv'
<1>1. CASE job' = job
  BY <1>1 DEF JobInv, LogInv, SingleInv, CompletedAt, ToldAt, FinalCounts
<1>2. CASE CheckStarts
  BY <1>2, JobBegins
<1>3. CASE JobEnds
  BY <1>3, JobStops
<1>4. ASSUME NEW d \in 1..MaxDomains, JobStarts(d) PROVE JobInv'
  BY <1>4, JobTakesOne
<1>5. ASSUME NEW d \in 1..MaxDomains, NEW s \in {"healthy", "error"}, JobCompletes(d, s) PROVE JobInv'
  BY <1>5, JobFinishesOne
<1> QED BY <1>1, <1>2, <1>3, <1>4, <1>5, ChangesWhere DEF JobStep

-----------------------------------------------------------------------------
(* The check the page follows *)

CheckInv == check \in CheckState /\ FollowInv /\ ModeInv /\ LeavesInv

CheckSame == UNCHANGED <<checkProgress, domainCheckStates, check>>

\* While the page follows it, the log of its job only grows.
LEMMA LogOnlyGrows ==
    ASSUME JobInv, JobGoesOn
    PROVE  /\ job.phase = "running" /\ job'.phase # "none" /\ job'.mode = job.mode
           /\ Len(job.log) \in Nat /\ Len(job'.log) = Len(job.log) + 1
           /\ \A i \in 1..Len(job.log) : job'.log[i] = job.log[i]
<1> DEFINE Grown(e) == job'.log = Append(job.log, e)
<1>0. job \in JobState /\ job.log \in Seq(JobEvent)
  BY DEF JobInv, JobState
<1>1. job.phase = "running" /\ job'.phase # "none" /\ job'.mode = job.mode /\ \E e : Grown(e)
  <2>1. CASE JobEnds
    BY <1>0, <2>1 DEF JobEnds, JobState
  <2>2. ASSUME NEW d \in 1..MaxDomains, JobStarts(d)
        PROVE  job.phase = "running" /\ job'.phase # "none" /\ job'.mode = job.mode /\ \E e : Grown(e)
    BY <1>0, <2>2 DEF JobStarts, JobState
  <2>3. ASSUME NEW d \in 1..MaxDomains, NEW s \in {"healthy", "error"}, JobCompletes(d, s)
        PROVE  job.phase = "running" /\ job'.phase # "none" /\ job'.mode = job.mode /\ \E e : Grown(e)
    BY <1>0, <2>3 DEF JobCompletes, JobState
  <2> QED BY <2>1, <2>2, <2>3 DEF JobGoesOn
<1>2. PICK e : job'.log = Append(job.log, e)
  BY <1>1
<1> QED BY <1>0, <1>1, <1>2

LEMMA FollowsGrowingLog ==
    ASSUME DashboardTypes, JobInv, CheckInv, JobGoesOn, CheckSame, onDashboard' = onDashboard PROVE CheckInv'
<1>0. check' = check /\ check \in CheckState
  BY DEF CheckSame, CheckInv
<1>1. /\ job.phase = "running" /\ job'.phase # "none" /\ job'.mode = job.mode
      /\ Len(job.log) \in Nat /\ Len(job'.log) = Len(job.log) + 1
      /\ \A i \in 1..Len(job.log) : job'.log[i] = job.log[i]
  BY LogOnlyGrows
<1>2. LeavesInv' /\ ModeInv' /\ check' \in CheckState
  BY <1>0 DEF CheckInv, LeavesInv, CheckLeavesNothing, ModeInv, CheckSame
<1>3. FollowInv'
  <2>1. SUFFICES ASSUME check.phase = "streaming" PROVE FollowInv'
    BY <1>0 DEF FollowInv
  <2>2. /\ check.mode = job.mode /\ check.mode # "none" /\ check.read <= Len(job.log)
        /\ check.final = <<>>
        /\ \/ check.result = "none" /\ \A i \in 1..check.read : ~ToldAt(i)
           \/ \E i \in 1..check.read : ToldAt(i) /\ check.result = job.log[i].status
    BY <1>1, <2>1 DEF CheckInv, FollowInv
  <2>3. check.read \in Nat
    BY <1>0 DEF CheckState
  <2>4. \A i \in 1..check.read : job'.log[i] = job.log[i] /\ (ToldAt(i)' <=> ToldAt(i))
    BY <1>1, <2>2, <2>3 DEF ToldAt, CompletedAt
  <2>5. check.read <= Len(job'.log)
    BY <1>1, <2>2, <2>3
  <2>6. \/ check.result = "none" /\ \A i \in 1..check.read : ~ToldAt(i)'
        \/ \E i \in 1..check.read : ToldAt(i)' /\ check.result = job'.log[i].status
    BY <2>2, <2>4
  <2> QED BY <1>0, <1>1, <2>2, <2>5, <2>6 DEF FollowInv
<1> QED BY <1>2, <1>3 DEF CheckInv

\* The page's own steps; the job stands still, or is the one they have just started.
LEMMA CheckEnded ==
    ASSUME EndCheck, DashboardAssumption PROVE CheckInv'
<1>1. check' = NoCheck /\ checkProgress' = <<>> /\ domainCheckStates' = NoStates
  BY DEF EndCheck
<1>2. check' \in CheckState /\ check'.phase = "idle"
  <2>1. <<>> \in Seq(JobCounts)
    OBVIOUS
  <2> QED BY <1>1, <2>1 DEF NoCheck, CheckState
<1> QED BY <1>1, <1>2 DEF CheckInv, FollowInv, ModeInv, LeavesInv, CheckLeavesNothing

LEMMA CheckAsked ==
    ASSUME DashboardTypes, HandleCheckAll \/ \E d \in 1..MaxDomains : HandleDomainCheck(d) PROVE CheckInv'
<1>1. MaxDomains \in Nat /\ <<>> \in Seq(JobCounts)
  BY DashboardAssumption
<1>2. checkProgress' # <<>>
  <2>1. \E p : checkProgress' = <<p>>
    BY DEF HandleCheckAll, HandleDomainCheck
  <2> QED BY <2>1
<1>3. onDashboard' /\ \E m \in {"single", "all"}, c \in 0..MaxDomains :
        check' = [phase |-> "starting", mode |-> m, id |-> c, read |-> 0, result |-> "none", final |-> <<>>]
  <2>1. CASE HandleCheckAll
    <3>1. onDashboard' /\ check' = [phase |-> "starting", mode |-> "all", id |-> 0, read |-> 0,
                                    result |-> "none", final |-> <<>>]
      BY <2>1 DEF HandleCheckAll, NoCheck
    <3>2. 0 \in 0..MaxDomains /\ "all" \in {"single", "all"}
      BY <1>1
    <3> QED BY <3>1, <3>2
  <2>2. ASSUME NEW d \in 1..MaxDomains, HandleDomainCheck(d)
        PROVE  onDashboard' /\ check' = [phase |-> "starting", mode |-> "single", id |-> d, read |-> 0,
                                         result |-> "none", final |-> <<>>]
    BY <2>2 DEF HandleDomainCheck, NoCheck
  <2>3. \A d \in 1..MaxDomains : d \in 0..MaxDomains
    BY <1>1
  <2> QED BY <2>1, <2>2, <2>3
<1>4. /\ check' \in CheckState /\ check'.phase = "starting" /\ check'.mode # "none"
      /\ check'.read = 0 /\ check'.result = "none" /\ check'.final = <<>>
  BY <1>1, <1>3 DEF CheckState
<1> QED BY <1>3, <1>4, <1>2 DEF CheckInv, FollowInv, ModeInv, LeavesInv, CheckLeavesNothing

LEMMA CheckFollowsItsJob ==
    ASSUME DashboardTypes, JobInv, CheckInv, CheckStarts PROVE CheckInv'
<1>1. CASE EndCheck
  BY <1>1, CheckEnded, DashboardAssumption
<1>2. CASE ~EndCheck
  <2>1. /\ check.phase = "starting" /\ onDashboard' = onDashboard
        /\ check' = [check EXCEPT !.phase = "streaming"]
        /\ job'.phase = "running" /\ job'.mode = check.mode /\ job'.log = <<>>
    BY <1>2 DEF CheckStarts, NoJob
  <2>2. /\ check \in CheckState /\ check.mode # "none" /\ onDashboard
        /\ check.read = 0 /\ check.result = "none" /\ check.final = <<>>
    BY <2>1 DEF CheckInv, ModeInv, LeavesInv, DashboardTypes
  <2>3. check' \in CheckState
    BY <2>1, <2>2 DEF CheckState
  <2>4. /\ check'.phase = "streaming" /\ check'.mode = check.mode
        /\ check'.read = 0 /\ check'.result = "none" /\ check'.final = <<>>
    BY <2>1, <2>2 DEF CheckState
  <2>5. Len(job'.log) = 0
    BY <2>1
  <2>6. FollowInv'
    BY <2>1, <2>2, <2>4, <2>5 DEF FollowInv
  <2>7. checkProgress' # <<>>
    <3>1. \E p : checkProgress' = <<p>>
      BY <1>2 DEF CheckStarts
    <3> QED BY <3>1
  <2>8. ModeInv' /\ LeavesInv'
    BY <2>1, <2>2, <2>4, <2>7 DEF ModeInv, LeavesInv, CheckLeavesNothing
  <2> QED BY <2>3, <2>6, <2>8 DEF CheckInv
<1> QED BY <1>1, <1>2

LEMMA CheckReadsOn ==
    ASSUME DashboardTypes, JobInv, CheckInv, StreamEvent PROVE CheckInv'
<1> DEFINE e == job.log[check.read + 1]
           result == IF e.type = "domain.completed" /\ e.id # 0 THEN e.status ELSE check.result
           final  == IF e.type = "job.completed" THEN <<e.counts>> ELSE check.final
<1>1. /\ check \in CheckState /\ check.read \in Nat /\ job.log \in Seq(JobEvent) /\ Len(job.log) \in Nat
      /\ check.phase = "streaming" /\ check.read < Len(job.log) /\ check.final = <<>>
      /\ onDashboard' = onDashboard /\ job' = job
      /\ check' = [check EXCEPT !.read = @ + 1, !.result = result, !.final = final]
  BY DEF CheckInv, CheckState, JobInv, JobState, StreamEvent
<1>2. PICK n \in Nat : n = check.read + 1
  BY <1>1
<1>3. n \in 1..Len(job.log) /\ e = job.log[n] /\ e \in JobEvent
  BY <1>1, <1>2
<1>4. /\ e.status \in {"running", "healthy", "error", "none"} /\ e.counts \in JobCounts
      /\ (e.type = "domain.completed" /\ e.id # 0 <=> ToldAt(n))
  BY <1>3 DEF JobEvent, ToldAt, CompletedAt
<1> HIDE DEF e
<1>5. result \in {"none", "running", "healthy", "error"} /\ final \in Seq(JobCounts)
  BY <1>1, <1>4 DEF CheckState
<1>6. check' \in CheckState
  BY <1>1, <1>2, <1>5 DEF CheckState
<1>7. /\ check'.phase = "streaming" /\ check'.mode = check.mode /\ check'.read = n
      /\ check'.result = result /\ check'.final = final
  BY <1>1, <1>2 DEF CheckState
<1>8. FollowInv'
  <2>1. /\ job.phase # "none" /\ check.mode = job.mode /\ check.mode # "none"
        /\ \/ check.result = "none" /\ \A i \in 1..check.read : ~ToldAt(i)
           \/ \E i \in 1..check.read : ToldAt(i) /\ check.result = job.log[i].status
    BY <1>1 DEF CheckInv, FollowInv
  <2>2. \A i \in 1..n : i \in 1..check.read \/ i = n
    BY <1>1, <1>2
  <2>3. \A i \in 1..check.read : i \in 1..n
    BY <1>1, <1>2
  <2>4. \/ result = "none" /\ \A i \in 1..n : ~ToldAt(i)
        \/ \E i \in 1..n : ToldAt(i) /\ result = job.log[i].status
    <3>1. CASE ToldAt(n)
      BY <1>2, <1>3, <1>4, <3>1
    <3>2. CASE ~ToldAt(n)
      BY <1>4, <2>1, <2>2, <2>3, <3>2
    <3> QED BY <3>1, <3>2
  <2>5. final # <<>> => job.phase = "done" /\ n = Len(job.log) /\ final = <<FinalCounts>>
    <3>1. CASE e.type = "job.completed"
      BY <1>3, <3>1 DEF JobInv, LogInv
    <3>2. CASE e.type # "job.completed"
      BY <1>1, <3>2
    <3> QED BY <3>1, <3>2
  <2>6. \A i \in 1..n : ToldAt(i)' <=> ToldAt(i)
    BY <1>1 DEF ToldAt, CompletedAt
  <2>7. FinalCounts' = FinalCounts
    BY <1>1 DEF FinalCounts, Progress
  <2> HIDE DEF result, final, FinalCounts
  <2> QED BY <1>1, <1>3, <1>7, <2>1, <2>4, <2>5, <2>6, <2>7 DEF FollowInv
<1>9. onDashboard
  BY <1>1 DEF CheckInv, LeavesInv, DashboardTypes
<1>10. checkProgress' # <<>>
  <2>1. \E p : checkProgress' = <<p>>
    BY DEF StreamEvent
  <2> QED BY <2>1
<1>11. ModeInv' /\ LeavesInv'
  BY <1>1, <1>7, <1>9, <1>10 DEF ModeInv, LeavesInv, CheckLeavesNothing
<1> QED BY <1>6, <1>8, <1>11 DEF CheckInv

LEMMA CheckReports ==
    ASSUME CheckInv, CheckReported PROVE CheckInv'
<1>1. check \in CheckState /\ check' = [check EXCEPT !.phase = "refreshing"] /\ onDashboard' = onDashboard
      /\ check.phase = "streaming"
  BY DEF CheckInv, CheckReported
<1>2. check' \in CheckState /\ check'.phase = "refreshing" /\ onDashboard /\ checkProgress' # <<>>
  BY <1>1 DEF CheckState, CheckInv, LeavesInv, CheckReported
<1> QED BY <1>1, <1>2 DEF CheckInv, FollowInv, ModeInv, LeavesInv, CheckLeavesNothing

LEMMA CheckKept ==
    ASSUME DashboardTypes, JobInv, CheckInv, DashboardNext PROVE CheckInv'
<1>1. CASE HandleCheckAll \/ \E d \in 1..MaxDomains : HandleDomainCheck(d)
  BY <1>1, CheckAsked
<1>2. CASE CheckStarts
  BY <1>2, CheckFollowsItsJob
<1>3. CASE StreamEvent
  BY <1>3, CheckReadsOn
<1>4. CASE CheckReported
  BY <1>4, CheckReports
<1>5. CASE LeavePage \/ StartFails \/ CheckEnds \/ StreamFails
  <2>1. EndCheck
    BY <1>5 DEF LeavePage, StartFails, CheckEnds, StreamFails
  <2> QED BY <2>1, CheckEnded, DashboardAssumption
<1>6. CASE CheckSame /\ JobGoesOn
  <2>1. onDashboard' = onDashboard
    BY <1>6 DEF JobGoesOn, JobStarts, JobCompletes, JobEnds
  <2> QED BY <1>6, <2>1, FollowsGrowingLog
<1>7. CASE CheckSame /\ job' = job /\ ReturnToPage
  <2>1. onDashboard'
    BY <1>7 DEF ReturnToPage
  <2> QED BY <1>7, <2>1 DEF CheckSame, CheckInv, FollowInv, ModeInv, LeavesInv, CheckLeavesNothing, ToldAt, CompletedAt, FinalCounts
<1>8. CASE CheckSame /\ job' = job /\ onDashboard' = onDashboard
  BY <1>8 DEF CheckSame, CheckInv, FollowInv, ModeInv, LeavesInv, CheckLeavesNothing, ToldAt, CompletedAt, FinalCounts
<1>9. CheckSame \/ CheckStep
  BY ChangesWhere DEF CheckSame
<1>10. (job' = job) \/ CheckStarts \/ JobGoesOn
  BY ChangesWhere DEF JobStep, JobGoesOn
<1>11. onDashboard' = onDashboard \/ LeavePage \/ ReturnToPage
  BY ChangesWhere DEF VisitStep
<1> QED BY <1>1, <1>2, <1>3, <1>4, <1>5, <1>6, <1>7, <1>8, <1>9, <1>10, <1>11 DEF CheckStep, Following

-----------------------------------------------------------------------------
(* What the queries hold *)

LEMMA QueryStays ==
    ASSUME NEW S, NoData \in S, NEW q \in QueryOf(S), NEW v \in S
    PROVE  /\ Started(q) \in QueryOf(S) /\ Joined(q) \in QueryOf(S) /\ Outdated(q) \in QueryOf(S)
           /\ Mounted(q) \in QueryOf(S) /\ Invalidated(q) \in QueryOf(S)
           /\ Answered(q, v) \in QueryOf(S) /\ Settled(q) \in QueryOf(S)
<1>1. /\ Started(q) \in QueryOf(S) /\ Joined(q) \in QueryOf(S) /\ Outdated(q) \in QueryOf(S)
      /\ Answered(q, v) \in QueryOf(S) /\ Settled(q) \in QueryOf(S)
  BY DEF QueryOf, Started, Joined, Outdated, Answered, Settled
<1> QED BY <1>1 DEF Mounted, Invalidated

\* A query that is fetched again, or said to be old, shows nothing that could be out of date.
LEMMA QueryRenewed ==
    ASSUME NEW S, NEW q \in QueryOf(S), NEW v, NEW r, r \in {Mounted(q), Invalidated(q), Outdated(q)}
    PROVE  UpToDate(r, v)
<1>1. Started(q).flight = "sent" /\ Outdated(q).old
  BY DEF QueryOf, Started, Outdated
<1>2. q.flight # "idle" => UpToDate(Joined(q), v)
  <2>1. Joined(q).flight = q.flight /\ (q.flight = "answered" => Joined(q).old)
    BY DEF QueryOf, Joined
  <2>2. q.flight \in {"idle", "sent", "answered"}
    BY DEF QueryOf
  <2> QED BY <2>1, <2>2 DEF UpToDate
<1>3. UpToDate(Started(q), v) /\ UpToDate(Outdated(q), v)
  BY <1>1 DEF UpToDate
<1> QED BY <1>2, <1>3 DEF Mounted, Invalidated

LEMMA QueryAnswers ==
    ASSUME NEW S, NEW q \in QueryOf(S), NEW v
    PROVE  /\ UpToDate(Answered(q, v), v)
           /\ q.flight = "answered" /\ UpToDate(q, v) => UpToDate(Settled(q), v)
<1>1. Answered(q, v).flight = "answered" /\ Answered(q, v).got = v
  BY DEF QueryOf, Answered
<1>2. Settled(q).flight = "idle" /\ Settled(q).data = q.got /\ Settled(q).old = q.old
  BY DEF QueryOf, Settled
<1> QED BY <1>1, <1>2 DEF UpToDate

LEMMA SummaryTyped ==
    ASSUME DashboardTypes PROVE Summary \in SummaryCounts /\ domainRows # NoData
<1>0. domainRows \in DomainTable /\ MaxDomains \in Nat /\ DOMAIN domainRows \subseteq 1..MaxDomains
  BY DashboardAssumption, TableType DEF DashboardTypes
<1>1. \A S \in SUBSET DOMAIN domainRows : Cardinality(S) \in Nat
  <2>1. IsFiniteSet(1..MaxDomains)
    BY <1>0, FS_Interval
  <2>2. \A S \in SUBSET (1..MaxDomains) : IsFiniteSet(S)
    BY <2>1, FS_Subset
  <2>3. \A S \in SUBSET (1..MaxDomains) : Cardinality(S) \in Nat
    BY <2>2, FS_CardinalityType
  <2> QED BY <1>0, <2>3
<1>2. Summary \in SummaryCounts
  <2>1. Cardinality(DOMAIN domainRows) \in Nat
    BY <1>1
  <2>2. Cardinality({d \in DOMAIN domainRows : domainRows[d].status = "healthy"}) \in Nat
    BY <1>1
  <2>3. Cardinality({d \in DOMAIN domainRows : domainRows[d].status = "error"}) \in Nat
    BY <1>1
  <2> QED BY <2>1, <2>2, <2>3 DEF Summary, SummaryCounts
<1>3. domainRows # NoData
  BY <1>0, DashboardAssumption DEF DomainTable, DomainRow
<1> QED BY <1>2, <1>3

Renewed(q, r) == r \in {Mounted(q), Invalidated(q), Outdated(q)}
BothRenewed   == Renewed(domainsQuery, domainsQuery') /\ Renewed(statusQuery, statusQuery')
ViewSame      == UNCHANGED <<domainRows, domainsQuery, statusQuery, onDashboard>>

LEMMA QueriesTyped ==
    ASSUME DashboardTypes, DashboardNext
    PROVE  domainsQuery' \in QueryOf(DomainTable \cup {NoData}) /\ statusQuery' \in QueryOf(SummaryCounts \cup {NoData})
<1> DEFINE D == DomainTable \cup {NoData}
           C == SummaryCounts \cup {NoData}
<1>0. domainsQuery \in QueryOf(D) /\ statusQuery \in QueryOf(C) /\ NoData \in D /\ NoData \in C
  BY DEF DashboardTypes
<1>1. domainRows \in D /\ Summary \in C
  BY SummaryTyped DEF DashboardTypes
<1> HIDE DEF D, C
<1>2. CASE UNCHANGED <<domainsQuery, statusQuery>>
  BY <1>0, <1>2 DEF D, C
<1>3. CASE BothRenewed
  BY <1>0, <1>3, QueryStays DEF D, C, BothRenewed, Renewed
<1>4. CASE Answers
  <2>1. \/ domainsQuery' \in {Answered(domainsQuery, domainRows), Settled(domainsQuery)} /\ statusQuery' = statusQuery
        \/ statusQuery' \in {Answered(statusQuery, Summary), Settled(statusQuery)} /\ domainsQuery' = domainsQuery
    BY <1>4 DEF Answers, DomainsAnswered, StatusAnswered, QueriesArrive, DomainList
  <2>2. Answered(domainsQuery, domainRows) \in QueryOf(D) /\ Settled(domainsQuery) \in QueryOf(D)
    BY <1>0, <1>1, QueryStays
  <2>3. Answered(statusQuery, Summary) \in QueryOf(C) /\ Settled(statusQuery) \in QueryOf(C)
    BY <1>0, <1>1, QueryStays
  <2> QED BY <1>0, <2>1, <2>2, <2>3 DEF D, C
<1>5. QueryStep => BothRenewed \/ Answers \/ UNCHANGED <<domainsQuery, statusQuery>>
  BY DEF QueryStep, BothRenewed, Renewed, SaveSucceeds, SaveFails, DeleteSettles, CheckReported, StreamFails,
         ReturnToPage, JobCompletes, RefreshMonitoringData, MonitoringOutdated, queryVars
<1> QED BY <1>2, <1>3, <1>4, <1>5, ChangesWhere

\* Every step that leaves the rows shown out of date is followed by another fetch.
LEMMA StepsAndViews ==
    ASSUME DashboardTypes, SaveInv, LeavesInv, DashboardNext
    PROVE  \/ Dirty' \/ ~onDashboard'
           \/ BothRenewed
           \/ Answers
           \/ ViewSame /\ (Dirty => Dirty')
<1> DEFINE Goal == \/ Dirty' \/ ~onDashboard'
                   \/ BothRenewed
                   \/ Answers
                   \/ ViewSame /\ (Dirty => Dirty')
<1> USE DEF formVars, queryVars, mutationVars, checkVars, ViewSame, Dirty
<1>0. saving \in SaveState /\ deleting \in SaveState /\ check \in CheckState /\ domainRows \in DomainTable
  BY DEF DashboardTypes
<1>1. ASSUME ToggleAddForm \/ CancelForm \/ DismissToast \/ \E d \in 1..MaxDomains : EditDomain(d) PROVE Goal
  BY <1>1 DEF ToggleAddForm, CancelForm, EditDomain, DismissToast
<1>2. ASSUME SubmitDomain PROVE Goal
  BY <1>2 DEF SubmitDomain
<1>3. ASSUME NEW d \in 1..MaxDomains, DeleteDomain(d) PROVE Goal
  BY <1>3 DEF DeleteDomain
<1>4. ASSUME HandleCheckAll \/ \E d \in 1..MaxDomains : HandleDomainCheck(d) PROVE Goal
  <2>1. checkProgress = <<>>
    BY <1>4 DEF HandleDomainCheck, HandleCheckAll
  <2>2. check.phase = "idle"
    BY <2>1 DEF LeavesInv
  <2> QED BY <1>4, <2>2 DEF HandleDomainCheck, HandleCheckAll
<1>5. ASSUME LeavePage PROVE Goal
  BY <1>5 DEF LeavePage
<1>6. ASSUME ReturnToPage PROVE Goal
  BY <1>6 DEF ReturnToPage, BothRenewed, Renewed
<1>7. ASSUME SaveHandled PROVE Goal
  <2>1. saving' = [saving EXCEPT !.phase = "done"] \/ (saving' = [saving EXCEPT !.phase = "refused"] /\ domainRows' = domainRows)
    BY <1>7 DEF SaveHandled
  <2>2. saving'.phase = "done" \/ domainRows' = domainRows
    BY <1>0, <2>1 DEF SaveState
  <2> QED BY <1>7, <2>2 DEF SaveHandled
<1>8. ASSUME SaveSucceeds \/ DeleteSettles \/ CheckReported PROVE Goal
  <2>1. CASE BothRenewed
    BY <2>1
  <2>2. CASE ~BothRenewed
    BY <1>8, <2>2 DEF SaveSucceeds, DeleteSettles, CheckReported, RefreshMonitoringData, BothRenewed, Renewed
  <2> QED BY <2>1, <2>2
<1>9. ASSUME SaveReported PROVE Goal
  BY <1>9 DEF SaveReported
<1>10. ASSUME SaveFails PROVE Goal
  BY <1>10 DEF SaveFails, MonitoringOutdated, BothRenewed, Renewed
<1>11. ASSUME DeleteHandled PROVE Goal
  <2>1. CASE deleting.id \in DOMAIN domainRows
    <3>1. deleting' = [deleting EXCEPT !.phase = "done"]
      BY <1>11, <2>1 DEF DeleteHandled
    <3> QED BY <1>0, <3>1 DEF SaveState
  <2>2. CASE deleting.id \notin DOMAIN domainRows
    <3>1. domainRows' = [d \in DOMAIN domainRows |-> domainRows[d]]
      BY <1>11, <2>2 DEF DeleteHandled
    <3>2. domainRows' = domainRows
      BY <1>0, <3>1, TableType
    <3> QED BY <1>11, <3>2 DEF DeleteHandled
  <2> QED BY <2>1, <2>2
<1>12. ASSUME CheckStarts PROVE Goal
  BY <1>0, <1>12 DEF CheckStarts, CheckState, EndCheck
<1>13. ASSUME StartFails \/ CheckEnds PROVE Goal
  BY <1>13 DEF StartFails, CheckEnds
<1>14. ASSUME StreamEvent PROVE Goal
  <2>1. check'.phase = "streaming"
    BY <1>0, <1>14 DEF StreamEvent, CheckState
  <2> QED BY <2>1
<1>15. ASSUME StreamFails PROVE Goal
  BY <1>15 DEF StreamFails, MonitoringOutdated, BothRenewed, Renewed
<1>16. ASSUME JobEnds \/ \E d \in 1..MaxDomains : JobStarts(d) PROVE Goal
  BY <1>16 DEF JobEnds, JobStarts
<1>17. ASSUME NEW d \in 1..MaxDomains, NEW s \in {"healthy", "error"}, JobCompletes(d, s) PROVE Goal
  BY <1>17 DEF JobCompletes, Followed, MonitoringOutdated, BothRenewed, Renewed
<1> HIDE DEF Goal
<1> QED
  <2>1. Answers => Goal
    BY DEF Goal
  <2>2. Goal
    BY <1>1, <1>2, <1>3, <1>4, <1>5, <1>6, <1>7, <1>8, <1>9, <1>10, <1>11, <1>12, <1>13, <1>14, <1>15, <1>16, <1>17,
       <2>1 DEF DashboardNext, Mutating, JobGoesOn, Following
  <2> QED BY <2>2 DEF Goal

LEMMA FreshKept ==
    ASSUME DashboardTypes, SaveInv, LeavesInv, FreshInv, DashboardNext PROVE FreshInv'
<1>0. domainsQuery \in QueryOf(DomainTable \cup {NoData}) /\ statusQuery \in QueryOf(SummaryCounts \cup {NoData})
  BY DEF DashboardTypes
<1>1. CASE Dirty' \/ ~onDashboard'
  BY <1>1 DEF FreshInv
<1>2. CASE BothRenewed
  <2>1. PICK rows, summary : rows = domainRows' /\ summary = Summary'
    OBVIOUS
  <2>2. UpToDate(domainsQuery', rows)
    BY <1>0, <1>2, QueryRenewed DEF BothRenewed, Renewed
  <2>3. UpToDate(statusQuery', summary)
    BY <1>0, <1>2, QueryRenewed DEF BothRenewed, Renewed
  <2> QED BY <2>1, <2>2, <2>3 DEF FreshInv, UpToDate
<1>3. CASE Answers
  <2>1. UNCHANGED <<domainRows, onDashboard, saving, deleting, check>>
    BY <1>3 DEF Answers, DomainsAnswered, StatusAnswered, QueriesArrive, mutationVars, checkVars
  <2>2. SUFFICES ASSUME onDashboard, ~Dirty PROVE FreshInv'
    BY <2>1 DEF FreshInv, Dirty
  <2>3. UpToDate(domainsQuery, domainRows) /\ UpToDate(statusQuery, Summary)
    BY <2>2 DEF FreshInv
  <2>4. Summary' = Summary
    BY <2>1 DEF Summary
  <2>5. \/ domainsQuery' = Answered(domainsQuery, domainRows) /\ statusQuery' = statusQuery
        \/ domainsQuery.flight = "answered" /\ domainsQuery' = Settled(domainsQuery) /\ statusQuery' = statusQuery
        \/ statusQuery' = Answered(statusQuery, Summary) /\ domainsQuery' = domainsQuery
        \/ statusQuery.flight = "answered" /\ statusQuery' = Settled(statusQuery) /\ domainsQuery' = domainsQuery
    BY <1>3 DEF Answers, DomainsAnswered, StatusAnswered, QueriesArrive, DomainList
  <2>6. PICK dq, sq : dq = domainsQuery' /\ sq = statusQuery'
    OBVIOUS
  <2>7. UpToDate(dq, domainRows) /\ UpToDate(sq, Summary)
    BY <1>0, <2>3, <2>5, <2>6, QueryAnswers
  <2> HIDE DEF Summary
  <2> QED BY <2>1, <2>4, <2>6, <2>7 DEF FreshInv, UpToDate
<1>4. CASE ViewSame /\ (Dirty => Dirty')
  <2>1. Summary' = Summary
    BY <1>4 DEF Summary, ViewSame
  <2> QED BY <1>4, <2>1 DEF FreshInv, ViewSame, UpToDate
<1> QED BY <1>1, <1>2, <1>3, <1>4, StepsAndViews

-----------------------------------------------------------------------------
(* The invariant *)

LEMMA DashboardInvInit == DashboardInit => DashboardInv
<1> SUFFICES ASSUME DashboardInit PROVE DashboardInv
  OBVIOUS
<1>0. MaxDomains \in Nat /\ DomainId \subseteq 1..MaxDomains /\ 0 \in 0..MaxDomains
  BY DashboardAssumption
<1>1. domainRows \in DomainTable /\ RowsInv
  <2>1. domainRows = [d \in DomainId |-> [of |-> d, status |-> "pending"]]
    BY DEF DashboardInit
  <2>2. \A d \in DomainId : d \in 0..MaxDomains
    BY <1>0
  <2>3. domainRows \in [DomainId -> DomainRow]
    BY <2>1, <2>2 DEF DomainRow
  <2> QED BY <1>0, <2>1, <2>3, TableIntro DEF RowsInv
<1>2. Blank \in QueryOf(DomainTable \cup {NoData}) /\ Blank \in QueryOf(SummaryCounts \cup {NoData})
  BY DEF Blank, QueryOf
<1>3. domainsQuery \in QueryOf(DomainTable \cup {NoData}) /\ statusQuery \in QueryOf(SummaryCounts \cup {NoData})
  BY <1>2, QueryStays DEF DashboardInit
<1>4. domainsQuery.flight = "sent" /\ statusQuery.flight = "sent"
  BY <1>2 DEF DashboardInit, Started, QueryOf
<1>5. domainForm \in FormState /\ ~domainForm.shown /\ saving \in SaveState /\ saving.phase = "idle" /\ deleting \in SaveState
  BY <1>0 DEF DashboardInit, NoForm, NoSave, FormState, SaveState
<1>6. /\ check \in CheckState /\ check.phase = "idle" /\ checkProgress = <<>> /\ domainCheckStates = NoStates
  <2>1. <<>> \in Seq(JobCounts)
    OBVIOUS
  <2> QED BY <2>1 DEF DashboardInit, NoCheck, CheckState
<1>7. job \in JobState /\ job.phase = "none" /\ job.mode = "none" /\ job.log = <<>>
  <2>1. <<>> \in Seq(JobEvent)
    OBVIOUS
  <2> QED BY <2>1 DEF DashboardInit, NoJob, JobState
<1>8. LogInv /\ SingleInv
  <2>1. Len(job.log) = 0
    BY <1>7
  <2> QED BY <1>7, <2>1 DEF LogInv, SingleInv
<1>9. FollowInv /\ ModeInv /\ LeavesInv
  BY <1>6 DEF FollowInv, ModeInv, LeavesInv, CheckLeavesNothing
<1>10. FreshInv
  BY <1>4 DEF FreshInv, UpToDate
<1>11. FormInv /\ SaveInv
  BY <1>5 DEF FormInv, SaveInv
<1>12. DashboardTypes
  BY <1>0, <1>1, <1>3, <1>5, <1>6, <1>7 DEF DashboardTypes, DashboardInit
<1> QED BY <1>1, <1>8, <1>9, <1>10, <1>11, <1>12 DEF DashboardInv

LEMMA DashboardInvNext ==
    ASSUME DashboardInv, DashboardNext PROVE DashboardInv'
<1>0. /\ DashboardTypes /\ FormInv /\ SaveInv /\ RowsInv /\ LogInv /\ SingleInv /\ FollowInv /\ ModeInv
      /\ FreshInv /\ LeavesInv
  BY DEF DashboardInv
<1>1. domainRows' \in DomainTable /\ RowsInv'
  BY <1>0, RowsKept
<1>2. /\ editingDomain' \in 0..MaxDomains /\ showAddForm' \in BOOLEAN /\ domainForm' \in FormState /\ FormInv'
  BY <1>0, FormKept
<1>3. saving' \in SaveState /\ SaveInv'
  BY <1>0, SaveKept
<1>4. deleting' \in SaveState
  BY <1>0, DeleteKept
<1>5. job' \in JobState /\ LogInv' /\ SingleInv'
  BY <1>0, JobKept DEF JobInv, DashboardTypes
<1>6. check' \in CheckState /\ FollowInv' /\ ModeInv' /\ LeavesInv'
  BY <1>0, CheckKept DEF CheckInv, JobInv, DashboardTypes
<1>7. domainsQuery' \in QueryOf(DomainTable \cup {NoData}) /\ statusQuery' \in QueryOf(SummaryCounts \cup {NoData})
  BY <1>0, QueriesTyped
<1>8. FreshInv'
  BY <1>0, FreshKept
<1>9. onDashboard' \in BOOLEAN
  BY <1>0, ChangesWhere DEF VisitStep, LeavePage, ReturnToPage, DashboardTypes
<1>10. DashboardTypes'
  BY <1>1, <1>2, <1>3, <1>4, <1>5, <1>6, <1>7, <1>9 DEF DashboardTypes
<1> QED BY <1>1, <1>2, <1>3, <1>5, <1>6, <1>8, <1>10 DEF DashboardInv

LEMMA DashboardInvStutter ==
    ASSUME DashboardInv, UNCHANGED dashboardVars PROVE DashboardInv'
<1>1. UNCHANGED <<domainRows, domainsQuery, statusQuery, onDashboard, editingDomain, showAddForm, domainForm,
                  saving, deleting, checkProgress, domainCheckStates, check, job>>
  BY DEF dashboardVars, queryVars, formVars, mutationVars, checkVars
<1>2. /\ DashboardTypes /\ FormInv /\ SaveInv /\ RowsInv /\ LogInv /\ SingleInv /\ FollowInv /\ ModeInv
      /\ FreshInv /\ LeavesInv
  BY DEF DashboardInv
<1>3. DashboardTypes' /\ FormInv' /\ SaveInv' /\ RowsInv'
  BY <1>1, <1>2 DEF DashboardTypes, FormInv, SaveInv, RowsInv
<1>4. LogInv' /\ SingleInv'
  BY <1>1, <1>2 DEF LogInv, SingleInv, CompletedAt, ToldAt, FinalCounts
<1>5. FollowInv' /\ ModeInv' /\ LeavesInv'
  BY <1>1, <1>2 DEF FollowInv, ModeInv, LeavesInv, CheckLeavesNothing, CompletedAt, ToldAt, FinalCounts
<1>6. Summary' = Summary
  BY <1>1 DEF Summary
<1>7. FreshInv'
  BY <1>1, <1>2, <1>6 DEF FreshInv, Dirty, UpToDate
<1> QED BY <1>3, <1>4, <1>5, <1>7 DEF DashboardInv

LEMMA DashboardInvStep == DashboardInv /\ [DashboardNext]_dashboardVars => DashboardInv'
  BY DashboardInvNext, DashboardInvStutter

\* The invariant of the dashboard (pages/dashboard-page.tsx): table and overview are what the
\* server has or about to be fetched again, the form holds the domain it was opened for, a row
\* shows a check only while one is under way, and the progress of a check is that of its job.
THEOREM AlwaysDashboardInv == DashboardSpec => []DashboardInv
  BY DashboardInvInit, DashboardInvStep, PTL DEF DashboardSpec

LEMMA OwnDomainSaved == DashboardInv => SavesItsOwnDomain
  BY DEF DashboardInv, SaveInv, RowsInv, SavesItsOwnDomain

\* The dashboard's one form saves, for a domain, the values loaded from it, whatever was
\* opened, saved or fetched in between (domain-form.tsx, dashboard-page.tsx).
THEOREM OwnDomainAlwaysSaved == DashboardSpec => []SavesItsOwnDomain
  BY OwnDomainSaved, AlwaysDashboardInv, PTL

LEMMA LeavesNothing == DashboardInv => CheckLeavesNothing
  BY DEF DashboardInv, LeavesInv

\* A check that has ended, in whichever way, leaves no row queued or running and no progress
\* (the finally of the dashboard's checks).
THEOREM CheckAlwaysLeavesNothing == DashboardSpec => []CheckLeavesNothing
  BY LeavesNothing, AlwaysDashboardInv, PTL

LEMMA FreshDashboard == DashboardInv => DashboardFresh
<1> SUFFICES ASSUME DashboardInv PROVE DashboardFresh
  OBVIOUS
<1>1. DashboardTypes /\ FreshInv
  BY DEF DashboardInv
<1>2. SUFFICES ASSUME onDashboard, saving.phase = "idle", deleting.phase = "idle", check.phase = "idle",
                      Idle, ~domainsQuery.old, ~statusQuery.old
               PROVE  domainsQuery.data = DomainList /\ statusQuery.data = Summary
                      /\ OverviewCount = Cardinality(ListedDomains)
  BY DEF DashboardFresh
<1>3. domainsQuery.data = domainRows /\ statusQuery.data = Summary
  BY <1>1, <1>2 DEF FreshInv, Dirty, UpToDate, Idle
<1>4. ListedDomains = DOMAIN domainRows
  BY <1>1, <1>3, SummaryTyped DEF ListedDomains
<1>5. OverviewCount = Cardinality(DOMAIN domainRows)
  BY <1>3, <1>4 DEF OverviewCount, Summary
<1> QED BY <1>3, <1>4, <1>5 DEF DomainList

\* With nothing under way, table and overview agree and are those of the server: every change
\* of a row is followed by another fetch, or is one the page was never told of
\* (invalidateQueries in dashboard-page.tsx).
THEOREM DashboardAlwaysFresh == DashboardSpec => []DashboardFresh
  BY FreshDashboard, AlwaysDashboardInv, PTL

LEMMA ToastTells ==
    ASSUME DashboardInv, DashboardNext, check.phase = "streaming", check'.phase = "refreshing"
    PROVE  toast' = CASE job.succeeded = job.total -> "success"
                      [] job.succeeded = 0 -> "error"
                      [] OTHER -> "warning"
<1>0. DashboardTypes /\ LogInv /\ SingleInv /\ FollowInv /\ check \in CheckState /\ job \in JobState
  BY DEF DashboardInv, DashboardTypes
<1>1. CheckReported
  <2>1. check' # check
    OBVIOUS
  <2>2. CheckStep
    BY <2>1, ChangesWhere
  <2>3. ~(HandleCheckAll \/ \E d \in 1..MaxDomains : HandleDomainCheck(d))
    BY DEF HandleCheckAll, HandleDomainCheck, NoCheck
  <2>4. ~(LeavePage \/ StartFails \/ CheckEnds \/ StreamFails)
    BY DEF LeavePage, StartFails, CheckEnds, StreamFails, EndCheck, NoCheck
  <2>5. ~CheckStarts
    BY DEF CheckStarts
  <2>6. ~StreamEvent
    BY <1>0 DEF StreamEvent, CheckState
  <2> QED BY <2>2, <2>3, <2>4, <2>5, <2>6 DEF CheckStep, Following
<1>2. /\ toast' = ToneOfCheck /\ check.final = <<FinalCounts>> /\ check.mode = job.mode /\ check.mode # "none"
      /\ job.phase = "done" /\ check.read = Len(job.log)
      /\ \/ check.result = "none" /\ \A i \in 1..Len(job.log) : ~ToldAt(i)
         \/ \E i \in 1..Len(job.log) : ToldAt(i) /\ check.result = job.log[i].status
  BY <1>0, <1>1 DEF CheckReported, FollowInv
<1>3. /\ job.total \in Nat /\ job.succeeded \in Nat /\ job.failed \in Nat /\ job.total > 0
      /\ job.succeeded + job.failed = job.total
  BY <1>0, <1>2 DEF JobState, LogInv
<1>4. check.final[1].failed = job.failed /\ check.final[1].succeeded = job.succeeded
  BY <1>2 DEF FinalCounts, Progress
<1>5. CASE job.mode = "all"
  BY <1>2, <1>3, <1>4, <1>5 DEF ToneOfCheck
<1>6. CASE job.mode = "single"
  <2>1. job.total = 1
    BY <1>0, <1>6 DEF SingleInv
  <2>2. check.result = "healthy" <=> job.succeeded = 1
    <3>1. CASE job.succeeded = 0 /\ \A i \in 1..Len(job.log) : ~CompletedAt(i)
      BY <1>2, <3>1 DEF ToldAt
    <3>2. CASE /\ \A i \in 1..Len(job.log) : CompletedAt(i) => (job.log[i].status = "healthy" <=> job.succeeded = 1)
               /\ \E i \in 1..Len(job.log) : CompletedAt(i)
      <4>1. CASE check.result = "none" /\ \A i \in 1..Len(job.log) : ~ToldAt(i)
        BY <1>0, <3>2, <4>1 DEF LogInv
      <4>2. CASE \E i \in 1..Len(job.log) : ToldAt(i) /\ check.result = job.log[i].status
        BY <3>2, <4>2 DEF ToldAt
      <4> QED BY <1>2, <4>1, <4>2
    <3> QED BY <1>0, <1>6, <3>1, <3>2 DEF SingleInv
  <2>3. toast' = IF job.succeeded = 1 THEN "success" ELSE "error"
    BY <1>2, <1>6, <2>2 DEF ToneOfCheck
  <2>4. job.succeeded = 0 \/ job.succeeded = 1
    BY <1>3, <2>1
  <2> QED BY <2>1, <2>3, <2>4
<1> QED BY <1>0, <1>2, <1>5, <1>6 DEF JobState

LEMMA ToastStep ==
    DashboardInv /\ [DashboardNext]_dashboardVars =>
        [check.phase = "streaming" /\ check'.phase = "refreshing"
           => toast' = CASE job.succeeded = job.total -> "success"
                         [] job.succeeded = 0 -> "error"
                         [] OTHER -> "warning"]_dashboardVars
  BY ToastTells

\* The toast after a check tells how the job went at the server, also when the stream was cut
\* short (runStartedCheckJob): success only if every one of its domains was
\* checked and found healthy.
THEOREM ToastAlwaysTellsTheOutcome == DashboardSpec => ToastTellsTheOutcome
  BY ToastStep, AlwaysDashboardInv, PTL DEF DashboardSpec, ToastTellsTheOutcome
-----------------------------------------------------------------------------
(* The notifications page: the inductive invariant *)

ConfigValue == {"", "r2", "u1", "u2", "h1", "h2", "s1", "***"}
Endpoint    == [kind : {"email", "webhook"}, recipient : ConfigValue, url : ConfigValue, header : ConfigValue,
                secret : ConfigValue]

\* What is saved has its destination, and no key of the other type.
SavedEndpoint ==
    {row \in Endpoint :
        IF row.kind = "email" THEN row.recipient # "" /\ row.url = "" /\ row.header = "" /\ row.secret = ""
        ELSE row.url # "" /\ row.recipient = "" /\ (row.header = "" => row.secret = "")}
EndpointTable == UNION {[D -> SavedEndpoint] : D \in SUBSET Nat}

PolicyRow   == [days : SUBSET Nat, to : SUBSET Nat]
PolicyScope == Overridable \cup {0}
PolicyTable == UNION {[D -> PolicyRow] : D \in {E \in SUBSET PolicyScope : 0 \in E}}
FormOfPolicy == [text : SUBSET (Nat \cup {NoText, Junk}), to : SUBSET Nat, touched : BOOLEAN]

EndpointSaving   == [phase : {"sent", "done", "refused"}, id : Nat, config : SavedEndpoint, untouched : BOOLEAN, row : Endpoint]
EndpointDeleting == [phase : {"sent", "done", "refused", "refreshing"}, id : Nat]
PolicySaving     == [phase : {"sent", "done"}, scope : PolicyScope, days : SUBSET Nat, to : SUBSET Nat,
                     view : PolicyRow \cup {NoData}]

NotificationsTypes ==
    /\ endpointRows \in EndpointTable /\ policyRows \in PolicyTable
    /\ endpointsQuery \in QueryOf(EndpointTable \cup {NoData})
    /\ policiesQuery \in QueryOf(PolicyTable \cup {NoData})
    /\ editingEndpoint \in [id : Nat, row : Endpoint]
    /\ endpointForm \in [values : Endpoint, touched : BOOLEAN]
    /\ selectedDomainId \in PolicyScope /\ policyForms \in [{"default", "override"} -> FormOfPolicy]
    /\ endpointSave \in {NotSent} \cup EndpointSaving /\ endpointDelete \in {NotSent} \cup EndpointDeleting
    /\ policySave \in {NotSent} \cup PolicySaving /\ sends \in Nat

\* An untouched form holds the endpoint edited, or nothing after the save of a new one failed.
EditInv ==
    (editingEndpoint.id # 0) =>
        /\ editingEndpoint.row \in SavedEndpoint
        /\ ~endpointForm.touched => endpointForm.values \in {editingEndpoint.row, NoEndpoint}

\* What is sent untouched is what the form was given.
EndpointSaveInv ==
    (endpointSave.phase # "idle" /\ endpointSave.untouched) => endpointSave.id # 0 /\ endpointSave.config = endpointSave.row
PolicySaveInv ==
    (policySave.phase = "sent" /\ policySave.view # NoData) =>
        policySave.days = DaysOf(TextOf(policySave.view.days)) /\ policySave.to = policySave.view.to

\* An untouched policy form shows the policy the page has.
PolicyFormInv ==
    /\ ~policyForms["default"].touched => policyForms["default"] = Loaded(PolicyView(policiesQuery.data, 0))
    /\ (selectedDomainId # 0 /\ ~policyForms["override"].touched) =>
        policyForms["override"] = Loaded(PolicyView(policiesQuery.data, selectedDomainId))

\* The lists are those of the server, or a change of theirs is still to be told.
ListsInv ==
    /\ (endpointSave.phase # "done" /\ endpointDelete.phase # "done") => UpToDate(endpointsQuery, endpointRows)
    /\ policySave.phase # "done" => UpToDate(policiesQuery, policyRows)

NotificationsInv ==
    /\ NotificationsTypes /\ EditInv /\ EndpointSaveInv /\ PolicySaveInv /\ PolicyFormInv /\ ListsInv

-----------------------------------------------------------------------------
(* What a form sends and what is made of it *)

LEMMA Values == {"", "r2", "u1", "u2", "h1", "h2", "s1", "***"} \subseteq ConfigValue
  BY DEF ConfigValue

\* A record by its keys.
LEMMA EndpointKeys ==
    ASSUME NEW r \in Endpoint
    PROVE  /\ r.kind \in {"email", "webhook"} /\ r.recipient \in ConfigValue /\ r.url \in ConfigValue
           /\ r.header \in ConfigValue /\ r.secret \in ConfigValue
           /\ r = [kind |-> r.kind, recipient |-> r.recipient, url |-> r.url, header |-> r.header, secret |-> r.secret]
  BY DEF Endpoint

LEMMA NoEndpointType == NoEndpoint \in Endpoint /\ Hook \in SavedEndpoint
<1>1. NoEndpoint \in Endpoint
  BY Values DEF NoEndpoint, Endpoint
<1>2. PICK h : h = [kind |-> "webhook", recipient |-> "", url |-> "u1", header |-> "h1", secret |-> "s1"]
  OBVIOUS
<1>3. h \in Endpoint
  BY <1>2, Values DEF Endpoint
<1>4. h \in SavedEndpoint
  <2>1. h.kind = "webhook" /\ h.recipient = "" /\ h.url = "u1" /\ h.header = "h1"
    BY <1>2
  <2> QED BY <1>3, <2>1 DEF SavedEndpoint
<1>5. Hook = h
  BY <1>2 DEF Hook
<1> QED BY <1>1, <1>4, <1>5

LEMMA SameEndpoint ==
    ASSUME NEW a \in Endpoint, NEW b \in Endpoint, a.kind = b.kind, a.recipient = b.recipient, a.url = b.url,
           a.header = b.header, a.secret = b.secret
    PROVE  a = b
  BY EndpointKeys

LEMMA PayloadSaved ==
    ASSUME NEW v \in Endpoint
    PROVE  /\ EndpointPayload(v) \in Endpoint
           /\ FormValid(v) => EndpointPayload(v) \in SavedEndpoint
<1>1. CASE v.kind = "email"
  <2>1. PICK p : p = [v EXCEPT !.url = "", !.header = "", !.secret = ""]
    OBVIOUS
  <2>2. EndpointPayload(v) = p
    BY <1>1, <2>1 DEF EndpointPayload
  <2>3. p = [kind |-> "email", recipient |-> v.recipient, url |-> "", header |-> "", secret |-> ""]
    BY <1>1, <2>1 DEF Endpoint
  <2>4. p \in Endpoint
    BY <2>3, Values, EndpointKeys DEF Endpoint
  <2>5. p.kind = "email" /\ p.recipient = v.recipient /\ p.url = "" /\ p.header = "" /\ p.secret = ""
    BY <2>3
  <2> QED BY <1>1, <2>2, <2>4, <2>5 DEF SavedEndpoint, FormValid
<1>2. CASE v.kind # "email"
  <2>0. PICK s \in ConfigValue : s = IF v.header = "" THEN "" ELSE v.secret
    BY Values, EndpointKeys
  <2>1. PICK p : p = [v EXCEPT !.recipient = "", !.secret = s]
    OBVIOUS
  <2>2. EndpointPayload(v) = p
    BY <1>2, <2>0, <2>1 DEF EndpointPayload
  <2>3. p = [kind |-> v.kind, recipient |-> "", url |-> v.url, header |-> v.header, secret |-> s]
    BY <1>2, <2>1 DEF Endpoint
  <2>4. p \in Endpoint
    BY <2>3, Values, EndpointKeys DEF Endpoint
  <2>5. /\ p.kind = v.kind /\ p.recipient = "" /\ p.url = v.url /\ p.header = v.header
        /\ (v.header = "" => p.secret = "")
    BY <2>0, <2>3
  <2> QED BY <1>2, <2>2, <2>4, <2>5 DEF SavedEndpoint, FormValid
<1> QED BY <1>1, <1>2

\* A form that holds what is stored sends it.
LEMMA PayloadOfSaved ==
    ASSUME NEW row \in SavedEndpoint PROVE EndpointPayload(row) = row
<1>1. /\ row \in Endpoint
      /\ row.kind = "email" => row.url = "" /\ row.header = "" /\ row.secret = ""
      /\ row.kind # "email" => row.recipient = "" /\ (row.header = "" => row.secret = "")
  BY DEF SavedEndpoint
<1>2. row = [kind |-> row.kind, recipient |-> row.recipient, url |-> row.url, header |-> row.header, secret |-> row.secret]
  BY <1>1, EndpointKeys
<1>3. CASE row.kind = "email"
  <2>1. [row EXCEPT !.url = "", !.header = "", !.secret = ""] = row
    BY <1>1, <1>2, <1>3
  <2> QED BY <1>3, <2>1 DEF EndpointPayload
<1>4. CASE row.kind # "email"
  <2>1. [row EXCEPT !.recipient = "", !.secret = IF row.header = "" THEN "" ELSE @] = row
    BY <1>1, <1>2, <1>4
  <2> QED BY <1>4, <2>1 DEF EndpointPayload
<1> QED BY <1>3, <1>4

\* What an endpoint's config becomes, key by key.
LEMMA Merges ==
    ASSUME NEW input \in Endpoint, NEW existing \in Endpoint
    PROVE  LET m == mergeEndpointConfig(input, existing)
               masked == MaskConfig(existing)
           IN  /\ m \in Endpoint /\ m.kind = input.kind /\ m.header = input.header
               /\ m.recipient = IF input.kind = "email"
                                THEN Preserve(input.recipient, masked.recipient, existing.recipient) ELSE input.recipient
               /\ m.url = IF input.kind = "email" THEN input.url ELSE Preserve(input.url, masked.url, existing.url)
               /\ m.secret = IF input.kind = "email" THEN input.secret
                             ELSE IF input.header = "" THEN ""
                             ELSE IF input.header = existing.header
                             THEN Preserve(input.secret, masked.secret, existing.secret) ELSE input.secret
<1>1. PICK masked : masked = MaskConfig(existing)
  OBVIOUS
<1>2. Preserve(input.recipient, masked.recipient, existing.recipient) \in ConfigValue
      /\ Preserve(input.url, masked.url, existing.url) \in ConfigValue
      /\ Preserve(input.secret, masked.secret, existing.secret) \in ConfigValue
  BY EndpointKeys DEF Preserve
<1>3. CASE input.kind = "email"
  <2>1. PICK r \in ConfigValue : r = Preserve(input.recipient, masked.recipient, existing.recipient)
    BY <1>2
  <2>2. PICK m : m = [input EXCEPT !.recipient = r]
    OBVIOUS
  <2>3. mergeEndpointConfig(input, existing) = m
    BY <1>1, <1>3, <2>1, <2>2 DEF mergeEndpointConfig
  <2>4. m = [kind |-> input.kind, recipient |-> r, url |-> input.url, header |-> input.header, secret |-> input.secret]
    BY <2>2 DEF Endpoint
  <2>5. m \in Endpoint
    BY <2>4, EndpointKeys DEF Endpoint
  <2>6. m.kind = input.kind /\ m.recipient = r /\ m.url = input.url /\ m.header = input.header /\ m.secret = input.secret
    BY <2>4
  <2> QED BY <1>1, <1>3, <2>1, <2>3, <2>5, <2>6
<1>4. CASE input.kind # "email"
  <2>1. PICK u \in ConfigValue : u = Preserve(input.url, masked.url, existing.url)
    BY <1>2
  <2>2. PICK s \in ConfigValue : s = IF input.header = "" THEN ""
                                ELSE IF input.header = existing.header
                                THEN Preserve(input.secret, masked.secret, existing.secret) ELSE input.secret
    BY <1>2, Values, EndpointKeys
  <2>3. PICK m : m = [input EXCEPT !.url = u, !.secret = s]
    OBVIOUS
  <2>4. mergeEndpointConfig(input, existing) = m
    BY <1>1, <1>4, <2>1, <2>2, <2>3 DEF mergeEndpointConfig
  <2>5. m = [kind |-> input.kind, recipient |-> input.recipient, url |-> u, header |-> input.header, secret |-> s]
    BY <2>3 DEF Endpoint
  <2>6. m \in Endpoint
    BY <2>5, EndpointKeys DEF Endpoint
  <2>7. m.kind = input.kind /\ m.recipient = input.recipient /\ m.url = u /\ m.header = input.header /\ m.secret = s
    BY <2>5
  <2> QED BY <1>1, <1>4, <2>1, <2>2, <2>4, <2>6, <2>7
<1> QED BY <1>3, <1>4

LEMMA Masks ==
    ASSUME NEW row \in Endpoint
    PROVE  LET m == MaskConfig(row)
           IN  /\ m \in Endpoint /\ m.kind = row.kind /\ m.header = row.header
               /\ m.recipient = IF row.recipient = "" THEN "" ELSE "***"
               /\ m.url = IF row.url = "" THEN "" ELSE "***"
               /\ m.secret = IF row.secret = "" THEN "" ELSE "***"
<1>1. PICK r \in ConfigValue, u \in ConfigValue, s \in ConfigValue :
        /\ r = IF row.recipient = "" THEN "" ELSE "***"
        /\ u = IF row.url = "" THEN "" ELSE "***"
        /\ s = IF row.secret = "" THEN "" ELSE "***"
  BY Values
<1>2. PICK m : m = [row EXCEPT !.recipient = r, !.url = u, !.secret = s]
  OBVIOUS
<1>3. MaskConfig(row) = m
  BY <1>1, <1>2 DEF MaskConfig
<1>4. m = [kind |-> row.kind, recipient |-> r, url |-> u, header |-> row.header, secret |-> s]
  BY <1>2 DEF Endpoint
<1>5. m \in Endpoint
  BY <1>4, EndpointKeys DEF Endpoint
<1>6. /\ m.kind = row.kind /\ m.header = row.header /\ m.recipient = r /\ m.url = u /\ m.secret = s
  BY <1>4
<1> QED BY <1>1, <1>3, <1>5, <1>6

\* What is saved over another endpoint, or none, is one that can be delivered to.
LEMMA MergeSaved ==
    ASSUME NEW input \in SavedEndpoint, NEW existing \in Endpoint
    PROVE  mergeEndpointConfig(input, existing) \in SavedEndpoint
<1>1. input \in Endpoint
  BY DEF SavedEndpoint
<1>2. PICK m : m = mergeEndpointConfig(input, existing)
  OBVIOUS
<1>3. \A v, k, e \in ConfigValue : v # "" => Preserve(v, k, e) # ""
  BY DEF Preserve
<1>4. PICK masked \in Endpoint : masked = MaskConfig(existing)
  BY Masks
<1>5. /\ m \in Endpoint /\ m.kind = input.kind /\ m.header = input.header
      /\ m.recipient = IF input.kind = "email"
                       THEN Preserve(input.recipient, masked.recipient, existing.recipient) ELSE input.recipient
      /\ m.url = IF input.kind = "email" THEN input.url ELSE Preserve(input.url, masked.url, existing.url)
      /\ input.kind = "email" => m.secret = input.secret
      /\ (input.kind # "email" /\ input.header = "") => m.secret = ""
  BY <1>1, <1>2, <1>4, Merges
<1>6. /\ input.recipient # "" => Preserve(input.recipient, masked.recipient, existing.recipient) # ""
      /\ input.url # "" => Preserve(input.url, masked.url, existing.url) # ""
  BY <1>1, <1>3, <1>4, EndpointKeys
<1>7. m \in SavedEndpoint
  BY <1>5, <1>6 DEF SavedEndpoint
<1> QED BY <1>2, <1>7

\* Saved as it is, or as a client sees it that is shown the masked values, it stays.
LEMMA MergeSame ==
    ASSUME NEW row \in SavedEndpoint
    PROVE  /\ mergeEndpointConfig(row, row) = row
           /\ mergeEndpointConfig(EndpointPayload(endpointDefaults(MaskConfig(row))), row) = row
<1>1. row \in Endpoint
  BY DEF SavedEndpoint
<1>2. PICK masked \in Endpoint : masked = MaskConfig(row)
  BY <1>1, Masks
<1>3. /\ masked.kind = row.kind /\ masked.header = row.header
      /\ masked.recipient = IF row.recipient = "" THEN "" ELSE "***"
      /\ masked.url = IF row.url = "" THEN "" ELSE "***"
      /\ masked.secret = IF row.secret = "" THEN "" ELSE "***"
  BY <1>1, <1>2, Masks
<1>4. masked \in SavedEndpoint
  BY <1>3 DEF SavedEndpoint
<1>5. EndpointPayload(endpointDefaults(masked)) = masked
  BY <1>4, PayloadOfSaved DEF endpointDefaults
<1>6. ASSUME NEW input \in {row, masked} PROVE mergeEndpointConfig(input, row) = row
  <2>1. PICK m \in Endpoint : m = mergeEndpointConfig(input, row)
    BY <1>1, <1>2, <1>6, Merges
  <2>2. input \in Endpoint /\ input.kind = row.kind /\ input.header = row.header
    BY <1>1, <1>2, <1>3, <1>6
  <2>3. /\ m.kind = row.kind /\ m.header = row.header
        /\ m.recipient = IF row.kind = "email"
                         THEN Preserve(input.recipient, masked.recipient, row.recipient) ELSE input.recipient
        /\ m.url = IF row.kind = "email" THEN input.url ELSE Preserve(input.url, masked.url, row.url)
        /\ m.secret = IF row.kind = "email" THEN input.secret
                      ELSE IF row.header = "" THEN "" ELSE Preserve(input.secret, masked.secret, row.secret)
    <3>1. /\ m.kind = input.kind /\ m.header = input.header
          /\ m.recipient = IF input.kind = "email"
                           THEN Preserve(input.recipient, masked.recipient, row.recipient) ELSE input.recipient
          /\ m.url = IF input.kind = "email" THEN input.url ELSE Preserve(input.url, masked.url, row.url)
          /\ m.secret = IF input.kind = "email" THEN input.secret
                        ELSE IF input.header = "" THEN ""
                        ELSE IF input.header = row.header
                        THEN Preserve(input.secret, masked.secret, row.secret) ELSE input.secret
      BY <1>1, <1>2, <2>1, <2>2, Merges
    <3>2. m.secret = IF row.kind = "email" THEN input.secret
                     ELSE IF row.header = "" THEN "" ELSE Preserve(input.secret, masked.secret, row.secret)
      BY <2>2, <3>1
    <3>3. m.kind = row.kind /\ m.header = row.header
      BY <2>2, <3>1
    <3>4. m.recipient = IF row.kind = "email"
                        THEN Preserve(input.recipient, masked.recipient, row.recipient) ELSE input.recipient
      BY <2>2, <3>1
    <3>5. m.url = IF row.kind = "email" THEN input.url ELSE Preserve(input.url, masked.url, row.url)
      BY <2>2, <3>1
    <3> QED BY <3>2, <3>3, <3>4, <3>5
  <2>4. /\ Preserve(input.recipient, masked.recipient, row.recipient) = row.recipient
        /\ Preserve(input.url, masked.url, row.url) = row.url
        /\ Preserve(input.secret, masked.secret, row.secret) = row.secret
    BY <1>3, <1>6 DEF Preserve
  <2>5. m.recipient = row.recipient /\ m.url = row.url /\ m.secret = row.secret
    BY <1>3, <1>6, <2>3, <2>4 DEF SavedEndpoint
  <2> QED BY <1>1, <2>1, <2>3, <2>5, SameEndpoint
<1> QED BY <1>2, <1>5, <1>6

-----------------------------------------------------------------------------
(* The notifications page: what changes where *)

EditStep   == \/ CancelEdit \/ TypeInEndpoint \/ EndpointSaved \/ EndpointSaveFails \/ EndpointDeleted
              \/ \E id \in DOMAIN endpointRows \cup Listed : EditEndpoint(id)
ChoiceStep == \/ PoliciesArrive \/ \E d \in Overridable \cup {0} : SelectDomain(d)
              \/ \E which \in {"default", "override"} : TypeInPolicy(which)
EndpointSaveStep   == SubmitEndpoint \/ EndpointSaveHandled \/ EndpointSaved \/ EndpointSaveFails
EndpointDeleteStep == \/ EndpointDeleteHandled \/ EndpointDeleted \/ EndpointDeleteFails
                      \/ \E id \in DOMAIN endpointRows \cup Listed : DeleteEndpoint(id)
PolicySaveStep == PolicySaveHandled \/ PolicySaved \/ \E which \in {"default", "override"} : SubmitPolicy(which)
PageSent == sends' = sends + 1 \/ sends' = sends

LEMMA NotificationsChange ==
    ASSUME NotificationsNext
    PROVE  /\ EndpointSaveHandled \/ EndpointDeleteHandled \/ endpointRows' = endpointRows
           /\ PolicySaveHandled \/ policyRows' = policyRows
           /\ ListsAnswered \/ EndpointsArrive \/ EndpointSaved \/ EndpointDeleted \/ endpointsQuery' = endpointsQuery
           /\ ListsAnswered \/ PoliciesArrive \/ EndpointDeleted \/ PolicySaved \/ policiesQuery' = policiesQuery
           /\ EditStep \/ UNCHANGED editing
           /\ ChoiceStep \/ UNCHANGED choosing
           /\ EndpointSaveStep \/ endpointSave' = endpointSave
           /\ EndpointDeleteStep \/ endpointDelete' = endpointDelete
           /\ PolicySaveStep \/ policySave' = policySave
           /\ PageSent
<1> USE DEF pageQueries, notices, editing, choosing, mutations
<1> USE DEF EditStep, ChoiceStep, EndpointSaveStep, EndpointDeleteStep, PolicySaveStep, PageSent
<1> DEFINE Goal == /\ EndpointSaveHandled \/ EndpointDeleteHandled \/ endpointRows' = endpointRows
                   /\ PolicySaveHandled \/ policyRows' = policyRows
                   /\ ListsAnswered \/ EndpointsArrive \/ EndpointSaved \/ EndpointDeleted \/ endpointsQuery' = endpointsQuery
                   /\ ListsAnswered \/ PoliciesArrive \/ EndpointDeleted \/ PolicySaved \/ policiesQuery' = policiesQuery
                   /\ EditStep \/ UNCHANGED editing
                   /\ ChoiceStep \/ UNCHANGED choosing
                   /\ EndpointSaveStep \/ endpointSave' = endpointSave
                   /\ EndpointDeleteStep \/ endpointDelete' = endpointDelete
                   /\ PolicySaveStep \/ policySave' = policySave
                   /\ PageSent
<1>1. ASSUME ListsAnswered \/ EndpointsArrive \/ PoliciesArrive PROVE Goal
  BY <1>1 DEF ListsAnswered, EndpointsArrive, PoliciesArrive
<1>2. ASSUME CancelEdit \/ TypeInEndpoint \/ \E id \in DOMAIN endpointRows \cup Listed : EditEndpoint(id) PROVE Goal
  BY <1>2 DEF CancelEdit, TypeInEndpoint, EditEndpoint
<1>3. ASSUME SubmitEndpoint \/ EndpointSaveHandled PROVE Goal
  BY <1>3 DEF SubmitEndpoint, EndpointSaveHandled, Sent
<1>4. ASSUME EndpointSaved \/ EndpointSaveFails PROVE Goal
  BY <1>4 DEF EndpointSaved, EndpointSaveFails
<1>5. ASSUME \E id \in DOMAIN endpointRows \cup Listed : DeleteEndpoint(id) \/ RunEndpointTest(id) PROVE Goal
  BY <1>5 DEF DeleteEndpoint, RunEndpointTest, Sent
<1>6. ASSUME EndpointDeleteHandled \/ EndpointDeleted \/ EndpointDeleteFails PROVE Goal
  BY <1>6 DEF EndpointDeleteHandled, EndpointDeleted, EndpointDeleteFails
<1>7. ASSUME EndpointTested PROVE Goal
  BY <1>7 DEF EndpointTested
<1>8. ASSUME (\E d \in Overridable \cup {0} : SelectDomain(d))
             \/ \E which \in {"default", "override"} : TypeInPolicy(which) PROVE Goal
  BY <1>8 DEF SelectDomain, TypeInPolicy
<1>9. ASSUME PolicySaveHandled \/ PolicySaved \/ \E which \in {"default", "override"} : SubmitPolicy(which) PROVE Goal
  BY <1>9 DEF PolicySaveHandled, PolicySaved, SubmitPolicy, Sent
<1> HIDE DEF Goal, EditStep, ChoiceStep, EndpointSaveStep, EndpointDeleteStep, PolicySaveStep, PageSent
<1> QED
  <2>1. Goal
    BY <1>1, <1>2, <1>3, <1>4, <1>5, <1>6, <1>7, <1>8, <1>9 DEF NotificationsNext
  <2> QED BY <2>1 DEF Goal

-----------------------------------------------------------------------------
(* The tables and what the page has of them *)

LEMMA EndpointTableType ==
    ASSUME NEW t \in EndpointTable
    PROVE  DOMAIN t \in SUBSET Nat /\ t \in [DOMAIN t -> SavedEndpoint] /\ \A id \in DOMAIN t : t[id] \in SavedEndpoint
  BY DEF EndpointTable

LEMMA EndpointTableIntro ==
    ASSUME NEW D \in SUBSET Nat, NEW t \in [D -> SavedEndpoint] PROVE t \in EndpointTable
  BY DEF EndpointTable

LEMMA PolicyTableType ==
    ASSUME NEW t \in PolicyTable
    PROVE  /\ 0 \in DOMAIN t /\ DOMAIN t \in SUBSET PolicyScope /\ t \in [DOMAIN t -> PolicyRow]
           /\ \A s \in DOMAIN t : t[s] \in PolicyRow /\ t[s] # NoData
           /\ t # NoData
<1>1. 0 \in DOMAIN t /\ DOMAIN t \in SUBSET PolicyScope /\ t \in [DOMAIN t -> PolicyRow]
  BY DEF PolicyTable
<1>2. t # NoData /\ NoData \notin PolicyRow
  BY <1>1, NotificationsAssumption DEF PolicyRow, PolicyScope
<1> QED BY <1>1, <1>2

LEMMA PolicyTableIntro ==
    ASSUME NEW D \in SUBSET PolicyScope, 0 \in D, NEW t \in [D -> PolicyRow] PROVE t \in PolicyTable
  BY DEF PolicyTable

LEMMA UpsertedEndpoint ==
    ASSUME NEW t \in EndpointTable, NEW id \in Nat, NEW row \in SavedEndpoint PROVE Upserted(t, id, row) \in EndpointTable
<1>1. DOMAIN t \in SUBSET Nat /\ \A i \in DOMAIN t : t[i] \in SavedEndpoint
  BY EndpointTableType
<1>2. Upserted(t, id, row) \in [DOMAIN t \cup {id} -> SavedEndpoint] /\ DOMAIN t \cup {id} \in SUBSET Nat
  BY <1>1 DEF Upserted
<1> QED BY <1>2, EndpointTableIntro

LEMMA UpsertedPolicy ==
    ASSUME NEW t \in PolicyTable, NEW s \in PolicyScope, NEW row \in PolicyRow PROVE Upserted(t, s, row) \in PolicyTable
<1>1. 0 \in DOMAIN t /\ DOMAIN t \in SUBSET PolicyScope /\ \A i \in DOMAIN t : t[i] \in PolicyRow
  BY PolicyTableType
<1>2. Upserted(t, s, row) \in [DOMAIN t \cup {s} -> PolicyRow] /\ DOMAIN t \cup {s} \in SUBSET PolicyScope /\ 0 \in DOMAIN t \cup {s}
  BY <1>1 DEF Upserted
<1> QED BY <1>2, PolicyTableIntro

\* A row written as it is leaves the table as it is.
LEMMA UpsertedSame ==
    ASSUME NEW D, NEW R, NEW t \in [D -> R], NEW i \in D PROVE Upserted(t, i, t[i]) = t
  BY DEF Upserted

LEMMA EndpointRowsKept ==
    ASSUME NotificationsTypes, EndpointSaveHandled
    PROVE  endpointRows' \in EndpointTable
<1>1. PICK id \in Nat : id = IF endpointSave.id = 0 THEN 1 + sends ELSE endpointSave.id
  <2>1. endpointSave \in EndpointSaving
    BY DEF NotificationsTypes, EndpointSaveHandled, NotSent
  <2>2. endpointSave.id \in Nat /\ 1 + sends \in Nat
    BY <2>1 DEF NotificationsTypes, EndpointSaving
  <2> QED BY <2>2
<1>2. endpointSave.config \in SavedEndpoint
  BY DEF NotificationsTypes, EndpointSaveHandled, NotSent, EndpointSaving
<1>3. CASE endpointSave.id = 0 \/ endpointSave.id \in DOMAIN endpointRows
  <2>1. PICK old : old = IF endpointSave.id = 0 THEN NoEndpoint ELSE endpointRows[id]
    OBVIOUS
  <2>2. old \in Endpoint
    <3>1. \A i \in DOMAIN endpointRows : endpointRows[i] \in Endpoint
      BY EndpointTableType DEF NotificationsTypes, SavedEndpoint
    <3> QED BY <1>1, <1>3, <2>1, <3>1, NoEndpointType
  <2>3. PICK row \in SavedEndpoint : row = mergeEndpointConfig(endpointSave.config, old)
    BY <1>2, <2>2, MergeSaved
  <2>4. endpointRows' = Upserted(endpointRows, id, row)
    BY <1>1, <1>3, <2>1, <2>3 DEF EndpointSaveHandled
  <2> QED BY <2>4, UpsertedEndpoint DEF NotificationsTypes
<1>4. CASE ~(endpointSave.id = 0 \/ endpointSave.id \in DOMAIN endpointRows)
  BY <1>4 DEF EndpointSaveHandled, NotificationsTypes
<1> QED BY <1>3, <1>4

LEMMA EndpointRowDeleted ==
    ASSUME NotificationsTypes, EndpointDeleteHandled
    PROVE  endpointRows' \in EndpointTable /\ (endpointDelete.id \notin DOMAIN endpointRows => endpointRows' = endpointRows)
<1>1. DOMAIN endpointRows \in SUBSET Nat /\ endpointRows \in [DOMAIN endpointRows -> SavedEndpoint]
  BY EndpointTableType DEF NotificationsTypes
<1>2. PICK D : D = DOMAIN endpointRows \ {endpointDelete.id}
  OBVIOUS
<1>3. endpointRows' = [i \in D |-> endpointRows[i]]
  BY <1>2 DEF EndpointDeleteHandled
<1>4. endpointRows' \in [D -> SavedEndpoint] /\ D \in SUBSET Nat
  BY <1>1, <1>2, <1>3
<1>5. endpointDelete.id \notin DOMAIN endpointRows => endpointRows' = endpointRows
  BY <1>1, <1>2, <1>3
<1> QED BY <1>4, <1>5, EndpointTableIntro

LEMMA PolicyRowsKept ==
    ASSUME NotificationsTypes, PolicySaveHandled
    PROVE  policyRows' \in PolicyTable
<1>1. policySave.scope \in PolicyScope /\ policySave.days \in SUBSET Nat /\ policySave.to \in SUBSET Nat
  BY DEF NotificationsTypes, PolicySaveHandled, NotSent, PolicySaving
<1>2. policyRows \in PolicyTable
  BY DEF NotificationsTypes
<1>3. CASE policySave.scope # 0 /\ policySave.days = {} /\ policySave.to = {}
  <2>1. PICK D : D = DOMAIN policyRows \ {policySave.scope}
    OBVIOUS
  <2>2. policyRows' = [s \in D |-> policyRows[s]]
    BY <1>3, <2>1 DEF PolicySaveHandled
  <2>3. 0 \in D /\ D \in SUBSET PolicyScope /\ \A s \in D : policyRows[s] \in PolicyRow
    BY <1>2, <1>3, <2>1, PolicyTableType
  <2>4. policyRows' \in [D -> PolicyRow]
    BY <2>2, <2>3
  <2> QED BY <2>3, <2>4, PolicyTableIntro
<1>4. CASE ~(policySave.scope # 0 /\ policySave.days = {} /\ policySave.to = {})
  <2>1. PICK row \in PolicyRow : row = [days |-> policySave.days, to |-> policySave.to]
    BY <1>1 DEF PolicyRow
  <2>2. policyRows' = Upserted(policyRows, policySave.scope, row)
    BY <1>4, <2>1 DEF PolicySaveHandled
  <2> QED BY <1>1, <1>2, <2>2, UpsertedPolicy
<1> QED BY <1>3, <1>4

LEMMA ListsTyped ==
    ASSUME NotificationsTypes, NotificationsNext
    PROVE  /\ endpointsQuery' \in QueryOf(EndpointTable \cup {NoData})
           /\ policiesQuery' \in QueryOf(PolicyTable \cup {NoData})
<1>1. PICK E : E = EndpointTable \cup {NoData}
  OBVIOUS
<1>2. PICK P : P = PolicyTable \cup {NoData}
  OBVIOUS
<1>3. /\ endpointsQuery \in QueryOf(E) /\ policiesQuery \in QueryOf(P) /\ NoData \in E /\ NoData \in P
      /\ endpointRows \in E /\ policyRows \in P
  BY <1>1, <1>2 DEF NotificationsTypes
<1>4. /\ Answered(endpointsQuery, endpointRows) \in QueryOf(E) /\ Settled(endpointsQuery) \in QueryOf(E)
      /\ Invalidated(endpointsQuery) \in QueryOf(E)
      /\ Answered(policiesQuery, policyRows) \in QueryOf(P) /\ Settled(policiesQuery) \in QueryOf(P)
      /\ Invalidated(policiesQuery) \in QueryOf(P)
  BY <1>3, QueryStays
<1>5. /\ endpointsQuery' \in {endpointsQuery, Answered(endpointsQuery, endpointRows), Settled(endpointsQuery), Invalidated(endpointsQuery)}
      /\ policiesQuery' \in {policiesQuery, Answered(policiesQuery, policyRows), Settled(policiesQuery), Invalidated(policiesQuery)}
  BY NotificationsChange DEF ListsAnswered, EndpointsArrive, EndpointSaved, EndpointDeleted, PoliciesArrive, PolicySaved, pageQueries
<1> QED BY <1>1, <1>2, <1>3, <1>4, <1>5

LEMMA ListedTyped ==
    ASSUME NotificationsTypes
    PROVE  /\ Listed \in SUBSET Nat
           /\ \A id \in Listed : endpointsQuery.data[id] \in SavedEndpoint
<1>1. endpointsQuery.data = NoData \/ endpointsQuery.data \in EndpointTable
  BY DEF NotificationsTypes, QueryOf
<1> QED BY <1>1, EndpointTableType DEF Listed

LEMMA PolicyViewTyped ==
    ASSUME NotificationsTypes, NEW s
    PROVE  PolicyView(policiesQuery.data, s) \in PolicyRow \cup {NoData}
<1>1. policiesQuery.data = NoData \/ policiesQuery.data \in PolicyTable
  BY DEF NotificationsTypes, QueryOf
<1> QED BY <1>1, PolicyTableType DEF PolicyView

LEMMA LoadedTyped ==
    ASSUME NEW v \in PolicyRow \cup {NoData}
    PROVE  Loaded(v) \in FormOfPolicy /\ ~Loaded(v).touched
<1>1. {30, 7, 1} \in SUBSET (Nat \cup {NoText, Junk})
  OBVIOUS
<1>2. CASE v = NoData
  BY <1>1, <1>2 DEF Loaded, FormOfPolicy
<1>3. CASE v # NoData
  <2>1. v.days \in SUBSET Nat /\ v.to \in SUBSET Nat
    BY <1>3 DEF PolicyRow
  <2>2. TextOf(v.days) \in SUBSET (Nat \cup {NoText, Junk})
    BY <2>1 DEF TextOf
  <2> QED BY <1>3, <2>1, <2>2 DEF Loaded, FormOfPolicy
<1> QED BY <1>2, <1>3

\* The form of the endpoint that is edited.
LEMMA EditKept ==
    ASSUME NotificationsTypes, EditInv, NotificationsNext
    PROVE  /\ editingEndpoint' \in [id : Nat, row : Endpoint]
           /\ endpointForm' \in [values : Endpoint, touched : BOOLEAN]
           /\ EditInv'
<1> DEFINE Goal == /\ editingEndpoint' \in [id : Nat, row : Endpoint]
                   /\ endpointForm' \in [values : Endpoint, touched : BOOLEAN]
                   /\ EditInv'
<1>1. /\ editingEndpoint \in [id : Nat, row : Endpoint] /\ endpointForm \in [values : Endpoint, touched : BOOLEAN]
      /\ NoEndpoint \in Endpoint
  BY NoEndpointType DEF NotificationsTypes
<1>2. NoOne \in [id : Nat, row : Endpoint] /\ NoOne.id = 0
  BY <1>1 DEF NoOne
<1>3. PICK blank : blank = [values |-> NoEndpoint, touched |-> FALSE]
  OBVIOUS
<1>4. blank.values = NoEndpoint
  BY <1>3
<1>5. blank \in [values : Endpoint, touched : BOOLEAN]
  BY <1>1, <1>3
<1>6. ASSUME NEW whom \in [id : Nat, row : Endpoint], whom.id = 0 \/ whom.row \in SavedEndpoint, Edit(whom) PROVE Goal
  <2>1. editingEndpoint' = whom /\ endpointForm' = IF whom = editingEndpoint THEN endpointForm
                                                   ELSE [values |-> whom.row, touched |-> FALSE]
    BY <1>6 DEF Edit, endpointDefaults
  <2>2. CASE whom = editingEndpoint
    BY <1>1, <2>1, <2>2 DEF EditInv
  <2>3. CASE whom # editingEndpoint
    BY <1>6, <2>1, <2>3 DEF EditInv
  <2> QED BY <2>2, <2>3
<1>7. ASSUME NEW id \in DOMAIN endpointRows \cup Listed, EditEndpoint(id) PROVE Goal
  <2>1. PICK row : row = endpointsQuery.data[id]
    OBVIOUS
  <2>2. id \in Nat /\ row \in SavedEndpoint /\ row \in Endpoint
    BY <1>7, <2>1, ListedTyped DEF EditEndpoint, SavedEndpoint
  <2>3. PICK whom : whom = [id |-> id, row |-> row]
    OBVIOUS
  <2>4. Edit(whom)
    BY <1>7, <2>1, <2>3 DEF EditEndpoint
  <2>5. whom.row = row
    BY <2>3
  <2>6. whom \in [id : Nat, row : Endpoint]
    BY <2>2, <2>3
  <2> HIDE DEF Goal
  <2> QED BY <1>6, <2>2, <2>4, <2>5, <2>6
<1>8. CASE CancelEdit
  BY <1>2, <1>6, <1>8 DEF CancelEdit
<1>9. CASE TypeInEndpoint
  <2>1. PICK values \in {[endpointForm.values EXCEPT !.kind = IF @ = "email" THEN "webhook" ELSE "email"],
                         [endpointForm.values EXCEPT !.recipient = "r2"], [endpointForm.values EXCEPT !.url = "u2"],
                         [endpointForm.values EXCEPT !.header = "h2"], [endpointForm.values EXCEPT !.secret = ""]} :
            endpointForm' = [values |-> values, touched |-> TRUE]
    BY <1>9 DEF TypeInEndpoint
  <2>2. PICK v \in Endpoint : v = endpointForm.values
    BY <1>1
  <2>3. values \in Endpoint
    <3>1. PICK k \in {"email", "webhook"} : k = IF v.kind = "email" THEN "webhook" ELSE "email"
      OBVIOUS
    <3>2. /\ [v EXCEPT !.kind = k] \in Endpoint /\ [v EXCEPT !.recipient = "r2"] \in Endpoint
          /\ [v EXCEPT !.url = "u2"] \in Endpoint /\ [v EXCEPT !.header = "h2"] \in Endpoint
          /\ [v EXCEPT !.secret = ""] \in Endpoint
      BY Values DEF Endpoint
    <3> QED BY <2>1, <2>2, <3>1, <3>2
  <2>4. editingEndpoint' = editingEndpoint
    BY <1>9 DEF TypeInEndpoint
  <2> QED BY <1>1, <2>1, <2>3, <2>4 DEF EditInv
<1>10. CASE EndpointSaved
  <2>1. editingEndpoint' = NoOne /\ endpointForm' \in {blank, endpointForm}
    BY <1>3, <1>10 DEF EndpointSaved
  <2> QED BY <1>1, <1>2, <1>5, <2>1 DEF EditInv
<1>11. CASE EndpointSaveFails
  <2>1. editingEndpoint' = editingEndpoint /\ endpointForm' \in {blank, endpointForm}
    BY <1>3, <1>11 DEF EndpointSaveFails
  <2> QED BY <1>1, <1>4, <1>5, <2>1 DEF EditInv
<1>12. CASE EndpointDeleted
  <2>1. Edit(NoOne) \/ UNCHANGED editing
    BY <1>12 DEF EndpointDeleted
  <2>2. CASE Edit(NoOne)
    BY <1>2, <1>6, <2>2
  <2>3. CASE UNCHANGED editing
    BY <1>1, <2>3 DEF editing, EditInv
  <2> QED BY <2>1, <2>2, <2>3
<1>13. CASE UNCHANGED editing
  BY <1>1, <1>13 DEF editing, EditInv
<1> QED
  <2>1. EditStep \/ UNCHANGED editing
    BY NotificationsChange
  <2>2. ASSUME \E id \in DOMAIN endpointRows \cup Listed : EditEndpoint(id) PROVE Goal
    BY <1>7, <2>2
  <2> QED BY <1>8, <1>9, <1>10, <1>11, <1>12, <1>13, <2>1, <2>2 DEF EditStep

\* The save and the deletion of an endpoint.
LEMMA EndpointSaveKept ==
    ASSUME NotificationsTypes, EditInv, EndpointSaveInv, NotificationsNext
    PROVE  endpointSave' \in {NotSent} \cup EndpointSaving /\ EndpointSaveInv'
<1>1. endpointSave = NotSent \/ endpointSave \in EndpointSaving
  BY DEF NotificationsTypes
<1>2. NotSent.phase = "idle"
  BY DEF NotSent
<1>3. CASE SubmitEndpoint
  <2>1. PICK config \in SavedEndpoint : config = EndpointPayload(endpointForm.values)
    BY <1>3, PayloadSaved DEF SubmitEndpoint, NotificationsTypes
  <2>2. PICK untouched \in BOOLEAN : untouched <=> ~endpointForm.touched /\ editingEndpoint.id # 0
    OBVIOUS
  <2>3. endpointSave' = [phase |-> "sent", id |-> editingEndpoint.id, config |-> config,
                         untouched |-> untouched, row |-> editingEndpoint.row]
    BY <1>3, <2>1, <2>2 DEF SubmitEndpoint
  <2>4. endpointSave' \in EndpointSaving
    BY <2>3 DEF NotificationsTypes, EndpointSaving
  <2>5. untouched => editingEndpoint.id # 0 /\ config = editingEndpoint.row
    <3>1. SUFFICES ASSUME untouched PROVE config = editingEndpoint.row
      BY <2>2
    <3>2. editingEndpoint.row \in SavedEndpoint /\ endpointForm.values \in {editingEndpoint.row, NoEndpoint}
      BY <2>2, <3>1 DEF EditInv
    <3>3. endpointForm.values # NoEndpoint
      <4>1. NoEndpoint.kind = "email" /\ NoEndpoint.recipient = ""
        BY DEF NoEndpoint
      <4>2. ~FormValid(NoEndpoint)
        BY <4>1 DEF FormValid
      <4>3. FormValid(endpointForm.values)
        BY <1>3 DEF SubmitEndpoint
      <4> QED BY <4>2, <4>3
    <3> QED BY <2>1, <3>2, <3>3, PayloadOfSaved
  <2> QED BY <2>3, <2>4, <2>5 DEF EndpointSaveInv
<1>4. CASE EndpointSaveHandled
  <2>1. endpointSave \in EndpointSaving
    BY <1>1, <1>2, <1>4 DEF EndpointSaveHandled
  <2>2. PICK p \in {"done", "refused"} : endpointSave' = [endpointSave EXCEPT !.phase = p]
    BY <1>4 DEF EndpointSaveHandled
  <2>3. /\ endpointSave' \in EndpointSaving /\ endpointSave'.id = endpointSave.id
        /\ endpointSave'.config = endpointSave.config /\ endpointSave'.row = endpointSave.row
        /\ endpointSave'.untouched = endpointSave.untouched
    BY <2>1, <2>2 DEF EndpointSaving
  <2>4. endpointSave.phase # "idle"
    BY <1>4 DEF EndpointSaveHandled
  <2> QED BY <2>3, <2>4 DEF EndpointSaveInv
<1>5. CASE endpointSave' = NotSent
  BY <1>2, <1>5 DEF EndpointSaveInv
<1>6. CASE endpointSave' = endpointSave
  BY <1>1, <1>6 DEF EndpointSaveInv
<1>7. SubmitEndpoint \/ EndpointSaveHandled \/ endpointSave' \in {NotSent, endpointSave}
  BY NotificationsChange DEF EndpointSaveStep, EndpointSaved, EndpointSaveFails
<1> QED BY <1>3, <1>4, <1>5, <1>6, <1>7

LEMMA EndpointDeleteKept ==
    ASSUME NotificationsTypes, NotificationsNext
    PROVE  endpointDelete' \in {NotSent} \cup EndpointDeleting
<1>1. endpointDelete \in {NotSent} \cup EndpointDeleting
  BY DEF NotificationsTypes
<1>2. ASSUME NEW id \in DOMAIN endpointRows \cup Listed, DeleteEndpoint(id) PROVE endpointDelete' \in EndpointDeleting
  <2>1. id \in Nat
    BY <1>2, ListedTyped DEF DeleteEndpoint
  <2> QED BY <1>2, <2>1 DEF DeleteEndpoint, EndpointDeleting
<1>3. ASSUME NEW p \in {"done", "refused", "refreshing"}, endpointDelete' = [endpointDelete EXCEPT !.phase = p], endpointDelete.phase # "idle"
      PROVE  endpointDelete' \in EndpointDeleting
  BY <1>1, <1>3 DEF NotSent, EndpointDeleting
<1>4. EndpointDeleteHandled => endpointDelete' \in EndpointDeleting
  BY <1>3 DEF EndpointDeleteHandled
<1>5. EndpointDeleted => endpointDelete' \in {NotSent} \cup EndpointDeleting
  BY <1>3 DEF EndpointDeleted
<1> QED BY <1>1, <1>2, <1>4, <1>5, NotificationsChange DEF EndpointDeleteStep, EndpointDeleteFails

\* The policy forms, which are reset whenever the policy they are given is another one.
LEMMA ChoiceKept ==
    ASSUME NotificationsTypes, PolicyFormInv, NotificationsNext
    PROVE  /\ selectedDomainId' \in PolicyScope
           /\ policyForms' \in [{"default", "override"} -> FormOfPolicy]
           /\ PolicyFormInv'
<1> DEFINE Both == {"default", "override"}
<1>1. /\ selectedDomainId \in PolicyScope /\ policyForms \in [Both -> FormOfPolicy]
      /\ policiesQuery \in QueryOf(PolicyTable \cup {NoData})
  BY DEF NotificationsTypes
<1>2. CASE PoliciesArrive
  <2>1. PICK q : q = policiesQuery'
    OBVIOUS
  <2>2. q.data = policiesQuery.got
    BY <1>1, <1>2, <2>1 DEF PoliciesArrive, Settled, QueryOf
  <2>3. \A s : PolicyView(q.data, s) \in PolicyRow \cup {NoData}
    <3>1. q.data = NoData \/ q.data \in PolicyTable
      BY <1>1, <2>2 DEF QueryOf
    <3> QED BY <3>1, PolicyTableType DEF PolicyView
  <2>4. PICK was : was = [w \in Both |-> PolicyView(policiesQuery.data, IF w = "default" THEN 0 ELSE selectedDomainId)]
    OBVIOUS
  <2>5. PICK now : now = [w \in Both |-> PolicyView(q.data, IF w = "default" THEN 0 ELSE selectedDomainId)]
    OBVIOUS
  <2>6. policyForms' = [w \in Both |-> IF was[w] = now[w] THEN policyForms[w] ELSE Loaded(now[w])]
        /\ selectedDomainId' = selectedDomainId
    BY <1>2, <2>2, <2>4, <2>5 DEF PoliciesArrive, FormsReset
  <2>7. \A w \in Both : now[w] \in PolicyRow \cup {NoData}
    BY <2>3, <2>5
  <2>8. \A w \in Both : Loaded(now[w]) \in FormOfPolicy
    BY <2>7, LoadedTyped
  <2>9. policyForms' \in [Both -> FormOfPolicy]
    BY <1>1, <2>6, <2>8
  <2>10. \A w \in Both : policyForms[w] = Loaded(was[w]) => policyForms'[w] = Loaded(now[w])
    BY <2>6
  <2>11. \A w \in Both : ~policyForms'[w].touched => policyForms'[w] = Loaded(now[w]) \/ ~policyForms[w].touched
    BY <2>6
  <2>12. /\ was["default"] = PolicyView(policiesQuery.data, 0)
         /\ was["override"] = PolicyView(policiesQuery.data, selectedDomainId)
         /\ now["default"] = PolicyView(q.data, 0)
         /\ now["override"] = PolicyView(q.data, selectedDomainId)
    BY <2>4, <2>5
  <2>13. /\ ~policyForms'["default"].touched => policyForms'["default"] = Loaded(now["default"])
         /\ (selectedDomainId # 0 /\ ~policyForms'["override"].touched) =>
               policyForms'["override"] = Loaded(now["override"])
    BY <2>10, <2>11, <2>12 DEF PolicyFormInv
  <2>14. PolicyFormInv'
    BY <2>1, <2>6, <2>12, <2>13 DEF PolicyFormInv
  <2> QED BY <1>1, <2>6, <2>9, <2>14
<1>3. ASSUME NEW d \in Overridable \cup {0}, SelectDomain(d)
      PROVE  /\ selectedDomainId' \in PolicyScope /\ policyForms' \in [Both -> FormOfPolicy] /\ PolicyFormInv'
  <2>1. selectedDomainId' = d /\ policiesQuery' = policiesQuery /\ d \in PolicyScope
    BY <1>3 DEF SelectDomain, pageQueries, PolicyScope
  <2>2. PICK was : was = PolicyView(policiesQuery.data, selectedDomainId)
    OBVIOUS
  <2>3. PICK now : now = PolicyView(policiesQuery.data, d)
    OBVIOUS
  <2>4. PICK form \in FormOfPolicy : form = Loaded(IF d = 0 THEN NoData ELSE now)
    <3>1. (IF d = 0 THEN NoData ELSE now) \in PolicyRow \cup {NoData}
      BY <2>3, PolicyViewTyped
    <3> QED BY <3>1, LoadedTyped
  <2>5. CASE selectedDomainId # 0 /\ d # 0 /\ was = NoData /\ now = NoData
    <3>1. policyForms' = policyForms
      BY <1>3, <2>2, <2>3, <2>5 DEF SelectDomain
    <3>2. PolicyFormInv'
      BY <2>1, <2>2, <2>3, <2>5, <3>1 DEF PolicyFormInv
    <3> QED BY <1>1, <2>1, <3>1, <3>2
  <2>6. CASE ~(selectedDomainId # 0 /\ d # 0 /\ was = NoData /\ now = NoData)
    <3>1. policyForms' = [policyForms EXCEPT !["override"] = form]
      BY <1>3, <2>2, <2>3, <2>4, <2>6 DEF SelectDomain
    <3>2. policyForms' \in [Both -> FormOfPolicy] /\ policyForms'["default"] = policyForms["default"]
          /\ policyForms'["override"] = form
      BY <1>1, <3>1
    <3>3. d # 0 => form = Loaded(PolicyView(policiesQuery.data, d))
      BY <2>3, <2>4
    <3>4. PolicyFormInv'
      BY <2>1, <3>2, <3>3 DEF PolicyFormInv
    <3> QED BY <2>1, <3>2, <3>4
  <2> QED BY <2>5, <2>6
<1>4. ASSUME NEW which \in Both, TypeInPolicy(which)
      PROVE  /\ selectedDomainId' \in PolicyScope /\ policyForms' \in [Both -> FormOfPolicy] /\ PolicyFormInv'
  <2>1. PICK f \in FormOfPolicy : f = policyForms[which]
    BY <1>1
  <2>2. PICK form \in {[f EXCEPT !.text = {NoText}], [f EXCEPT !.text = {Junk}], [f EXCEPT !.text = {7}]}
                   \cup {[f EXCEPT !.to = IF id \in @ THEN @ \ {id} ELSE @ \cup {id}] : id \in Listed} :
          policyForms' = [policyForms EXCEPT ![which] = [form EXCEPT !.touched = TRUE]]
    BY <1>4, <2>1 DEF TypeInPolicy
  <2>3. form \in FormOfPolicy
    <3>1. {NoText} \in SUBSET (Nat \cup {NoText, Junk}) /\ {Junk} \in SUBSET (Nat \cup {NoText, Junk})
          /\ {7} \in SUBSET (Nat \cup {NoText, Junk})
      OBVIOUS
    <3>2. \A id \in Listed : (IF id \in f.to THEN f.to \ {id} ELSE f.to \cup {id}) \in SUBSET Nat
      BY ListedTyped DEF FormOfPolicy
    <3>3. \A t \in SUBSET (Nat \cup {NoText, Junk}) : [f EXCEPT !.text = t] \in FormOfPolicy
      BY DEF FormOfPolicy
    <3>4. \A t \in SUBSET Nat : [f EXCEPT !.to = t] \in FormOfPolicy
      BY DEF FormOfPolicy
    <3>5. \A id \in Listed : [f EXCEPT !.to = IF id \in @ THEN @ \ {id} ELSE @ \cup {id}] \in FormOfPolicy
      <4> TAKE id \in Listed
      <4>1. PICK t \in SUBSET Nat : t = IF id \in f.to THEN f.to \ {id} ELSE f.to \cup {id}
        BY <3>2
      <4> QED BY <3>4, <4>1
    <3> QED BY <2>2, <3>1, <3>3, <3>5
  <2>4. PICK g : g = [form EXCEPT !.touched = TRUE]
    OBVIOUS
  <2>5. g \in FormOfPolicy /\ g.touched
    BY <2>3, <2>4 DEF FormOfPolicy
  <2>6. policyForms' = [policyForms EXCEPT ![which] = g]
    BY <2>2, <2>4
  <2>7. policyForms' \in [Both -> FormOfPolicy] /\ \A w \in Both : policyForms'[w] = IF w = which THEN g ELSE policyForms[w]
    BY <1>1, <2>5, <2>6
  <2>8. UNCHANGED <<policiesQuery, selectedDomainId>>
    BY <1>4 DEF TypeInPolicy, pageQueries
  <2>9. PolicyFormInv'
    BY <2>5, <2>7, <2>8 DEF PolicyFormInv
  <2> QED BY <1>1, <2>7, <2>8, <2>9
<1>5. CASE UNCHANGED choosing /\ ~PoliciesArrive
  <2>1. policiesQuery'.data = policiesQuery.data
    BY <1>1, <1>5, NotificationsChange
       DEF ListsAnswered, EndpointDeleted, PolicySaved, QueryOf, Answered, Invalidated, Joined, Started
  <2>2. PolicyFormInv'
    BY <1>5, <2>1 DEF PolicyFormInv, choosing
  <2> QED BY <1>1, <1>5, <2>2 DEF choosing
<1> QED BY <1>2, <1>3, <1>4, <1>5, NotificationsChange DEF ChoiceStep

\* The save of a policy.
LEMMA PolicySaveKept ==
    ASSUME NotificationsTypes, PolicyFormInv, PolicySaveInv, NotificationsNext
    PROVE  policySave' \in {NotSent} \cup PolicySaving /\ PolicySaveInv'
<1>1. policySave = NotSent \/ policySave \in PolicySaving
  BY DEF NotificationsTypes
<1>2. NotSent.phase = "idle"
  BY DEF NotSent
<1>3. ASSUME NEW which \in {"default", "override"}, SubmitPolicy(which)
      PROVE  policySave' \in PolicySaving /\ PolicySaveInv'
  <2>1. PICK scope \in PolicyScope : scope = IF which = "default" THEN 0 ELSE selectedDomainId
    BY DEF NotificationsTypes, PolicyScope
  <2>2. PICK form \in FormOfPolicy : form = policyForms[which]
    BY DEF NotificationsTypes
  <2>3. PICK view \in PolicyRow \cup {NoData} : view = IF form.touched THEN NoData ELSE PolicyView(policiesQuery.data, scope)
    BY PolicyViewTyped
  <2>4. PICK days : days = DaysOf(form.text)
    OBVIOUS
  <2>5. days \in SUBSET Nat /\ form.to \in SUBSET Nat
    <3>1. form.text \in SUBSET (Nat \cup {NoText, Junk}) /\ form.to \in SUBSET Nat
      BY DEF FormOfPolicy
    <3> QED BY <2>4, <3>1 DEF DaysOf
  <2>6. policySave' = [phase |-> "sent", scope |-> scope, days |-> days, to |-> form.to, view |-> view]
    BY <1>3, <2>1, <2>2, <2>3, <2>4 DEF SubmitPolicy
  <2>7. policySave' \in PolicySaving
    BY <2>5, <2>6 DEF PolicySaving
  <2>8. view # NoData => form = Loaded(view)
    <3>1. which = "default" \/ selectedDomainId # 0
      BY <1>3 DEF SubmitPolicy, Shown
    <3> QED BY <2>1, <2>2, <2>3, <3>1 DEF PolicyFormInv
  <2>9. view # NoData => days = DaysOf(TextOf(view.days)) /\ form.to = view.to
    <3>1. view # NoData => Loaded(view).text = TextOf(view.days) /\ Loaded(view).to = view.to
      BY DEF Loaded
    <3> QED BY <2>4, <2>8, <3>1
  <2>10. policySave'.view = view /\ policySave'.days = days /\ policySave'.to = form.to
    BY <2>6
  <2> QED BY <2>7, <2>9, <2>10 DEF PolicySaveInv
<1>4. CASE PolicySaveHandled
  <2>1. policySave \in PolicySaving /\ policySave' = [policySave EXCEPT !.phase = "done"]
    BY <1>1, <1>2, <1>4 DEF PolicySaveHandled
  <2>2. policySave' \in PolicySaving /\ policySave'.phase = "done"
    BY <2>1 DEF PolicySaving
  <2> QED BY <2>2 DEF PolicySaveInv
<1>5. CASE policySave' = NotSent
  BY <1>2, <1>5 DEF PolicySaveInv
<1>6. CASE policySave' = policySave
  BY <1>1, <1>6 DEF PolicySaveInv
<1> QED BY <1>3, <1>4, <1>5, <1>6, NotificationsChange DEF PolicySaveStep, PolicySaved

\* The lists: a table that changes has its list fetched again before the change is told.
LEMMA ListsKept ==
    ASSUME NotificationsTypes, ListsInv, NotificationsNext
    PROVE  ListsInv'
<1>1. PICK E : E = EndpointTable \cup {NoData}
  OBVIOUS
<1>2. PICK P : P = PolicyTable \cup {NoData}
  OBVIOUS
<1>3. endpointsQuery \in QueryOf(E) /\ policiesQuery \in QueryOf(P)
  BY <1>1, <1>2 DEF NotificationsTypes
<1>4. /\ endpointSave = NotSent \/ endpointSave \in EndpointSaving
      /\ endpointDelete = NotSent \/ endpointDelete \in EndpointDeleting
      /\ policySave = NotSent \/ policySave \in PolicySaving
  BY DEF NotificationsTypes
<1>5. NotSent.phase = "idle"
  BY DEF NotSent
<1>6. ASSUME endpointSave'.phase # "done", endpointDelete'.phase # "done" PROVE UpToDate(endpointsQuery, endpointRows)'
  <2>1. CASE EndpointSaved \/ (EndpointDeleted /\ endpointsQuery' = Invalidated(endpointsQuery))
    <3>1. endpointsQuery' = Invalidated(endpointsQuery)
      BY <2>1 DEF EndpointSaved
    <3>2. UpToDate(Invalidated(endpointsQuery), endpointRows')
      BY <1>3, QueryRenewed
    <3> QED BY <3>1, <3>2
  <2>2. CASE ~(EndpointSaved \/ (EndpointDeleted /\ endpointsQuery' = Invalidated(endpointsQuery)))
    <3>1. endpointSave.phase # "done"
      <4>1. endpointSave' = endpointSave \/ SubmitEndpoint \/ EndpointSaveHandled \/ EndpointSaveFails
        BY <2>2, NotificationsChange DEF EndpointSaveStep
      <4> QED BY <1>6, <4>1 DEF SubmitEndpoint, EndpointSaveHandled, EndpointSaveFails
    <3>2. endpointDelete.phase # "done"
      <4>1. \/ endpointDelete' = endpointDelete \/ EndpointDeleteHandled \/ EndpointDeleteFails \/ EndpointDeleted
            \/ \E id \in DOMAIN endpointRows \cup Listed : DeleteEndpoint(id)
        BY NotificationsChange DEF EndpointDeleteStep
      <4> QED BY <1>6, <2>2, <4>1 DEF EndpointDeleteHandled, EndpointDeleteFails, EndpointDeleted, DeleteEndpoint
    <3>3. endpointRows' = endpointRows
      <4>1. EndpointSaveHandled => endpointRows' = endpointRows
        <5>1. EndpointSaveHandled /\ endpointRows' # endpointRows => endpointSave' = [endpointSave EXCEPT !.phase = "done"]
          BY DEF EndpointSaveHandled
        <5>2. EndpointSaveHandled => endpointSave \in EndpointSaving
          BY <1>4, <1>5 DEF EndpointSaveHandled
        <5>3. endpointSave \in EndpointSaving => [endpointSave EXCEPT !.phase = "done"].phase = "done"
          BY DEF EndpointSaving
        <5> QED BY <1>6, <5>1, <5>2, <5>3
      <4>2. EndpointDeleteHandled => endpointRows' = endpointRows
        <5>1. EndpointDeleteHandled => endpointDelete \in EndpointDeleting
          BY <1>4, <1>5 DEF EndpointDeleteHandled
        <5>2. endpointDelete \in EndpointDeleting => [endpointDelete EXCEPT !.phase = "done"].phase = "done"
          BY DEF EndpointDeleting
        <5>3. EndpointDeleteHandled => endpointDelete.id \notin DOMAIN endpointRows
          BY <1>6, <5>1, <5>2 DEF EndpointDeleteHandled
        <5> QED BY <5>3, EndpointRowDeleted
      <4> QED BY <4>1, <4>2, NotificationsChange
    <3>4. UpToDate(endpointsQuery, endpointRows)
      BY <3>1, <3>2 DEF ListsInv
    <3>5. \/ endpointsQuery' = endpointsQuery
          \/ endpointsQuery' = Answered(endpointsQuery, endpointRows)
          \/ endpointsQuery.flight = "answered" /\ endpointsQuery' = Settled(endpointsQuery)
      BY <2>2, NotificationsChange DEF ListsAnswered, EndpointsArrive, EndpointDeleted
    <3>6. /\ UpToDate(Answered(endpointsQuery, endpointRows), endpointRows)
          /\ endpointsQuery.flight = "answered" => UpToDate(Settled(endpointsQuery), endpointRows)
      BY <1>3, <3>4, QueryAnswers
    <3> QED BY <3>3, <3>4, <3>5, <3>6
  <2> QED BY <2>1, <2>2
<1>7. ASSUME policySave'.phase # "done" PROVE UpToDate(policiesQuery, policyRows)'
  <2>1. CASE policiesQuery' = Invalidated(policiesQuery)
    <3>1. UpToDate(Invalidated(policiesQuery), policyRows')
      BY <1>3, QueryRenewed
    <3> QED BY <2>1, <3>1
  <2>2. CASE policiesQuery' # Invalidated(policiesQuery)
    <3>1. ~PolicySaveHandled
      <4>1. PolicySaveHandled => policySave \in PolicySaving
        BY <1>4, <1>5 DEF PolicySaveHandled
      <4>2. policySave \in PolicySaving => [policySave EXCEPT !.phase = "done"].phase = "done"
        BY DEF PolicySaving
      <4> QED BY <1>7, <4>1, <4>2 DEF PolicySaveHandled
    <3>2. policySave.phase # "done"
      <4>1. \/ policySave' = policySave \/ PolicySaved
            \/ \E which \in {"default", "override"} : SubmitPolicy(which)
        BY <3>1, NotificationsChange DEF PolicySaveStep
      <4> QED BY <1>7, <2>2, <4>1 DEF PolicySaved, SubmitPolicy
    <3>3. policyRows' = policyRows
      BY <3>1, NotificationsChange
    <3>4. UpToDate(policiesQuery, policyRows)
      BY <3>2 DEF ListsInv
    <3>5. \/ policiesQuery' = policiesQuery
          \/ policiesQuery' = Answered(policiesQuery, policyRows)
          \/ policiesQuery.flight = "answered" /\ policiesQuery' = Settled(policiesQuery)
      BY <2>2, NotificationsChange DEF ListsAnswered, PoliciesArrive, EndpointDeleted, PolicySaved
    <3>6. /\ UpToDate(Answered(policiesQuery, policyRows), policyRows)
          /\ policiesQuery.flight = "answered" => UpToDate(Settled(policiesQuery), policyRows)
      BY <1>3, <3>4, QueryAnswers
    <3> QED BY <3>3, <3>4, <3>5, <3>6
  <2> QED BY <2>1, <2>2
<1> QED BY <1>6, <1>7 DEF ListsInv

LEMMA NotificationsStart == NotificationsInit => NotificationsInv
<1> SUFFICES ASSUME NotificationsInit PROVE NotificationsInv
  OBVIOUS
<1>1. endpointRows \in EndpointTable
  <2>1. {1} \in SUBSET Nat /\ endpointRows \in [{1} -> SavedEndpoint]
    BY NoEndpointType DEF NotificationsInit
  <2> QED BY <2>1, EndpointTableIntro
<1>2. policyRows \in PolicyTable
  <2>1. /\ 0 \in DOMAIN policyRows /\ DOMAIN policyRows \in SUBSET PolicyScope
        /\ policyRows \in [DOMAIN policyRows -> PolicyRow]
    BY NotificationsAssumption DEF NotificationsInit, PolicyScope, PolicyRow
  <2> QED BY <2>1, PolicyTableIntro
<1>3. ASSUME NEW S, NoData \in S PROVE Started(Blank) \in QueryOf(S) /\ Started(Blank).flight = "sent" /\ Started(Blank).data = NoData
  BY <1>3 DEF Started, Blank, QueryOf
<1>4. endpointsQuery \in QueryOf(EndpointTable \cup {NoData}) /\ policiesQuery \in QueryOf(PolicyTable \cup {NoData})
  BY <1>3 DEF NotificationsInit
<1>5. endpointsQuery.flight = "sent" /\ policiesQuery.flight = "sent" /\ policiesQuery.data = NoData
  <2>1. NoData \in {NoData}
    OBVIOUS
  <2> QED BY <1>3, <2>1 DEF NotificationsInit
<1>6. editingEndpoint \in [id : Nat, row : Endpoint] /\ editingEndpoint.id = 0
  BY NoEndpointType DEF NotificationsInit, NoOne
<1>7. endpointForm \in [values : Endpoint, touched : BOOLEAN]
  BY NoEndpointType DEF NotificationsInit
<1>8. Loaded(NoData) \in FormOfPolicy
  BY LoadedTyped
<1>9. /\ selectedDomainId = 0 /\ policyForms \in [{"default", "override"} -> FormOfPolicy]
      /\ policyForms["default"] = Loaded(NoData)
  BY <1>8 DEF NotificationsInit
<1>10. endpointSave = NotSent /\ endpointDelete = NotSent /\ policySave = NotSent /\ NotSent.phase = "idle" /\ sends = 0
  BY DEF NotificationsInit, NotSent
<1>11. NotificationsTypes
  BY <1>1, <1>2, <1>4, <1>6, <1>7, <1>9, <1>10 DEF NotificationsTypes, PolicyScope
<1>12. EditInv /\ EndpointSaveInv /\ PolicySaveInv
  BY <1>6, <1>10 DEF EditInv, EndpointSaveInv, PolicySaveInv
<1>13. PolicyFormInv
  BY <1>5, <1>9 DEF PolicyFormInv, PolicyView
<1>14. ListsInv
  BY <1>5 DEF ListsInv, UpToDate
<1> QED BY <1>11, <1>12, <1>13, <1>14 DEF NotificationsInv

LEMMA NotificationsStep == NotificationsInv /\ [NotificationsNext]_notificationsVars => NotificationsInv'
<1> SUFFICES ASSUME NotificationsInv, [NotificationsNext]_notificationsVars PROVE NotificationsInv'
  OBVIOUS
<1>1. CASE NotificationsNext
  <2>1. NotificationsTypes /\ EditInv /\ EndpointSaveInv /\ PolicySaveInv /\ PolicyFormInv /\ ListsInv
    BY DEF NotificationsInv
  <2>2. endpointRows' \in EndpointTable /\ policyRows' \in PolicyTable
    <3>1. endpointRows \in EndpointTable /\ policyRows \in PolicyTable
      BY <2>1 DEF NotificationsTypes
    <3> QED BY <1>1, <2>1, <3>1, NotificationsChange, EndpointRowsKept, EndpointRowDeleted, PolicyRowsKept
  <2>3. sends' \in Nat
    BY <1>1, <2>1, NotificationsChange DEF NotificationsTypes, PageSent
  <2>4. NotificationsTypes'
    BY <1>1, <2>1, <2>2, <2>3, ListsTyped, EditKept, ChoiceKept, EndpointSaveKept, EndpointDeleteKept, PolicySaveKept
       DEF NotificationsTypes
  <2>5. EditInv' /\ EndpointSaveInv' /\ PolicySaveInv' /\ PolicyFormInv' /\ ListsInv'
    BY <1>1, <2>1, EditKept, ChoiceKept, EndpointSaveKept, PolicySaveKept, ListsKept
  <2> QED BY <2>4, <2>5 DEF NotificationsInv
<1>2. CASE UNCHANGED notificationsVars
  BY <1>2 DEF notificationsVars, pageQueries, notices, editing, choosing, mutations, NotificationsInv, NotificationsTypes,
              EditInv, EndpointSaveInv, PolicySaveInv, PolicyFormInv, ListsInv, UpToDate, PolicyView
<1> QED BY <1>1, <1>2

\* The invariant of the notifications page (pages/notifications-page.tsx): the lists are those of
\* the server or about to be fetched again, an untouched form holds what it was given, and what
\* is sent of it is that.
THEOREM AlwaysNotificationsInv == NotificationsSpec => []NotificationsInv
  BY NotificationsStart, NotificationsStep, PTL DEF NotificationsSpec

LEMMA FreshNotifications == NotificationsInv => NotificationsFresh
<1> SUFFICES ASSUME NotificationsInv, endpointSave.phase = "idle", endpointDelete.phase = "idle", policySave.phase = "idle",
                    endpointsQuery.flight = "idle", policiesQuery.flight = "idle", ~endpointsQuery.old, ~policiesQuery.old
             PROVE  /\ endpointsQuery.data = endpointRows /\ policiesQuery.data = policyRows
                    /\ ~policyForms["default"].touched => policyForms["default"] = Loaded(policyRows[0])
                    /\ \A id \in Listed : EndpointCard(id).to # ""
  BY DEF NotificationsFresh
<1>1. endpointsQuery.data = endpointRows /\ policiesQuery.data = policyRows
  BY DEF NotificationsInv, ListsInv, UpToDate
<1>2. PolicyView(policyRows, 0) = policyRows[0]
  BY PolicyTableType DEF NotificationsInv, NotificationsTypes, PolicyView
<1>3. ~policyForms["default"].touched => policyForms["default"] = Loaded(policyRows[0])
  BY <1>1, <1>2 DEF NotificationsInv, PolicyFormInv
<1>4. ASSUME NEW id \in Listed PROVE EndpointCard(id).to # ""
  <2>1. endpointsQuery.data[id] \in SavedEndpoint
    BY ListedTyped DEF NotificationsInv
  <2> QED BY <2>1 DEF SavedEndpoint, EndpointCard
<1> QED BY <1>1, <1>3, <1>4

\* The lists and the default policy's form show what the server holds once nothing is under way,
\* and every card names a destination: save, delete and their onSuccess handlers leave no
\* interleaving of answers after which they would not.
THEOREM NotificationsAlwaysFresh == NotificationsSpec => []NotificationsFresh
  BY AlwaysNotificationsInv, FreshNotifications, PTL

LEMMA MaskedStays == NotificationsInv => MaskedEndpointKept
<1> SUFFICES ASSUME NotificationsInv, NEW id \in DOMAIN endpointRows
             PROVE  mergeEndpointConfig(EndpointPayload(endpointDefaults(MaskConfig(endpointRows[id]))), endpointRows[id])
                        = endpointRows[id]
  BY DEF MaskedEndpointKept
<1>1. endpointRows[id] \in SavedEndpoint
  BY EndpointTableType DEF NotificationsInv, NotificationsTypes
<1> QED BY <1>1, MergeSame

\* No mask is ever stored in the place of a credential: mergeEndpointConfig gives the stored
\* endpoint back when a client saves what it was shown of it.
THEOREM MaskedAlwaysKept == NotificationsSpec => []MaskedEndpointKept
  BY AlwaysNotificationsInv, MaskedStays, PTL

\* The days of a policy as text and back.
LEMMA DaysBack ==
    ASSUME NEW days \in SUBSET Nat, days # {} PROVE DaysOf(TextOf(days)) = days
<1>1. TextOf(days) = days /\ NoText \notin days /\ Junk \notin days
  BY NotificationsAssumption DEF TextOf
<1> QED BY <1>1 DEF DaysOf

LEMMA UntouchedPolicyStep ==
    ASSUME NotificationsInv, [NotificationsNext]_notificationsVars,
           policySave.phase = "sent", policySave'.phase = "done", policySave.view # NoData,
           policySave.scope \in DOMAIN policyRows, policyRows[policySave.scope] = policySave.view,
           policySave.view.days # {}
    PROVE  policyRows' = policyRows
<1>1. policySave.days = policySave.view.days /\ policySave.to = policySave.view.to /\ policySave.view \in PolicyRow
  <2>1. policySave.view \in PolicyRow
    BY DEF NotificationsInv, NotificationsTypes, PolicySaving, NotSent
  <2>2. policySave.days = DaysOf(TextOf(policySave.view.days)) /\ policySave.to = policySave.view.to
    BY DEF NotificationsInv, PolicySaveInv
  <2>3. policySave.view.days \in SUBSET Nat
    BY <2>1 DEF PolicyRow
  <2> QED BY <2>1, <2>2, <2>3, DaysBack
<1>2. CASE PolicySaveHandled
  <2>1. PICK row : row = [days |-> policySave.days, to |-> policySave.to]
    OBVIOUS
  <2>2. row = policyRows[policySave.scope]
    BY <1>1, <2>1 DEF PolicyRow
  <2>3. policyRows' = Upserted(policyRows, policySave.scope, row)
    BY <1>1, <1>2, <2>1 DEF PolicySaveHandled
  <2>4. policyRows \in [DOMAIN policyRows -> PolicyRow]
    BY PolicyTableType DEF NotificationsInv, NotificationsTypes
  <2> QED BY <2>2, <2>3, <2>4, UpsertedSame
<1>3. CASE ~PolicySaveHandled
  BY <1>3, NotificationsChange DEF notificationsVars
<1> QED BY <1>2, <1>3

LEMMA UntouchedPolicyWrites ==
    NotificationsInv /\ [NotificationsNext]_notificationsVars =>
        [(policySave.phase = "sent" /\ policySave'.phase = "done" /\ policySave.view # NoData
          /\ policySave.scope \in DOMAIN policyRows /\ policyRows[policySave.scope] = policySave.view
          /\ policySave.view.days # {})
          => policyRows' = policyRows]_notificationsVars
  BY UntouchedPolicyStep

\* Saving a policy form nobody has typed into writes the policy the form was given.
THEOREM UntouchedPolicyAlwaysKept == NotificationsSpec => UntouchedPolicyKept
  BY UntouchedPolicyWrites, AlwaysNotificationsInv, PTL DEF NotificationsSpec, UntouchedPolicyKept

LEMMA UntouchedEndpointStep ==
    ASSUME NotificationsInv, [NotificationsNext]_notificationsVars,
           endpointSave.phase = "sent", endpointSave'.phase = "done", endpointSave.untouched,
           endpointRows[endpointSave.id] = endpointSave.row
    PROVE  endpointRows' = endpointRows
<1>1. endpointSave.id # 0 /\ endpointSave.config = endpointSave.row /\ endpointSave \in EndpointSaving
  BY DEF NotificationsInv, EndpointSaveInv, NotificationsTypes, NotSent
<1>2. endpointSave.config \in SavedEndpoint
  BY <1>1 DEF EndpointSaving
<1>3. CASE EndpointSaveHandled
  <2>1. endpointSave' # [endpointSave EXCEPT !.phase = "refused"]
    BY <1>1 DEF EndpointSaving
  <2>2. /\ endpointSave.id \in DOMAIN endpointRows
        /\ endpointRows' = Upserted(endpointRows, endpointSave.id, mergeEndpointConfig(endpointSave.config, endpointRows[endpointSave.id]))
    BY <1>1, <1>3, <2>1 DEF EndpointSaveHandled
  <2>3. mergeEndpointConfig(endpointSave.config, endpointRows[endpointSave.id]) = endpointRows[endpointSave.id]
    BY <1>1, <1>2, MergeSame
  <2>4. endpointRows \in [DOMAIN endpointRows -> SavedEndpoint]
    BY EndpointTableType DEF NotificationsInv, NotificationsTypes
  <2> QED BY <2>2, <2>3, <2>4, UpsertedSame
<1>4. CASE ~EndpointSaveHandled /\ NotificationsNext
  <2>1. endpointSave' = endpointSave \/ SubmitEndpoint \/ endpointSave' = NotSent
    BY <1>4, NotificationsChange DEF EndpointSaveStep, EndpointSaved, EndpointSaveFails
  <2> QED BY <2>1 DEF SubmitEndpoint, NotSent
<1>5. CASE UNCHANGED notificationsVars
  BY <1>5 DEF notificationsVars
<1> QED BY <1>3, <1>4, <1>5

LEMMA UntouchedEndpointWrites ==
    NotificationsInv /\ [NotificationsNext]_notificationsVars =>
        [(endpointSave.phase = "sent" /\ endpointSave'.phase = "done" /\ endpointSave.untouched
          /\ endpointRows[endpointSave.id] = endpointSave.row)
          => endpointRows' = endpointRows]_notificationsVars
  BY UntouchedEndpointStep

\* Saving an endpoint nobody has changed in the form writes the endpoint there is, its
\* credentials included.
THEOREM UntouchedEndpointAlwaysKept == NotificationsSpec => UntouchedEndpointKept
  BY UntouchedEndpointWrites, AlwaysNotificationsInv, PTL DEF NotificationsSpec, UntouchedEndpointKept

-----------------------------------------------------------------------------
(* The administration page: the inductive invariant *)

Filters == {"all", "active", "disabled"}
ListKey == [filter : Filters, page : Nat \ {0}, sort : SortKeys]
RowShown == [id : TenantId, disabled : BOOLEAN]
SomeTenant == TenantId \cup {NoneChosen}

\* What the server may answer for a page: its own or the last one, full unless it is the last.
PageAnswer(p) ==
    {d \in [rows : Seq(RowShown), total : Nat, pages : Nat \ {0}] :
        /\ d.pages = Pages(d.total)
        /\ Len(d.rows) = Least(Least(p, d.pages) * PageSize, d.total) - (Least(p, d.pages) - 1) * PageSize
        /\ \A i, j \in DOMAIN d.rows : d.rows[i].id = d.rows[j].id => i = j}

Request == [phase : {"idle", "sent", "done", "refused", "refreshing"}, id : SomeTenant, disabled : BOOLEAN]
BulkRun == [phase : {"idle", "sent", "done", "refused", "finishing", "refreshing"},
            action : {"none", "enable", "disable", "delete"}, targets : Seq(TenantId), next : Nat, failed : Nat,
            tenant : SomeTenant]

AdminTypes ==
    /\ tenants \in SUBSET TenantId /\ blocked \in SUBSET TenantId
    /\ filter \in Filters /\ currentPage \in Nat \ {0} /\ sortKey \in SortKeys
    /\ selectedTenantId \in SomeTenant /\ activeModal \in Modal
    /\ details \in [TenantId -> QueryOf(RowShown \cup {NoData})]
    /\ mutation \in [Mutations -> Request]
    /\ bulk \in BulkRun
    /\ applied \in SUBSET TenantId /\ losses \in Nat

\* The queries of the keys looked at, the one shown among them.
AreQueries(ls) ==
    /\ ls = [k \in DOMAIN ls |-> ls[k]] /\ DOMAIN ls \in SUBSET ListKey
    /\ \A k \in DOMAIN ls : ls[k] \in QueryOf(PageAnswer(k.page) \cup {NoData})
QueriesInv == AreQueries(lists) /\ CurrentKey \in DOMAIN lists

\* The effect leaves no page past the last one.
PageInv == currentPage <= TotalPages(ListData)

Chosen(ids) == \E S \in SUBSET TenantId : Once(ids, S)
SelectionInv == Chosen(selectedTenantIds)

\* A change that the list still has to be fetched again for.
ListOwed == \/ mutation["status"].phase = "done" \/ mutation["delete"].phase = "done"
            \/ bulk.phase \in {"sent", "done", "refused", "finishing"}
ListInv == ~ListOwed => \A k \in DOMAIN lists : k = CurrentKey => UpToDate(lists[k], AdminTenantList(k))

\* A change that the detail of the tenant selected still has to be fetched again for.
DetailOwed == \/ mutation["status"].phase = "done"
              \/ mutation["status"].phase = "refreshing" /\ mutation["status"].id = selectedTenantId
              \/ bulk.phase # "idle" /\ bulk.tenant = selectedTenantId
DialogInv ==
    activeModal # "none" =>
        /\ selectedTenantId \in TenantId
        /\ ~DetailOwed => \A t \in tenants : t = selectedTenantId => UpToDate(details[t], TenantRow(t))

\* Of the targets, which come once each, the server has changed some of those it was asked for,
\* and all of those that are not counted as failed.
Reached == IF bulk.phase = "sent" THEN bulk.next - 1 ELSE bulk.next
Counted == IF bulk.phase \in {"sent", "refused"} THEN bulk.next - 1 ELSE bulk.next
BulkInv ==
    bulk.phase # "idle" =>
        /\ bulk.action # "none" /\ Chosen(bulk.targets) /\ bulk.next \in 1..Len(bulk.targets)
        /\ bulk.phase \in {"finishing", "refreshing"} => bulk.next = Len(bulk.targets)
        /\ applied \subseteq {bulk.targets[i] : i \in 1..Reached}
        /\ Counted - bulk.failed <= Cardinality(applied)
        /\ losses = 0 => Counted - bulk.failed = Cardinality(applied)

AdminInv == AdminTypes /\ QueriesInv /\ PageInv /\ SelectionInv /\ ListInv /\ DialogInv /\ BulkInv

-----------------------------------------------------------------------------
(* Pages *)

LEMMA Times ==
    ASSUME NEW a \in Int, NEW b \in Int, NEW c \in Nat, a <= b
    PROVE  a * c \in Int /\ b * c \in Int /\ a * c <= b * c
  OBVIOUS

\* So many rows fill all of the pages but the last, and the last at least by one.
LEMMA PagesHold ==
    ASSUME NEW n \in Nat
    PROVE  /\ Pages(n) \in Nat \ {0}
           /\ n # 0 => (Pages(n) - 1) * PageSize < n /\ n <= Pages(n) * PageSize
<1>1. PageSize \in Nat /\ PageSize > 0
  BY AdminAssumption
<1>2. CASE n = 0
  BY <1>2 DEF Pages
<1>3. CASE n # 0
  <2>1. PICK q : q = (n + PageSize - 1) \div PageSize
    OBVIOUS
  <2>2. q \in Int /\ q * PageSize <= n + PageSize - 1 /\ n + PageSize - 1 < (q + 1) * PageSize
    BY <1>1, <2>1
  <2>3. (q + 1) * PageSize = q * PageSize + PageSize /\ (q - 1) * PageSize = q * PageSize - PageSize /\ q * PageSize \in Int
    BY <1>1, <2>2
  <2>4. (q - 1) * PageSize < n /\ n <= q * PageSize
    BY <1>1, <2>2, <2>3
  <2>5. q > 0
    <3>1. q <= 0 => q * PageSize <= 0
      BY <1>1, <2>2
    <3>2. 0 < q * PageSize
      BY <1>3, <2>3, <2>4
    <3> QED BY <2>2, <2>3, <3>1, <3>2
  <2> QED BY <1>3, <2>1, <2>2, <2>4, <2>5 DEF Pages
<1> QED BY <1>2, <1>3

\* A page there is starts within the rows, and ends there; none is empty but that of no rows.
LEMMA PageWithin ==
    ASSUME NEW n \in Nat, NEW p \in 1..Pages(n)
    PROVE  /\ (p - 1) * PageSize \in Nat /\ p * PageSize = (p - 1) * PageSize + PageSize
           /\ Least(p * PageSize, n) \in Nat
           /\ (p - 1) * PageSize <= Least(p * PageSize, n) /\ Least(p * PageSize, n) <= n
           /\ n # 0 => (p - 1) * PageSize < Least(p * PageSize, n)
<1>1. PageSize \in Nat /\ PageSize > 0 /\ Pages(n) \in Nat \ {0}
  BY AdminAssumption, PagesHold
<1>2. p \in Nat /\ p - 1 \in Nat /\ p - 1 <= Pages(n) - 1
  BY <1>1
<1>3. (p - 1) * PageSize \in Nat /\ p * PageSize = (p - 1) * PageSize + PageSize
  BY <1>1, <1>2
<1>4. (p - 1) * PageSize <= (Pages(n) - 1) * PageSize /\ (Pages(n) - 1) * PageSize \in Int
  BY <1>1, <1>2, Times
<1>5. n # 0 => (p - 1) * PageSize < n
  BY <1>3, <1>4, PagesHold
<1>6. n = 0 => (p - 1) * PageSize = 0
  <2>1. n = 0 => Pages(n) = 1
    BY DEF Pages
  <2> QED BY <1>1, <2>1
<1>7. p * PageSize \in Nat /\ (p - 1) * PageSize < p * PageSize
  BY <1>1, <1>3
<1> QED BY <1>3, <1>5, <1>6, <1>7 DEF Least

LEMMA LeastOf == ASSUME NEW a \in Int, NEW b \in Int
                 PROVE  Least(a, b) \in {a, b} /\ Least(a, b) <= a /\ Least(a, b) <= b
  BY DEF Least

LEMMA MatchingType == ASSUME AdminTypes, NEW f PROVE f \in Filters => Matching(f) \in SUBSET TenantId
<1> SUFFICES ASSUME f \in Filters PROVE Matching(f) \in SUBSET TenantId
  OBVIOUS
<1>1. f = "all" \/ f = "active" \/ f = "disabled"
  BY DEF Filters
<1>2. f = "all" => Matching(f) = tenants
  BY DEF Matching
<1>3. f = "active" => Matching(f) = tenants \ blocked
  BY DEF Matching
<1>4. f = "disabled" => Matching(f) = tenants \cap blocked
  BY DEF Matching
<1> QED BY <1>1, <1>2, <1>3, <1>4 DEF AdminTypes

LEMMA SortedOnce ==
    ASSUME AdminTypes, NEW key \in ListKey
    PROVE  Once(Sorted(key), Matching(key.filter)) /\ Matching(key.filter) \in SUBSET TenantId
<1>1. key.filter \in Filters
  BY DEF ListKey
<1>2. PICK M \in SUBSET TenantId : M = Matching(key.filter)
  BY <1>1, MatchingType
<1>3. IsFiniteSet(M) /\ M \in SUBSET Int
  <2>1. IsFiniteSet(TenantId) /\ TenantId \in SUBSET Int
    BY AdminAssumption
  <2> QED BY <1>2, <2>1, FS_Subset
<1>4. PICK R : R = {r \in Int \X Int : IF key.sort[2] = "asc" THEN r[1] < r[2] ELSE r[1] > r[2]}
  OBVIOUS
<1>5. \A a, b \in M : <<a, b>> \in R <=> IF key.sort[2] = "asc" THEN a < b ELSE a > b
  BY <1>3, <1>4
<1>6. Orders(R, M)
  BY <1>3, <1>5 DEF Orders
<1>7. PICK s \in SetToSeqs(M) : \A i, j \in DOMAIN s : i < j => <<s[i], s[j]>> \in R
  BY <1>3, <1>6, OrderedExists
<1>8. s \in Seq(M)
  BY <1>3, ListIsOnto
<1>9. \A i, j \in DOMAIN s : i < j => IF key.sort[2] = "asc" THEN s[i] < s[j] ELSE s[i] > s[j]
  <2>1. \A i \in DOMAIN s : s[i] \in M
    BY <1>8
  <2> QED BY <1>5, <1>7, <2>1
<1>10. Sorted(key) \in SetToSeqs(M)
  BY <1>2, <1>7, <1>9 DEF Sorted
<1> QED BY <1>2, <1>3, <1>10, OnceListed

LEMMA RowShownType == ASSUME AdminTypes, NEW t \in TenantId
                      PROVE  TenantRow(t) \in RowShown /\ TenantRow(t).id = t
  BY DEF TenantRow, RowShown

LEMMA AnswerTyped ==
    ASSUME AdminTypes, NEW key \in ListKey
    PROVE  AdminTenantList(key) \in PageAnswer(key.page)
<1>1. PICK all : all = Sorted(key)
  OBVIOUS
<1>2. PICK n \in Nat : n = Len(all) /\ all \in Seq(TenantId) /\ \A i, j \in 1..n : all[i] = all[j] => i = j
  BY <1>1, SortedOnce DEF Once
<1>3. PICK p : p = Least(key.page, Pages(n))
  OBVIOUS
<1>4. key.page \in Nat \ {0} /\ Pages(n) \in Nat \ {0}
  BY PagesHold DEF ListKey
<1>5. p \in 1..Pages(n)
  BY <1>3, <1>4 DEF Least
<1>6. PICK off \in Nat : off = (p - 1) * PageSize
  BY <1>5, PageWithin
<1>7. PICK c : c = Least(p * PageSize, n) - off
  OBVIOUS
<1>8. c \in Nat /\ off + c <= n
  BY <1>5, <1>6, <1>7, PageWithin
<1>9. PICK rows : rows = [i \in 1..c |-> TenantRow(all[off + i])]
  OBVIOUS
<1>10. \A i \in 1..c : off + i \in 1..n /\ all[off + i] \in TenantId
  BY <1>2, <1>8
<1>11. \A i \in 1..c : rows[i] \in RowShown /\ rows[i].id = all[off + i]
  BY <1>9, <1>10, RowShownType
<1>12. rows \in Seq(RowShown) /\ Len(rows) = c /\ DOMAIN rows = 1..c
  <2>1. rows \in [1..c -> RowShown]
    BY <1>9, <1>11
  <2> QED BY <1>8, <2>1
<1>13. \A i, j \in DOMAIN rows : rows[i].id = rows[j].id => i = j
  BY <1>2, <1>10, <1>11, <1>12
<1>14. PICK d : d = [rows |-> rows, total |-> n, pages |-> Pages(n)]
  OBVIOUS
<1>15. AdminTenantList(key) = d
  BY <1>1, <1>2, <1>3, <1>6, <1>7, <1>9, <1>14 DEF AdminTenantList, PageOf
<1>16. d.rows = rows /\ d.total = n /\ d.pages = Pages(n)
  BY <1>14
<1>17. d \in [rows : Seq(RowShown), total : Nat, pages : Nat \ {0}]
  BY <1>4, <1>12, <1>14
<1>18. Len(rows) = Least(Least(key.page, Pages(n)) * PageSize, n) - (Least(key.page, Pages(n)) - 1) * PageSize
  BY <1>3, <1>6, <1>7, <1>12
<1> QED BY <1>13, <1>15, <1>16, <1>17, <1>18 DEF PageAnswer

-----------------------------------------------------------------------------
(* Queries of the list, and the pages the effect goes through *)

LEMMA QueryTyped ==
    ASSUME NEW ls, AreQueries(ls), NEW k \in ListKey
    PROVE  Query(ls, k) \in QueryOf(PageAnswer(k.page) \cup {NoData})
<1>1. Blank \in QueryOf(PageAnswer(k.page) \cup {NoData})
  BY DEF Blank, QueryOf
<1> QED BY <1>1 DEF Query, AreQueries

LEMMA TotalPagesTyped ==
    ASSUME NEW p, NEW q \in QueryOf(PageAnswer(p) \cup {NoData})
    PROVE  TotalPages(q.data) \in Nat \ {0}
<1>1. q.data = NoData \/ q.data \in PageAnswer(p)
  BY DEF QueryOf
<1> QED BY <1>1 DEF TotalPages, PageAnswer

LEMMA KeyType ==
    ASSUME NEW f \in Filters, NEW p \in Nat \ {0}, NEW s \in SortKeys
    PROVE  /\ Key(f, p, s) \in ListKey /\ Key(f, p, s).page = p /\ Key(f, p, s).filter = f /\ Key(f, p, s).sort = s
           /\ \A q \in Nat \ {0} : [Key(f, p, s) EXCEPT !.page = q] = Key(f, q, s)
  BY DEF Key, ListKey

LEMMA ClampPassed ==
    ASSUME NEW ls, AreQueries(ls), NEW key \in ListKey
    PROVE  /\ Passed(ls, key) \in SUBSET (1..key.page) /\ key.page \in Passed(ls, key)
           /\ Clamp(ls, key) \in Passed(ls, key)
           /\ Clamp(ls, key) <= LastPage(ls, key, Clamp(ls, key))
<1>1. key.page \in Nat \ {0}
  BY DEF ListKey
<1>2. Passed(ls, key) \in SUBSET (1..key.page) /\ key.page \in Passed(ls, key)
  BY <1>1 DEF Passed
<1>3. PICK m \in Passed(ls, key) : \A q \in Passed(ls, key) : m <= q
  <2>1. Passed(ls, key) \in SUBSET Nat /\ Passed(ls, key) # {}
    BY <1>1, <1>2
  <2> QED BY <2>1, LeastNatural
<1>4. Clamp(ls, key) \in Passed(ls, key) /\ \A q \in Passed(ls, key) : Clamp(ls, key) <= q
  BY <1>3 DEF Clamp
<1>5. PICK c \in 1..key.page : c = Clamp(ls, key)
  BY <1>2, <1>4
<1>6. PICK l \in Nat \ {0} : l = LastPage(ls, key, c)
  <2>1. [key EXCEPT !.page = c] \in ListKey
    BY <1>5 DEF ListKey
  <2> QED BY <2>1, QueryTyped, TotalPagesTyped DEF LastPage
<1>7. c > l => l \in Passed(ls, key)
  <2> SUFFICES ASSUME c > l,
                      NEW V \in SUBSET (1..key.page), key.page \in V,
                      \A q \in V : q > LastPage(ls, key, q) => LastPage(ls, key, q) \in V
               PROVE  l \in V
    <3>1. c > l => l \in 1..key.page
      BY <1>1, <1>5, <1>6
    <3> QED BY <3>1 DEF Passed
  <2>1. c \in V
    BY <1>4, <1>5 DEF Passed
  <2> QED BY <1>6, <2>1
<1>8. c <= l
  BY <1>4, <1>5, <1>6, <1>7
<1> QED BY <1>2, <1>4, <1>5, <1>6, <1>8

LEMMA RenderedQueries ==
    ASSUME NEW ls, AreQueries(ls), NEW keys \in SUBSET ListKey
    PROVE  /\ AreQueries(Rendered(ls, keys)) /\ DOMAIN Rendered(ls, keys) = DOMAIN ls \cup keys
           /\ \A k \in keys : Rendered(ls, keys)[k] = Mounted(Query(ls, k))
           /\ \A k \in DOMAIN ls \ keys : Rendered(ls, keys)[k] = ls[k]
           /\ \A k \in ListKey : Query(Rendered(ls, keys), k).data = Query(ls, k).data
<1>1. PICK r : r = Rendered(ls, keys)
  OBVIOUS
<1>2. PICK D : D = DOMAIN ls \cup keys
  OBVIOUS
<1>3. r = [k \in D |-> IF k \in keys THEN Mounted(Query(ls, k)) ELSE ls[k]]
  BY <1>1, <1>2 DEF Rendered
<1>4. D \in SUBSET ListKey
  BY <1>2 DEF AreQueries
<1>5. \A k \in keys : Mounted(Query(ls, k)) \in QueryOf(PageAnswer(k.page) \cup {NoData})
  <2> TAKE k \in keys
  <2>1. PICK S : S = PageAnswer(k.page) \cup {NoData}
    OBVIOUS
  <2>2. Query(ls, k) \in QueryOf(S) /\ NoData \in S
    BY <2>1, QueryTyped
  <2>3. Mounted(Query(ls, k)) \in QueryOf(S)
    BY <2>2, QueryStays
  <2> QED BY <2>1, <2>3
<1>6. \A k \in D : r[k] \in QueryOf(PageAnswer(k.page) \cup {NoData})
  BY <1>2, <1>3, <1>5 DEF AreQueries
<1>7. DOMAIN r = D /\ r = [k \in DOMAIN r |-> r[k]]
  BY <1>3
<1>8. AreQueries(r)
  BY <1>4, <1>6, <1>7 DEF AreQueries
<1>9. ASSUME NEW k \in ListKey PROVE Query(r, k).data = Query(ls, k).data
  <2>1. Query(ls, k) \in QueryOf(PageAnswer(k.page) \cup {NoData})
    BY QueryTyped
  <2>2. Mounted(Query(ls, k)).data = Query(ls, k).data
    BY <2>1 DEF QueryOf, Mounted, Started, Joined
  <2> QED BY <1>2, <1>3, <1>7, <2>2 DEF Query
<1> QED BY <1>1, <1>2, <1>3, <1>8, <1>9

\* One query of the list changed.
LEMMA QueriesExcept ==
    ASSUME NEW ls, AreQueries(ls), NEW k \in DOMAIN ls, NEW q \in QueryOf(PageAnswer(k.page) \cup {NoData})
    PROVE  /\ AreQueries([ls EXCEPT ![k] = q]) /\ DOMAIN [ls EXCEPT ![k] = q] = DOMAIN ls
           /\ [ls EXCEPT ![k] = q][k] = q /\ \A l \in DOMAIN ls \ {k} : [ls EXCEPT ![k] = q][l] = ls[l]
<1>1. PICK r : r = [ls EXCEPT ![k] = q]
  OBVIOUS
<1>2. ls = [l \in DOMAIN ls |-> ls[l]]
  BY DEF AreQueries
<1>3. DOMAIN r = DOMAIN ls /\ r = [l \in DOMAIN r |-> r[l]] /\ r[k] = q /\ \A l \in DOMAIN ls \ {k} : r[l] = ls[l]
  BY <1>1, <1>2
<1>4. \A l \in DOMAIN r : r[l] \in QueryOf(PageAnswer(l.page) \cup {NoData})
  BY <1>3 DEF AreQueries
<1>5. AreQueries(r)
  BY <1>3, <1>4 DEF AreQueries
<1> QED BY <1>1, <1>3, <1>5

-----------------------------------------------------------------------------
(* The administration page: what changes where *)

LookStep   == \/ \E f \in Filter : SetFilter(f)
              \/ \E column \in Column : HandleSort(column)
              \/ \E p \in 1..Cardinality(TenantId) : GoToPage(p)
SelectStep == \/ \E t \in TenantId : ToggleTenantSelection(t)
              \/ TogglePageSelection \/ ClearSelection
DialogStep == \/ \E t \in TenantId, dialog \in Modal \ {"none"} : OpenModal(t, dialog)
              \/ \E dialog \in {"access", "password"} : SwitchModal(dialog)
              \/ CloseModal
ClickStep  == ClickStatus \/ ClickDelete \/ SubmitPassword
BulkStart  == \E action \in {"enable", "disable", "delete"} : StartBulk(action)
HandledStep == \E m \in Mutations : Handled(m)
FailureStep == \E m \in Mutations : MutationFails(m)

LEMMA AdminChange ==
    ASSUME AdminNext
    PROVE  /\ HandledStep \/ BulkHandled \/ UNCHANGED tenantRows
           /\ LookStep \/ ListQuery \/ UNCHANGED <<filter, currentPage, sortKey>>
           /\ LookStep \/ ListQuery \/ FailureStep \/ StatusChanged \/ TenantDeleted \/ BulkFinishes \/ UNCHANGED lists
           /\ SelectStep \/ TenantDeleted \/ BulkFinishes \/ UNCHANGED selectedTenantIds
           /\ DialogStep \/ TenantDeleted \/ UNCHANGED <<selectedTenantId, activeModal>>
           /\ DialogStep \/ DetailQuery \/ FailureStep \/ StatusRefreshed \/ BulkHandled \/ BulkReports \/ UNCHANGED details
           /\ ClickStep \/ MutationStep \/ UNCHANGED mutation
           /\ BulkStart \/ BulkAction \/ UNCHANGED bulk
           /\ BulkStart \/ BulkHandled \/ UNCHANGED applied
           /\ losses' = losses \/ losses' = losses + 1
<1> DEFINE Goal == /\ HandledStep \/ BulkHandled \/ UNCHANGED tenantRows
                   /\ LookStep \/ ListQuery \/ UNCHANGED <<filter, currentPage, sortKey>>
                   /\ LookStep \/ ListQuery \/ FailureStep \/ StatusChanged \/ TenantDeleted \/ BulkFinishes \/ UNCHANGED lists
                   /\ SelectStep \/ TenantDeleted \/ BulkFinishes \/ UNCHANGED selectedTenantIds
                   /\ DialogStep \/ TenantDeleted \/ UNCHANGED <<selectedTenantId, activeModal>>
                   /\ DialogStep \/ DetailQuery \/ FailureStep \/ StatusRefreshed \/ BulkHandled \/ BulkReports \/ UNCHANGED details
                   /\ ClickStep \/ MutationStep \/ UNCHANGED mutation
                   /\ BulkStart \/ BulkAction \/ UNCHANGED bulk
                   /\ BulkStart \/ BulkHandled \/ UNCHANGED applied
                   /\ losses' = losses \/ losses' = losses + 1
<1>1. ASSUME LookStep PROVE Goal
  BY <1>1 DEF LookStep, SetFilter, HandleSort, GoToPage, tenantRows, modalVars, feedback
<1>2. ASSUME SelectStep PROVE Goal
  BY <1>2 DEF SelectStep, ToggleTenantSelection, TogglePageSelection, ClearSelection, tenantRows, listVars, modalVars
<1>3. ASSUME DialogStep PROVE Goal
  BY <1>3 DEF DialogStep, OpenModal, SwitchModal, CloseModal, tenantRows, listVars
<1>4. ASSUME ClickStep PROVE Goal
  BY <1>4 DEF ClickStep, ClickStatus, ClickDelete, SubmitPassword, tenantRows, listVars, modalVars
<1>5. ASSUME BulkStart PROVE Goal
  BY <1>5 DEF BulkStart, StartBulk, tenantRows, listVars, modalVars
<1>6. ASSUME ListQuery PROVE Goal
  BY <1>6 DEF ListQuery, ListAnswered, ListArrives, Lose, tenantRows, modalVars
<1>7. ASSUME DetailQuery PROVE Goal
  BY <1>7 DEF DetailQuery, DetailAnswered, DetailArrives, tenantRows, listVars
<1>8. ASSUME HandledStep PROVE Goal
  BY <1>8 DEF HandledStep, Handled, MutationStep, listVars, modalVars
<1>9. ASSUME FailureStep PROVE Goal
  BY <1>9 DEF FailureStep, MutationFails, MutationStep, Lose, tenantRows
<1>10. ASSUME StatusChanged \/ StatusRefreshed \/ PasswordChanged \/ TenantDeleted PROVE Goal
  BY <1>10 DEF StatusChanged, StatusRefreshed, PasswordChanged, TenantDeleted, MutationStep, tenantRows, listVars, modalVars
<1>11. ASSUME BulkHandled \/ BulkStep \/ BulkFinishes \/ BulkReports PROVE Goal
  BY <1>11 DEF BulkHandled, BulkStep, BulkFinishes, BulkReports, BulkAction, Lose, tenantRows, listVars, modalVars
<1> HIDE DEF Goal
<1>12. LookStep \/ SelectStep \/ DialogStep \/ ClickStep \/ BulkStart \/ ListQuery \/ DetailQuery \/ HandledStep \/ FailureStep
       \/ StatusChanged \/ StatusRefreshed \/ PasswordChanged \/ TenantDeleted \/ BulkHandled \/ BulkStep \/ BulkFinishes \/ BulkReports
  BY DEF AdminNext, LookStep, SelectStep, DialogStep, ClickStep, BulkStart, HandledStep, FailureStep, MutationStep, BulkAction
<1>13. Goal
  BY <1>1, <1>2, <1>3, <1>4, <1>5, <1>6, <1>7, <1>8, <1>9, <1>10, <1>11, <1>12
<1> QED BY <1>13 DEF Goal

\* What the handlers do to the tenants.
LEMMA ApplyChange ==
    ASSUME AdminTypes, NEW action \in {"enable", "disable", "delete", "password"}, NEW t, Apply(action, t)
    PROVE  /\ tenants' \in SUBSET TenantId /\ blocked' \in SUBSET TenantId
           /\ t \notin tenants \/ action = "password" => UNCHANGED tenantRows
           /\ \A u \in tenants' : u # t => TenantRow(u)' = TenantRow(u) /\ u \in tenants
           /\ t \in tenants' => t \in tenants /\ action # "delete"
<1>1. tenants \in SUBSET TenantId /\ blocked \in SUBSET TenantId
  BY DEF AdminTypes
<1>2. CASE t \notin tenants
  BY <1>1, <1>2 DEF Apply, tenantRows, TenantRow
<1>3. CASE t \in tenants /\ action = "password"
  BY <1>1, <1>3 DEF Apply, tenantRows, TenantRow
<1>4. CASE t \in tenants /\ action # "password"
  <2>1. \/ tenants' = tenants \ {t} /\ blocked' = blocked \ {t}
        \/ tenants' = tenants /\ blocked' \in {blocked \cup {t}, blocked \ {t}}
    BY <1>4 DEF Apply
  <2>2. tenants' \in SUBSET TenantId /\ blocked' \in SUBSET TenantId /\ tenants' \subseteq tenants
    BY <1>1, <1>4, <2>1
  <2>3. \A u \in tenants' : u # t => (u \in blocked' <=> u \in blocked)
    BY <2>1
  <2>4. \A u \in tenants' : u # t => TenantRow(u)' = TenantRow(u)
    BY <2>3 DEF TenantRow
  <2>5. action = "delete" => t \notin tenants'
    BY <1>4 DEF Apply
  <2> QED BY <1>4, <2>2, <2>4, <2>5
<1> QED BY <1>2, <1>3, <1>4

\* The requests of the page and of its loop, as what they apply.
LEMMA HandledApplies ==
    ASSUME AdminTypes, NEW m \in Mutations, Handled(m)
    PROVE  \E action \in {"enable", "disable", "delete", "password"} :
              /\ Apply(action, mutation[m].id) /\ (m # "status" => action = m)
<1>1. PICK action : action = IF m = "status" THEN (IF mutation[m].disabled THEN "disable" ELSE "enable") ELSE m
  OBVIOUS
<1>2. action \in {"enable", "disable", "delete", "password"} /\ (m # "status" => action = m)
  BY <1>1 DEF Mutations
<1>3. Apply(action, mutation[m].id)
  BY <1>1 DEF Handled
<1> QED BY <1>2, <1>3

LEMMA TargetType ==
    ASSUME AdminTypes, BulkInv, bulk.phase # "idle"
    PROVE  Target \in TenantId /\ bulk.action \in {"enable", "disable", "delete", "password"}
<1>1. bulk.targets \in Seq(TenantId) /\ bulk.next \in 1..Len(bulk.targets)
  BY DEF AdminTypes, BulkInv, BulkRun
<1>2. bulk.action \in {"enable", "disable", "delete", "password"}
  BY DEF AdminTypes, BulkInv, BulkRun
<1> QED BY <1>1, <1>2 DEF Target

LEMMA TenantsKept ==
    ASSUME AdminTypes, BulkInv, AdminNext
    PROVE  tenants' \in SUBSET TenantId /\ blocked' \in SUBSET TenantId
<1>1. ASSUME NEW m \in Mutations, Handled(m) PROVE tenants' \in SUBSET TenantId /\ blocked' \in SUBSET TenantId
  BY <1>1, HandledApplies, ApplyChange
<1>2. BulkHandled => tenants' \in SUBSET TenantId /\ blocked' \in SUBSET TenantId
  BY TargetType, ApplyChange DEF BulkHandled
<1>3. HandledStep \/ BulkHandled \/ UNCHANGED tenantRows
  BY AdminChange
<1> QED BY <1>1, <1>2, <1>3 DEF HandledStep, tenantRows, AdminTypes

\* The three ways the list and its queries change: another key is rendered, an answer comes
\* or is taken, or a query is started again or said to be old.
LEMMA ListsChange ==
    ASSUME AdminTypes, QueriesInv, AdminNext
    PROVE  \/ LookStep /\ \E f \in Filters, p \in Nat \ {0}, s \in SortKeys : Render(f, p, s)
           \/ \E k \in DOMAIN lists : ListAnswered(k) \/ ListArrives(k)
           \/ /\ UNCHANGED <<filter, currentPage, sortKey>>
              /\ \/ UNCHANGED lists
                 \/ FailureStep /\ lists' = [k \in DOMAIN lists |-> Outdated(lists[k])]
                 \/ (StatusChanged \/ TenantDeleted \/ BulkFinishes) /\ lists' = [lists EXCEPT ![CurrentKey] = Invalidated(@)]
<1>1. ASSUME LookStep PROVE \E f \in Filters, p \in Nat \ {0}, s \in SortKeys : Render(f, p, s)
  <2>1. filter \in Filters /\ sortKey \in SortKeys /\ 1 \in Nat \ {0}
    BY DEF AdminTypes
  <2>2. ASSUME NEW f \in Filter, SetFilter(f) PROVE \E g \in Filters, p \in Nat \ {0}, s \in SortKeys : Render(g, p, s)
    <3>1. f \in Filters /\ Render(f, 1, sortKey)
      BY <2>2, AdminAssumption DEF SetFilter, Filters
    <3> QED BY <2>1, <3>1
  <2>3. ASSUME NEW column \in Column, HandleSort(column) PROVE \E g \in Filters, p \in Nat \ {0}, s \in SortKeys : Render(g, p, s)
    <3>1. PICK s : s = <<column, IF column = sortKey[1] /\ sortKey[2] = "asc" THEN "desc" ELSE "asc">>
      OBVIOUS
    <3>2. s \in SortKeys
      BY <3>1 DEF SortKeys
    <3>3. Render(filter, 1, s)
      BY <2>3, <3>1 DEF HandleSort
    <3> QED BY <2>1, <3>2, <3>3
  <2>4. ASSUME NEW p \in 1..Cardinality(TenantId), GoToPage(p) PROVE \E g \in Filters, q \in Nat \ {0}, s \in SortKeys : Render(g, q, s)
    <3>1. p \in Nat \ {0}
      BY AdminAssumption, FS_CardinalityType
    <3> QED BY <2>1, <2>4, <3>1 DEF GoToPage
  <2> QED BY <1>1, <2>2, <2>3, <2>4 DEF LookStep
<1>2. FailureStep => lists' = lists \/ lists' = [k \in DOMAIN lists |-> Outdated(lists[k])]
  BY DEF FailureStep, MutationFails
<1>3. StatusChanged \/ TenantDeleted \/ BulkFinishes => lists' = [lists EXCEPT ![CurrentKey] = Invalidated(@)]
  BY DEF StatusChanged, TenantDeleted, BulkFinishes
<1> QED BY <1>1, <1>2, <1>3, AdminChange DEF ListQuery

-----------------------------------------------------------------------------
(* The requests of the dialogs *)

\* r is mutation with the request m in phase p, about i.
Puts(r, m, p, i) ==
    \/ r = [mutation EXCEPT ![m].phase = p, ![m].id = i]
    \/ r = [mutation EXCEPT ![m].phase = p, ![m].id = i, ![m].disabled = FALSE]
    \/ \E d \in BOOLEAN : r = [mutation EXCEPT ![m] = [phase |-> p, id |-> i, disabled |-> d]]
    \/ i = mutation[m].id /\ r = [mutation EXCEPT ![m].phase = p]

LEMMA RequestPut ==
    ASSUME AdminTypes, NEW m \in Mutations, NEW p, p \in {"idle", "sent", "done", "refused", "refreshing"}, NEW i \in SomeTenant,
           NEW r, Puts(r, m, p, i)
    PROVE  r \in [Mutations -> Request] /\ r[m].phase = p /\ r[m].id = i /\ \A n \in Mutations \ {m} : r[n] = mutation[n]
<1>1. mutation \in [Mutations -> Request]
  BY DEF AdminTypes
<1>2. PICK old \in Request : old = mutation[m]
  BY <1>1
<1>3. ASSUME NEW q \in Request, q.phase = p, q.id = i, r = [mutation EXCEPT ![m] = q]
      PROVE  r \in [Mutations -> Request] /\ r[m].phase = p /\ r[m].id = i /\ \A n \in Mutations \ {m} : r[n] = mutation[n]
  BY <1>1, <1>3
<1>4. CASE r = [mutation EXCEPT ![m].phase = p, ![m].id = i]
  <2>1. PICK q : q = [old EXCEPT !.phase = p, !.id = i]
    OBVIOUS
  <2>2. q \in Request /\ q.phase = p /\ q.id = i
    BY <2>1 DEF Request
  <2>3. r = [mutation EXCEPT ![m] = q]
    BY <1>1, <1>2, <1>4, <2>1
  <2> QED BY <1>3, <2>2, <2>3
<1>5. CASE r = [mutation EXCEPT ![m].phase = p, ![m].id = i, ![m].disabled = FALSE]
  <2>1. PICK q : q = [old EXCEPT !.phase = p, !.id = i, !.disabled = FALSE]
    OBVIOUS
  <2>2. q \in Request /\ q.phase = p /\ q.id = i
    BY <2>1 DEF Request
  <2>3. r = [mutation EXCEPT ![m] = q]
    BY <1>1, <1>2, <1>5, <2>1
  <2> QED BY <1>3, <2>2, <2>3
<1>6. ASSUME NEW d \in BOOLEAN, r = [mutation EXCEPT ![m] = [phase |-> p, id |-> i, disabled |-> d]]
      PROVE  r \in [Mutations -> Request] /\ r[m].phase = p /\ r[m].id = i /\ \A n \in Mutations \ {m} : r[n] = mutation[n]
  <2>1. PICK q : q = [phase |-> p, id |-> i, disabled |-> d]
    OBVIOUS
  <2>2. q \in Request /\ q.phase = p /\ q.id = i
    BY <2>1 DEF Request
  <2> QED BY <1>3, <1>6, <2>1, <2>2
<1>7. CASE i = mutation[m].id /\ r = [mutation EXCEPT ![m].phase = p]
  <2>1. PICK q : q = [old EXCEPT !.phase = p]
    OBVIOUS
  <2>2. q \in Request /\ q.phase = p /\ q.id = i
    BY <1>2, <1>7, <2>1 DEF Request
  <2>3. r = [mutation EXCEPT ![m] = q]
    BY <1>1, <1>2, <1>7, <2>1
  <2> QED BY <1>3, <2>2, <2>3
<1> QED BY <1>4, <1>5, <1>6, <1>7 DEF Puts

\* How a request goes on, each on its own.
RequestGoesOn(m) ==
    \/ mutation'[m] = mutation[m]
    \/ ClickStep /\ mutation[m].phase = "idle" /\ mutation'[m].phase = "sent"
    \/ /\ Handled(m) /\ mutation[m].phase = "sent"
       /\ mutation'[m].phase = IF mutation[m].id \in tenants THEN "done" ELSE "refused"
    \/ MutationFails(m) /\ mutation[m].phase \in {"refused", "done"} /\ mutation'[m].phase = "idle"
    \/ m = "status" /\ StatusChanged /\ mutation'[m].phase = "refreshing" /\ mutation'[m].id = selectedTenantId
    \/ m = "status" /\ StatusRefreshed /\ mutation'[m].phase = "idle"
    \/ m = "delete" /\ TenantDeleted /\ mutation'[m].phase = "idle"
    \/ m = "password" /\ PasswordChanged /\ mutation'[m].phase = "idle"

LEMMA RequestsKept ==
    ASSUME AdminTypes, AdminNext
    PROVE  mutation' \in [Mutations -> Request] /\ \A m \in Mutations : RequestGoesOn(m)
<1> DEFINE Goal == mutation' \in [Mutations -> Request] /\ \A m \in Mutations : RequestGoesOn(m)
<1>1. /\ mutation \in [Mutations -> Request] /\ selectedTenantId \in SomeTenant /\ NoneChosen \in SomeTenant
      /\ "status" \in Mutations /\ "delete" \in Mutations /\ "password" \in Mutations
  BY DEF AdminTypes, SomeTenant, Mutations
<1>2. ASSUME NEW m \in Mutations, NEW d, mutation[m].phase = "idle", Send(m, d), d \in BOOLEAN, ClickStep PROVE Goal
  <2>1. mutation' = [mutation EXCEPT ![m] = [phase |-> "sent", id |-> selectedTenantId, disabled |-> d]]
    BY <1>2 DEF Send
  <2>2. Puts(mutation', m, "sent", selectedTenantId)
    BY <1>2, <2>1 DEF Puts
  <2>3. mutation' \in [Mutations -> Request] /\ mutation'[m].phase = "sent" /\ \A n \in Mutations \ {m} : mutation'[n] = mutation[n]
    BY <1>1, <2>2, RequestPut
  <2> QED BY <1>2, <2>3 DEF RequestGoesOn
<1>3. CASE ClickStatus
  <2>1. PICK d \in BOOLEAN : d = ~details[selectedTenantId].data.disabled
    OBVIOUS
  <2>2. Send("status", d) /\ mutation["status"].phase = "idle"
    BY <1>3, <2>1 DEF ClickStatus
  <2> QED BY <1>1, <1>2, <1>3, <2>2 DEF ClickStep
<1>4. CASE ClickDelete
  <2>1. Send("delete", FALSE) /\ mutation["delete"].phase = "idle"
    BY <1>4 DEF ClickDelete
  <2> QED BY <1>1, <1>2, <1>4, <2>1 DEF ClickStep
<1>5. CASE SubmitPassword
  <2>1. Send("password", FALSE) /\ mutation["password"].phase = "idle"
    BY <1>5 DEF SubmitPassword
  <2> QED BY <1>1, <1>2, <1>5, <2>1 DEF ClickStep
<1>6. ASSUME NEW m \in Mutations, Handled(m) PROVE Goal
  <2>1. PICK p \in {"done", "refused"} : p = IF mutation[m].id \in tenants THEN "done" ELSE "refused"
    OBVIOUS
  <2>2. mutation' = [mutation EXCEPT ![m].phase = p] /\ mutation[m].phase = "sent"
    BY <1>6, <2>1 DEF Handled
  <2>3. PICK i \in SomeTenant : i = mutation[m].id
    BY <1>1 DEF Request
  <2>4. Puts(mutation', m, p, i) /\ p \in {"idle", "sent", "done", "refused", "refreshing"}
    BY <2>1, <2>2, <2>3 DEF Puts
  <2>5. mutation' \in [Mutations -> Request] /\ mutation'[m].phase = p /\ \A n \in Mutations \ {m} : mutation'[n] = mutation[n]
    BY <2>4, RequestPut
  <2> QED BY <1>6, <2>1, <2>2, <2>5 DEF RequestGoesOn
<1>7. ASSUME NEW m \in Mutations, MutationFails(m) PROVE Goal
  <2>1. mutation' = [mutation EXCEPT ![m].phase = "idle", ![m].id = NoneChosen, ![m].disabled = FALSE]
        /\ mutation[m].phase \in {"refused", "done"}
    BY <1>7 DEF MutationFails
  <2>2. Puts(mutation', m, "idle", NoneChosen)
    BY <2>1 DEF Puts
  <2>3. mutation' \in [Mutations -> Request] /\ mutation'[m].phase = "idle" /\ \A n \in Mutations \ {m} : mutation'[n] = mutation[n]
    BY <1>1, <2>2, RequestPut
  <2> QED BY <1>7, <2>1, <2>3 DEF RequestGoesOn
<1>8. CASE StatusChanged
  <2>1. mutation' = [mutation EXCEPT !["status"].phase = "refreshing", !["status"].id = selectedTenantId]
    BY <1>8 DEF StatusChanged
  <2>2. Puts(mutation', "status", "refreshing", selectedTenantId)
    BY <2>1 DEF Puts
  <2>3. /\ mutation' \in [Mutations -> Request] /\ mutation'["status"].phase = "refreshing" /\ mutation'["status"].id = selectedTenantId
        /\ \A n \in Mutations \ {"status"} : mutation'[n] = mutation[n]
    BY <1>1, <2>2, RequestPut
  <2> QED BY <1>8, <2>3 DEF RequestGoesOn
<1>9. CASE StatusRefreshed
  <2>1. mutation' = [mutation EXCEPT !["status"].phase = "idle", !["status"].id = NoneChosen, !["status"].disabled = FALSE]
    BY <1>9 DEF StatusRefreshed
  <2>2. Puts(mutation', "status", "idle", NoneChosen)
    BY <2>1 DEF Puts
  <2>3. /\ mutation' \in [Mutations -> Request] /\ mutation'["status"].phase = "idle"
        /\ \A n \in Mutations \ {"status"} : mutation'[n] = mutation[n]
    BY <1>1, <2>2, RequestPut
  <2> QED BY <1>9, <2>3 DEF RequestGoesOn
<1>10. CASE PasswordChanged
  <2>1. mutation' = [mutation EXCEPT !["password"].phase = "idle", !["password"].id = NoneChosen]
    BY <1>10 DEF PasswordChanged
  <2>2. Puts(mutation', "password", "idle", NoneChosen)
    BY <2>1 DEF Puts
  <2>3. /\ mutation' \in [Mutations -> Request] /\ mutation'["password"].phase = "idle"
        /\ \A n \in Mutations \ {"password"} : mutation'[n] = mutation[n]
    BY <1>1, <2>2, RequestPut
  <2> QED BY <1>10, <2>3 DEF RequestGoesOn
<1>11. CASE TenantDeleted
  <2>1. mutation' = [mutation EXCEPT !["delete"].phase = "idle", !["delete"].id = NoneChosen]
    BY <1>11 DEF TenantDeleted
  <2>2. Puts(mutation', "delete", "idle", NoneChosen)
    BY <2>1 DEF Puts
  <2>3. /\ mutation' \in [Mutations -> Request] /\ mutation'["delete"].phase = "idle"
        /\ \A n \in Mutations \ {"delete"} : mutation'[n] = mutation[n]
    BY <1>1, <2>2, RequestPut
  <2> QED BY <1>11, <2>3 DEF RequestGoesOn
<1>12. CASE UNCHANGED mutation
  BY <1>1, <1>12 DEF RequestGoesOn
<1>13. ClickStep \/ MutationStep \/ UNCHANGED mutation
  BY AdminChange
<1> QED BY <1>3, <1>4, <1>5, <1>6, <1>7, <1>8, <1>9, <1>10, <1>11, <1>12, <1>13 DEF ClickStep, MutationStep

-----------------------------------------------------------------------------
(* The bulk action *)

BulkGoesOn ==
    \/ UNCHANGED bulk
    \/ BulkStart /\ bulk.phase = "idle" /\ activeModal = "none" /\ bulk'.phase = "sent" /\ bulk'.tenant = selectedTenantId
    \/ BulkHandled /\ bulk.phase = "sent" /\ bulk'.phase \in {"done", "refused"} /\ bulk'.tenant = bulk.tenant
    \/ /\ BulkStep /\ bulk.phase \in {"sent", "done", "refused"} /\ bulk'.phase \in {"finishing", "sent"}
       /\ bulk'.tenant = bulk.tenant
    \/ BulkFinishes /\ bulk.phase = "finishing" /\ bulk'.phase = "refreshing" /\ bulk'.tenant = bulk.tenant
    \/ BulkReports /\ bulk.phase = "refreshing" /\ bulk'.phase = "idle"

LEMMA BulkKept ==
    ASSUME AdminTypes, SelectionInv, BulkInv, AdminNext
    PROVE  /\ bulk' \in BulkRun /\ applied' \in SUBSET TenantId
           /\ BulkInv' /\ BulkGoesOn
<1> DEFINE Goal == bulk' \in BulkRun /\ applied' \in SUBSET TenantId /\ BulkInv' /\ BulkGoesOn
<1>1. bulk \in BulkRun /\ applied \in SUBSET TenantId /\ losses \in Nat
  BY DEF AdminTypes
<1>2. losses' = losses \/ losses' = losses + 1
  BY AdminChange
<1>3. losses' \in Nat /\ (losses' = 0 => losses = 0)
  BY <1>1, <1>2
<1>4. \A S \in SUBSET TenantId : IsFiniteSet(S) /\ Cardinality(S) \in Nat
  BY AdminAssumption, FS_Subset, FS_CardinalityType
<1>5. ASSUME NEW action \in {"enable", "disable", "delete"}, StartBulk(action) PROVE Goal
  <2>1. PICK S \in SUBSET TenantId : Once(selectedTenantIds, S)
    BY DEF SelectionInv, Chosen
  <2>2. /\ bulk' = [phase |-> "sent", action |-> action, targets |-> selectedTenantIds, next |-> 1, failed |-> 0, tenant |-> selectedTenantId]
        /\ applied' = {} /\ selectedTenantIds # <<>> /\ bulk.phase = "idle" /\ activeModal = "none"
    BY <1>5 DEF StartBulk
  <2>3. /\ bulk'.phase = "sent" /\ bulk'.action = action /\ bulk'.targets = selectedTenantIds /\ bulk'.next = 1 /\ bulk'.failed = 0
        /\ bulk'.tenant = selectedTenantId
    BY <2>2
  <2>4. selectedTenantIds \in Seq(TenantId) /\ Len(selectedTenantIds) \in Nat \ {0}
    BY <2>1, <2>2 DEF Once
  <2>5. bulk' \in BulkRun
    BY <2>2, <2>4 DEF BulkRun, AdminTypes
  <2>6. Cardinality({}) = 0
    BY FS_EmptySet
  <2>7. Reached' = 0 /\ Counted' = 0
    BY <2>3 DEF Reached, Counted
  <2>8. BulkInv'
    BY <1>5, <2>1, <2>2, <2>3, <2>4, <2>6, <2>7 DEF BulkInv, Chosen
  <2> QED BY <1>5, <2>2, <2>3, <2>5, <2>8 DEF BulkGoesOn, BulkStart
<1>6. ASSUME bulk.phase # "idle"
      PROVE  /\ bulk.action # "none" /\ Chosen(bulk.targets) /\ bulk.targets \in Seq(TenantId)
             /\ bulk.next \in 1..Len(bulk.targets) /\ bulk.failed \in Nat /\ Len(bulk.targets) \in Nat /\ bulk.next \in Nat
             /\ bulk.phase \in {"finishing", "refreshing"} => bulk.next = Len(bulk.targets)
             /\ applied \subseteq {bulk.targets[i] : i \in 1..Reached}
             /\ Counted - bulk.failed <= Cardinality(applied)
             /\ losses = 0 => Counted - bulk.failed = Cardinality(applied)
  BY <1>1, <1>6 DEF BulkInv, BulkRun
<1>7. CASE BulkHandled
  <2>1. PICK p \in {"done", "refused"} : p = IF Target \in tenants THEN "done" ELSE "refused"
    OBVIOUS
  <2>2. /\ bulk' = [bulk EXCEPT !.phase = p] /\ bulk.phase = "sent"
        /\ applied' = IF Target \in tenants THEN applied \cup {Target} ELSE applied
    BY <1>7, <2>1 DEF BulkHandled
  <2>3. /\ bulk'.phase = p /\ bulk'.action = bulk.action /\ bulk'.targets = bulk.targets /\ bulk'.next = bulk.next
        /\ bulk'.failed = bulk.failed /\ bulk'.tenant = bulk.tenant /\ bulk' \in BulkRun
    BY <1>1, <2>2 DEF BulkRun
  <2>4. PICK t \in TenantId : t = Target /\ t = bulk.targets[bulk.next]
    BY <2>2, TargetType DEF Target
  <2>5. Reached = bulk.next - 1 /\ Counted = bulk.next - 1 /\ Reached' = bulk.next
    BY <2>1, <2>2, <2>3 DEF Reached, Counted
  <2>6. Counted' = IF p = "done" THEN bulk.next ELSE bulk.next - 1
    BY <2>3 DEF Counted
  <2>7. t \notin applied
    <3>1. PICK S \in SUBSET TenantId : Once(bulk.targets, S)
      BY <1>6, <2>2 DEF Chosen
    <3>2. \A i \in 1..(bulk.next - 1) : i \in 1..Len(bulk.targets) /\ i # bulk.next
      BY <1>6, <2>2
    <3>3. \A i \in 1..(bulk.next - 1) : bulk.targets[i] # t
      BY <1>6, <2>2, <2>4, <3>1, <3>2 DEF Once
    <3> QED BY <1>6, <2>2, <2>5, <3>3
  <2>8. applied' \in SUBSET TenantId /\ applied' \subseteq {bulk.targets[i] : i \in 1..bulk.next}
    <3>1. applied \subseteq {bulk.targets[i] : i \in 1..(bulk.next - 1)}
      BY <1>6, <2>2, <2>5
    <3>2. \A i \in 1..(bulk.next - 1) : i \in 1..bulk.next
      BY <1>6, <2>2
    <3>3. bulk.next \in 1..bulk.next
      BY <1>6, <2>2
    <3> QED BY <1>1, <2>2, <2>4, <3>1, <3>2, <3>3
  <2>9. Cardinality(applied \cup {t}) = Cardinality(applied) + 1
    BY <1>1, <1>4, <2>7, FS_AddElement
  <2>10. /\ Counted' - bulk.failed <= Cardinality(applied')
         /\ losses' = 0 => Counted' - bulk.failed = Cardinality(applied')
    <3>0. PICK c \in Nat : c = Cardinality(applied)
      BY <1>1, <1>4
    <3>1. CASE p = "done"
      <4>1. applied' = applied \cup {t}
        BY <2>1, <2>2, <2>4, <3>1
      <4>2. Cardinality(applied') = c + 1 /\ Counted' = bulk.next
        BY <2>6, <2>9, <3>0, <3>1, <4>1
      <4> QED BY <1>3, <1>6, <2>2, <2>5, <3>0, <4>2
    <3>2. CASE p = "refused"
      <4>1. applied' = applied
        BY <2>1, <2>2, <3>2
      <4>2. Cardinality(applied') = c /\ Counted' = bulk.next - 1
        BY <2>6, <3>0, <3>2, <4>1
      <4> QED BY <1>3, <1>6, <2>2, <2>5, <3>0, <4>2
    <3> QED BY <3>1, <3>2
  <2>11. BulkInv'
    BY <1>6, <2>2, <2>3, <2>5, <2>8, <2>10 DEF BulkInv, Chosen
  <2> QED BY <1>7, <2>2, <2>3, <2>8, <2>11 DEF BulkGoesOn
<1>8. CASE BulkStep
  <2>1. PICK p \in {"finishing", "sent"} : p = IF bulk.next = Len(bulk.targets) THEN "finishing" ELSE "sent"
    OBVIOUS
  <2>2. PICK n : n = IF bulk.next = Len(bulk.targets) THEN bulk.next ELSE bulk.next + 1
    OBVIOUS
  <2>3. PICK f : f = IF bulk.phase = "refused" \/ losses' # losses THEN bulk.failed + 1 ELSE bulk.failed
    OBVIOUS
  <2>4. bulk' = [bulk EXCEPT !.phase = p, !.next = n, !.failed = f] /\ UNCHANGED applied
    BY <1>8, <2>1, <2>2, <2>3 DEF BulkStep
  <2>5. /\ bulk.phase \in {"sent", "done", "refused"} /\ bulk.phase # "idle"
        /\ bulk.phase = "sent" => losses' = losses + 1
        /\ bulk.phase = "refused" => losses' = losses
    BY <1>8 DEF BulkStep, Lose
  <2>6. n \in 1..Len(bulk.targets) /\ n \in Nat /\ f \in Nat
    BY <1>6, <2>2, <2>3, <2>5
  <2>7. /\ bulk'.phase = p /\ bulk'.action = bulk.action /\ bulk'.targets = bulk.targets /\ bulk'.next = n
        /\ bulk'.failed = f /\ bulk'.tenant = bulk.tenant /\ bulk' \in BulkRun
    BY <1>1, <2>4, <2>6 DEF BulkRun
  <2>8. Reached' = bulk.next /\ Counted' = bulk.next
    BY <1>6, <2>1, <2>2, <2>5, <2>7 DEF Reached, Counted
  <2>9. applied \subseteq {bulk.targets[i] : i \in 1..bulk.next}
    <3>1. Reached \in {bulk.next - 1, bulk.next}
      BY DEF Reached
    <3>2. 1..Reached \subseteq 1..bulk.next
      BY <1>6, <2>5, <3>1
    <3> QED BY <1>6, <2>5, <3>2
  <2>10. Counted = IF bulk.phase = "done" THEN bulk.next ELSE bulk.next - 1
    BY <2>5 DEF Counted
  <2>11. PICK c \in Nat : c = Cardinality(applied)
    BY <1>1, <1>4
  <2>12. bulk.next - f <= c /\ (losses' = 0 => bulk.next - f = c)
    <3>1. CASE bulk.phase = "done"
      BY <1>1, <1>2, <1>3, <1>6, <2>3, <2>5, <2>10, <2>11, <3>1
    <3>2. CASE bulk.phase # "done"
      <4>1. f = bulk.failed + 1
        BY <1>1, <2>3, <2>5, <3>2
      <4> QED BY <1>1, <1>3, <1>6, <2>5, <2>10, <2>11, <3>2, <4>1
    <3> QED BY <3>1, <3>2
  <2>13. p = "finishing" => n = Len(bulk.targets)
    BY <2>1, <2>2
  <2>14. BulkInv'
    BY <1>6, <2>4, <2>5, <2>6, <2>7, <2>8, <2>9, <2>11, <2>12, <2>13 DEF BulkInv, Chosen
  <2> QED BY <1>1, <1>8, <2>4, <2>5, <2>7, <2>14 DEF BulkGoesOn
<1>9. CASE BulkFinishes
  <2>1. bulk' = [bulk EXCEPT !.phase = "refreshing"] /\ bulk.phase = "finishing" /\ UNCHANGED <<applied, losses>>
    BY <1>9 DEF BulkFinishes
  <2>2. /\ bulk'.phase = "refreshing" /\ bulk'.action = bulk.action /\ bulk'.targets = bulk.targets /\ bulk'.next = bulk.next
        /\ bulk'.failed = bulk.failed /\ bulk'.tenant = bulk.tenant /\ bulk' \in BulkRun
    BY <1>1, <2>1 DEF BulkRun
  <2>3. Reached = bulk.next /\ Counted = bulk.next /\ Reached' = bulk.next /\ Counted' = bulk.next
    BY <2>1, <2>2 DEF Reached, Counted
  <2>4. BulkInv'
    BY <1>6, <2>1, <2>2, <2>3 DEF BulkInv, Chosen
  <2> QED BY <1>1, <1>9, <2>1, <2>2, <2>4 DEF BulkGoesOn
<1>10. CASE BulkReports
  <2>1. bulk' = NoBulk /\ bulk.phase = "refreshing" /\ UNCHANGED applied
    BY <1>10 DEF BulkReports
  <2>2. NoBulk.phase = "idle" /\ NoBulk \in BulkRun
    BY DEF NoBulk, BulkRun, SomeTenant
  <2> QED BY <1>1, <1>10, <2>1, <2>2 DEF BulkInv, BulkGoesOn
<1>11. CASE UNCHANGED <<bulk, applied>>
  BY <1>1, <1>3, <1>11 DEF BulkInv, BulkGoesOn, Reached, Counted, Chosen
<1>12. BulkStart \/ BulkAction \/ UNCHANGED <<bulk, applied>>
  BY AdminChange DEF BulkAction
<1> QED BY <1>5, <1>7, <1>8, <1>9, <1>10, <1>11, <1>12 DEF BulkStart, BulkAction

-----------------------------------------------------------------------------
(* The list: its page, and whether it is up to date *)

LEMMA Rendering ==
    ASSUME AdminTypes, QueriesInv, NEW f \in Filters, NEW p \in Nat \ {0}, NEW s \in SortKeys, Render(f, p, s)
    PROVE  /\ filter' \in Filters /\ currentPage' \in Nat \ {0} /\ sortKey' \in SortKeys /\ QueriesInv' /\ PageInv'
           /\ \A k \in DOMAIN lists' : \A v : k = CurrentKey' => UpToDate(lists'[k], v)
<1>1. PICK key \in ListKey : key = Key(f, p, s) /\ key.page = p
  BY KeyType
<1>2. PICK c : c = Clamp(lists, key)
  OBVIOUS
<1>3. c \in Passed(lists, key) /\ Passed(lists, key) \in SUBSET (1..p) /\ c <= LastPage(lists, key, c) /\ c \in Nat \ {0}
  BY <1>1, <1>2, ClampPassed DEF QueriesInv
<1>4. PICK keys : keys = {Key(f, q, s) : q \in Passed(lists, key)}
  OBVIOUS
<1>5. filter' = f /\ sortKey' = s /\ currentPage' = c /\ lists' = Rendered(lists, keys)
  BY <1>1, <1>2, <1>4 DEF Render
<1>6. keys \in SUBSET ListKey
  <2>1. \A q \in 1..p : q \in Nat \ {0}
    OBVIOUS
  <2> QED BY <1>3, <1>4, <2>1, KeyType
<1>7. PICK now \in ListKey : now = Key(f, c, s) /\ now \in keys
  BY <1>3, <1>4, KeyType
<1>8. CurrentKey' = now
  BY <1>5, <1>7 DEF CurrentKey
<1>9. /\ AreQueries(lists') /\ DOMAIN lists' = DOMAIN lists \cup keys /\ lists'[now] = Mounted(Query(lists, now))
      /\ Query(lists', now).data = Query(lists, now).data
  BY <1>5, <1>6, <1>7, RenderedQueries DEF QueriesInv
<1>10. QueriesInv'
  BY <1>7, <1>8, <1>9 DEF QueriesInv
<1>11. PageInv'
  <2>1. [key EXCEPT !.page = c] = now
    BY <1>1, <1>3, <1>7, KeyType
  <2>2. c <= TotalPages(Query(lists, now).data)
    BY <1>3, <2>1 DEF LastPage
  <2> QED BY <1>5, <1>8, <1>9, <2>2 DEF PageInv, ListData
<1>12. \A v : UpToDate(lists'[now], v)
  <2>1. Query(lists, now) \in QueryOf(PageAnswer(now.page) \cup {NoData})
    BY QueryTyped DEF QueriesInv
  <2> QED BY <1>9, <2>1, QueryRenewed
<1> QED BY <1>3, <1>5, <1>8, <1>10, <1>11, <1>12

LEMMA CurrentKeyType ==
    ASSUME AdminTypes
    PROVE  /\ CurrentKey \in ListKey /\ CurrentKey.page = currentPage
           /\ \A q \in Nat \ {0} : [CurrentKey EXCEPT !.page = q] = Key(filter, q, sortKey)
                                   /\ Key(filter, q, sortKey) \in ListKey /\ (Key(filter, q, sortKey) = CurrentKey => q = currentPage)
  BY KeyType DEF AdminTypes, CurrentKey

\* An answer is stored, or its failure, and the effect may go on to other pages.
LEMMA Arriving ==
    ASSUME AdminTypes, QueriesInv, NEW k \in DOMAIN lists, ListArrives(k)
    PROVE  /\ UNCHANGED <<filter, sortKey>> /\ currentPage' \in Nat \ {0} /\ QueriesInv' /\ PageInv'
           /\ \A l \in DOMAIN lists' : \A v : l = CurrentKey' =>
                 UpToDate(lists'[l], v) \/ (l = CurrentKey /\ (UpToDate(lists[l], v) => UpToDate(lists'[l], v)))
<1>1. AreQueries(lists) /\ CurrentKey \in DOMAIN lists /\ k \in ListKey
  BY DEF QueriesInv, AreQueries
<1>2. PICK S : S = PageAnswer(k.page) \cup {NoData}
  OBVIOUS
<1>3. lists[k] \in QueryOf(S) /\ NoData \in S
  BY <1>1, <1>2 DEF AreQueries
<1>4. PICK q : q = IF lists[k].flight = "answered" THEN Settled(lists[k]) ELSE Failed(lists[k])
  OBVIOUS
<1>5. q \in QueryOf(S) /\ \A v : UpToDate(lists[k], v) => UpToDate(q, v)
  <2>1. Settled(lists[k]) \in QueryOf(S)
    BY <1>3, QueryStays
  <2>2. Failed(lists[k]) \in QueryOf(S) /\ Failed(lists[k]).old
    BY <1>3 DEF QueryOf, Failed
  <2>3. \A v : lists[k].flight = "answered" /\ UpToDate(lists[k], v) => UpToDate(Settled(lists[k]), v)
    BY <1>3, QueryAnswers
  <2> QED BY <1>4, <2>1, <2>2, <2>3 DEF UpToDate
<1>6. PICK ls : ls = [lists EXCEPT ![k] = q]
  OBVIOUS
<1>7. /\ AreQueries(ls) /\ DOMAIN ls = DOMAIN lists /\ ls[k] = q /\ \A l \in DOMAIN lists \ {k} : ls[l] = lists[l]
  BY <1>1, <1>2, <1>5, <1>6, QueriesExcept
<1>8. PICK c : c = Clamp(ls, CurrentKey)
  OBVIOUS
<1>9. /\ c \in Passed(ls, CurrentKey) /\ Passed(ls, CurrentKey) \in SUBSET (1..currentPage)
      /\ c <= LastPage(ls, CurrentKey, c)
  BY <1>7, <1>8, CurrentKeyType, ClampPassed
<1>10. currentPage \in Nat \ {0} /\ c \in Nat \ {0}
  BY <1>9 DEF AdminTypes
<1>11. PICK keys : keys = {Key(filter, p, sortKey) : p \in Passed(ls, CurrentKey) \ {currentPage}}
  OBVIOUS
<1>12. UNCHANGED <<filter, sortKey>> /\ currentPage' = c /\ lists' = Rendered(ls, keys)
  BY <1>4, <1>6, <1>8, <1>11 DEF ListArrives
<1>13. keys \in SUBSET ListKey /\ CurrentKey \notin keys
  <2>1. \A p \in 1..currentPage : p \in Nat \ {0}
    OBVIOUS
  <2> QED BY <1>9, <1>11, <2>1, CurrentKeyType
<1>14. PICK now \in ListKey : now = Key(filter, c, sortKey)
  BY <1>10, CurrentKeyType
<1>15. CurrentKey' = now
  BY <1>12, <1>14 DEF CurrentKey
<1>16. IF c = currentPage THEN now = CurrentKey ELSE now \in keys
  BY <1>9, <1>11, <1>14 DEF CurrentKey
<1>17. /\ AreQueries(lists') /\ DOMAIN lists' = DOMAIN ls \cup keys
       /\ \A l \in keys : lists'[l] = Mounted(Query(ls, l))
       /\ \A l \in DOMAIN ls \ keys : lists'[l] = ls[l]
       /\ Query(lists', now).data = Query(ls, now).data
  BY <1>7, <1>12, <1>13, RenderedQueries
<1>18. QueriesInv'
  BY <1>1, <1>7, <1>15, <1>16, <1>17 DEF QueriesInv
<1>19. PageInv'
  <2>1. [CurrentKey EXCEPT !.page = c] = now
    BY <1>10, <1>14, CurrentKeyType
  <2>2. c <= TotalPages(Query(ls, now).data)
    BY <1>9, <2>1 DEF LastPage
  <2> QED BY <1>12, <1>15, <1>17, <2>2 DEF PageInv, ListData
<1>20. ASSUME NEW v PROVE UpToDate(lists'[now], v) \/ (now = CurrentKey /\ (UpToDate(lists[now], v) => UpToDate(lists'[now], v)))
  <2>1. CASE c = currentPage
    <3>1. now = CurrentKey /\ lists'[now] = ls[now] /\ now \in DOMAIN lists
      BY <1>1, <1>7, <1>13, <1>16, <1>17, <2>1
    <3> QED BY <1>5, <1>7, <3>1
  <2>2. CASE c # currentPage
    <3>1. Query(ls, now) \in QueryOf(PageAnswer(now.page) \cup {NoData})
      BY <1>7, QueryTyped
    <3>2. lists'[now] = Mounted(Query(ls, now))
      BY <1>16, <1>17, <2>2
    <3> QED BY <3>1, <3>2, QueryRenewed
  <2> QED BY <2>1, <2>2
<1> QED BY <1>10, <1>12, <1>15, <1>18, <1>19, <1>20

\* The list is told of a change, or was before it and there is none, or its queries are said to be old.
LEMMA ListOwedStep ==
    ASSUME AdminTypes, SelectionInv, BulkInv, AdminNext, ~ListOwed'
    PROVE  \/ StatusChanged \/ TenantDeleted \/ BulkFinishes
           \/ FailureStep /\ lists' = [k \in DOMAIN lists |-> Outdated(lists[k])]
           \/ ~ListOwed /\ UNCHANGED tenantRows
<1> SUFFICES ASSUME ~StatusChanged, ~TenantDeleted, ~BulkFinishes,
                    ~(FailureStep /\ lists' = [k \in DOMAIN lists |-> Outdated(lists[k])])
             PROVE  ~ListOwed /\ UNCHANGED tenantRows
  OBVIOUS
<1>1. "status" \in Mutations /\ "delete" \in Mutations /\ \A m \in Mutations : m \in {"status", "delete", "password"}
  BY DEF Mutations
<1>2. mutation'["status"].phase # "done" /\ mutation'["delete"].phase # "done"
      /\ bulk'.phase \notin {"sent", "done", "refused", "finishing"}
  BY DEF ListOwed
<1>3. ASSUME NEW m \in {"status", "delete"} PROVE mutation[m].phase # "done"
  <2>1. RequestGoesOn(m)
    BY <1>1, RequestsKept
  <2>2. MutationFails(m) => mutation[m].phase # "done"
    BY <1>1 DEF MutationFails, FailureStep
  <2>3. StatusRefreshed => mutation["status"].phase # "done"
    BY DEF StatusRefreshed
  <2> QED BY <1>2, <2>1, <2>2, <2>3 DEF RequestGoesOn
<1>4. bulk.phase \notin {"sent", "done", "refused", "finishing"} /\ ~BulkHandled
  <2>1. BulkGoesOn
    BY BulkKept
  <2>2. BulkHandled => bulk'.phase \in {"done", "refused"}
    BY BulkKept DEF BulkHandled, BulkRun, AdminTypes
  <2> QED BY <1>2, <2>1, <2>2 DEF BulkGoesOn
<1>5. ASSUME NEW m \in Mutations, Handled(m) PROVE UNCHANGED tenantRows
  <2>1. PICK action \in {"enable", "disable", "delete", "password"} :
           Apply(action, mutation[m].id) /\ (m # "status" => action = m)
    BY <1>5, HandledApplies
  <2>2. m = "password" \/ mutation[m].id \notin tenants
    <3>1. RequestGoesOn(m) /\ mutation[m].phase = "sent"
      BY <1>5, RequestsKept DEF Handled
    <3>2. mutation'[m] = [mutation[m] EXCEPT !.phase = IF mutation[m].id \in tenants THEN "done" ELSE "refused"]
      BY <1>5 DEF Handled, AdminTypes
    <3>3. mutation[m].id \in tenants => mutation'[m].phase = "done"
      BY <3>2 DEF AdminTypes, Request
    <3> QED BY <1>1, <1>2, <3>3
  <2> QED BY <2>1, <2>2, ApplyChange
<1>6. UNCHANGED tenantRows
  BY <1>4, <1>5, AdminChange DEF HandledStep
<1> QED BY <1>3, <1>4, <1>6 DEF ListOwed

LEMMA SameAnswer == ASSUME UNCHANGED tenantRows, NEW k PROVE AdminTenantList(k)' = AdminTenantList(k)
<1>1. Sorted(k)' = Sorted(k)
  BY DEF Sorted, Matching, tenantRows
<1> QED BY <1>1 DEF AdminTenantList, PageOf, TenantRow, tenantRows

\* The queries of the list where no key is rendered and no answer taken.
LEMMA OneRefetched ==
    ASSUME AdminTypes, QueriesInv, PageInv, UNCHANGED <<filter, currentPage, sortKey>>,
           \/ UNCHANGED lists
           \/ lists' = [k \in DOMAIN lists |-> Outdated(lists[k])]
           \/ lists' = [lists EXCEPT ![CurrentKey] = Invalidated(@)]
           \/ \E k \in DOMAIN lists : lists' = [lists EXCEPT ![k] = Answered(@, AdminTenantList(k))]
    PROVE  QueriesInv' /\ PageInv' /\ CurrentKey' = CurrentKey /\ DOMAIN lists' = DOMAIN lists
<1>1. AreQueries(lists) /\ CurrentKey \in DOMAIN lists /\ DOMAIN lists \in SUBSET ListKey
  BY DEF QueriesInv, AreQueries
<1>2. CurrentKey' = CurrentKey /\ currentPage' = currentPage
  BY DEF CurrentKey
<1>3. ASSUME NEW k \in DOMAIN lists
      PROVE  /\ Outdated(lists[k]) \in QueryOf(PageAnswer(k.page) \cup {NoData})
             /\ Invalidated(lists[k]) \in QueryOf(PageAnswer(k.page) \cup {NoData})
             /\ Answered(lists[k], AdminTenantList(k)) \in QueryOf(PageAnswer(k.page) \cup {NoData})
             /\ Outdated(lists[k]).data = lists[k].data /\ Invalidated(lists[k]).data = lists[k].data
             /\ \A v : Answered(lists[k], v).data = lists[k].data
  <2>1. PICK S : S = PageAnswer(k.page) \cup {NoData}
    OBVIOUS
  <2>2. lists[k] \in QueryOf(S) /\ NoData \in S /\ AdminTenantList(k) \in S
    BY <1>1, <2>1, AnswerTyped DEF AreQueries
  <2>3. Outdated(lists[k]) \in QueryOf(S) /\ Invalidated(lists[k]) \in QueryOf(S) /\ Answered(lists[k], AdminTenantList(k)) \in QueryOf(S)
    BY <2>2, QueryStays
  <2>4. /\ Outdated(lists[k]).data = lists[k].data /\ Invalidated(lists[k]).data = lists[k].data
        /\ \A v : Answered(lists[k], v).data = lists[k].data
    BY <2>2 DEF QueryOf, Outdated, Invalidated, Joined, Started, Answered
  <2> QED BY <2>1, <2>3, <2>4
<1>4. /\ AreQueries(lists') /\ DOMAIN lists' = DOMAIN lists
      /\ \A k \in DOMAIN lists : lists'[k].data = lists[k].data
  <2>1. CASE UNCHANGED lists
    BY <1>1, <2>1
  <2>2. CASE lists' = [k \in DOMAIN lists |-> Outdated(lists[k])]
    <3>1. PICK r : r = lists'
      OBVIOUS
    <3>2. DOMAIN r = DOMAIN lists /\ \A k \in DOMAIN lists : r[k] = Outdated(lists[k])
      BY <2>2, <3>1
    <3>3. r = [k \in DOMAIN r |-> r[k]]
      BY <2>2, <3>1
    <3>4. \A k \in DOMAIN r : r[k] \in QueryOf(PageAnswer(k.page) \cup {NoData})
      BY <1>3, <3>2
    <3>5. AreQueries(r)
      BY <1>1, <3>2, <3>3, <3>4 DEF AreQueries
    <3> QED BY <1>3, <3>1, <3>2, <3>5
  <2>3. ASSUME NEW k \in DOMAIN lists, NEW q \in QueryOf(PageAnswer(k.page) \cup {NoData}), q.data = lists[k].data,
               lists' = [lists EXCEPT ![k] = q]
        PROVE  /\ AreQueries(lists') /\ DOMAIN lists' = DOMAIN lists
               /\ \A l \in DOMAIN lists : lists'[l].data = lists[l].data
    BY <1>1, <2>3, QueriesExcept
  <2>4. CASE lists' = [lists EXCEPT ![CurrentKey] = Invalidated(@)]
    BY <1>1, <1>3, <2>3, <2>4
  <2>5. CASE \E k \in DOMAIN lists : lists' = [lists EXCEPT ![k] = Answered(@, AdminTenantList(k))]
    <3>1. PICK k \in DOMAIN lists : lists' = [lists EXCEPT ![k] = Answered(@, AdminTenantList(k))]
      BY <2>5
    <3> QED BY <1>3, <2>3, <3>1
  <2> QED BY <2>1, <2>2, <2>4, <2>5
<1>5. QueriesInv'
  BY <1>1, <1>2, <1>4 DEF QueriesInv
<1>6. ListData' = ListData
  BY <1>1, <1>2, <1>4 DEF ListData, Query
<1>7. PageInv'
  BY <1>2, <1>6 DEF PageInv
<1> QED BY <1>2, <1>4, <1>5, <1>7

LEMMA ListKept ==
    ASSUME AdminTypes, QueriesInv, PageInv, SelectionInv, ListInv, BulkInv, AdminNext
    PROVE  /\ filter' \in Filters /\ currentPage' \in Nat \ {0} /\ sortKey' \in SortKeys
           /\ QueriesInv' /\ PageInv' /\ ListInv'
<1> DEFINE Goal == /\ filter' \in Filters /\ currentPage' \in Nat \ {0} /\ sortKey' \in SortKeys
                   /\ QueriesInv' /\ PageInv' /\ ListInv'
<1>1. filter \in Filters /\ currentPage \in Nat \ {0} /\ sortKey \in SortKeys
  BY DEF AdminTypes
<1>2. ASSUME NEW f \in Filters, NEW p \in Nat \ {0}, NEW s \in SortKeys, Render(f, p, s) PROVE Goal
  BY <1>2, Rendering DEF ListInv
<1>3. ASSUME NEW k \in DOMAIN lists, ListArrives(k) PROVE Goal
  <2>1. ListOwed' = ListOwed /\ UNCHANGED tenantRows
    BY <1>3 DEF ListArrives, ListOwed
  <2>2. ListInv'
    <3> SUFFICES ASSUME ~ListOwed', NEW l \in DOMAIN lists', l = CurrentKey' PROVE UpToDate(lists'[l], AdminTenantList(l)')
      BY DEF ListInv
    <3>1. PICK v : v = AdminTenantList(l)
      OBVIOUS
    <3>2. AdminTenantList(l)' = v
      BY <2>1, <3>1, SameAnswer
    <3>3. l = CurrentKey => UpToDate(lists[l], v)
      BY <2>1, <3>1 DEF ListInv, QueriesInv
    <3> QED BY <1>3, <3>2, <3>3, Arriving
  <2> QED BY <1>1, <1>3, <2>2, Arriving
<1>4. ASSUME NEW k \in DOMAIN lists, ListAnswered(k) PROVE Goal
  <2>1. /\ ListOwed' = ListOwed /\ UNCHANGED tenantRows /\ UNCHANGED <<filter, currentPage, sortKey>>
        /\ lists' = [lists EXCEPT ![k] = Answered(@, AdminTenantList(k))]
    BY <1>4 DEF ListAnswered, ListOwed
  <2>2. QueriesInv' /\ PageInv' /\ CurrentKey' = CurrentKey /\ DOMAIN lists' = DOMAIN lists
    BY <2>1, OneRefetched
  <2>3. ListInv'
    <3> SUFFICES ASSUME ~ListOwed', NEW l \in DOMAIN lists', l = CurrentKey' PROVE UpToDate(lists'[l], AdminTenantList(l)')
      BY DEF ListInv
    <3>1. PICK v : v = AdminTenantList(l)
      OBVIOUS
    <3>2. AdminTenantList(l)' = v
      BY <2>1, <3>1, SameAnswer
    <3>3. UpToDate(lists[l], v)
      BY <2>1, <2>2, <3>1 DEF ListInv
    <3>4. lists'[l] = lists[l] \/ lists'[l] = Answered(lists[l], v)
      BY <2>1, <2>2, <3>1
    <3>5. lists[l] \in QueryOf(PageAnswer(l.page) \cup {NoData})
      BY <2>2 DEF QueriesInv, AreQueries
    <3> QED BY <3>2, <3>3, <3>4, <3>5, QueryAnswers
  <2> QED BY <1>1, <2>1, <2>2, <2>3
<1>5. ASSUME UNCHANGED <<filter, currentPage, sortKey>>,
             \/ UNCHANGED lists
             \/ FailureStep /\ lists' = [k \in DOMAIN lists |-> Outdated(lists[k])]
             \/ (StatusChanged \/ TenantDeleted \/ BulkFinishes) /\ lists' = [lists EXCEPT ![CurrentKey] = Invalidated(@)]
      PROVE  Goal
  <2>1. QueriesInv' /\ PageInv' /\ CurrentKey' = CurrentKey /\ DOMAIN lists' = DOMAIN lists
    BY <1>5, OneRefetched
  <2>2. ListInv'
    <3> SUFFICES ASSUME ~ListOwed', NEW l \in DOMAIN lists', l = CurrentKey' PROVE UpToDate(lists'[l], AdminTenantList(l)')
      BY DEF ListInv
    <3>1. lists[l] \in QueryOf(PageAnswer(l.page) \cup {NoData}) /\ l \in DOMAIN lists /\ l = CurrentKey
      BY <2>1 DEF QueriesInv, AreQueries
    <3>2. CASE lists' = [k \in DOMAIN lists |-> Outdated(lists[k])]
      <4>1. lists'[l] = Outdated(lists[l])
        BY <3>1, <3>2
      <4> QED BY <3>1, <4>1, QueryRenewed
    <3>3. CASE lists' = [lists EXCEPT ![CurrentKey] = Invalidated(@)]
      <4>1. lists'[l] = Invalidated(lists[l])
        BY <3>1, <3>3 DEF QueriesInv, AreQueries
      <4> QED BY <3>1, <4>1, QueryRenewed
    <3>4. CASE UNCHANGED lists /\ ~ListOwed /\ UNCHANGED tenantRows
      <4>1. AdminTenantList(l)' = AdminTenantList(l)
        BY <3>4, SameAnswer
      <4> QED BY <3>1, <3>4, <4>1 DEF ListInv
    <3>5. StatusChanged \/ TenantDeleted \/ BulkFinishes => lists' = [lists EXCEPT ![CurrentKey] = Invalidated(@)]
      BY DEF StatusChanged, TenantDeleted, BulkFinishes
    <3> QED BY <1>5, <3>2, <3>3, <3>4, <3>5, ListOwedStep
  <2> QED BY <1>1, <1>5, <2>1, <2>2
<1> QED BY <1>2, <1>3, <1>4, <1>5, ListsChange

-----------------------------------------------------------------------------
(* The selection *)

LEMMA ChosenSet == ASSUME NEW S, NEW ids, Once(ids, S) PROVE ToSet(ids) = S
  BY DEF ToSet, Once

LEMMA ShownOnce == ASSUME AdminTypes, QueriesInv PROVE Chosen(PageTenantIds)
<1>1. CASE ListData = NoData
  BY <1>1, OnceEmpty DEF PageTenantIds, Chosen
<1>2. CASE ListData # NoData
  <2>1. ListData \in PageAnswer(currentPage)
    <3>1. Query(lists, CurrentKey) \in QueryOf(PageAnswer(currentPage) \cup {NoData})
      BY CurrentKeyType, QueryTyped DEF QueriesInv
    <3> QED BY <1>2, <3>1 DEF ListData, QueryOf
  <2>2. PICK rows \in Seq(RowShown) : rows = ListData.rows /\ \A i, j \in DOMAIN rows : rows[i].id = rows[j].id => i = j
    BY <2>1 DEF PageAnswer
  <2>3. PICK ids : ids = [i \in 1..Len(rows) |-> rows[i].id]
    OBVIOUS
  <2>4. PageTenantIds = ids
    BY <1>2, <2>2, <2>3 DEF PageTenantIds
  <2>5. \A i \in 1..Len(rows) : rows[i].id \in TenantId
    <3>1. \A i \in 1..Len(rows) : rows[i] \in RowShown
      OBVIOUS
    <3>2. \A r \in RowShown : r.id \in TenantId
      BY DEF RowShown
    <3> QED BY <3>1, <3>2
  <2>6. ids \in [1..Len(rows) -> TenantId] /\ Len(rows) \in Nat
    BY <2>3, <2>5
  <2>7. ids \in Seq(TenantId) /\ Len(ids) = Len(rows)
    BY <2>6
  <2>8. \A i, j \in 1..Len(ids) : ids[i] = ids[j] => i = j
    BY <2>2, <2>3, <2>7
  <2>9. PICK S \in SUBSET TenantId : S = {ids[i] : i \in 1..Len(ids)}
    <3>1. \A i \in 1..Len(ids) : ids[i] \in TenantId
      BY <2>3, <2>5, <2>7
    <3> QED BY <3>1
  <2>10. Once(ids, S)
    BY <2>7, <2>8, <2>9 DEF Once
  <2> QED BY <2>4, <2>10 DEF Chosen
<1> QED BY <1>1, <1>2

LEMMA WithoutChosen ==
    ASSUME NEW ids, NEW gone, Chosen(ids)
    PROVE  Chosen(Without(ids, gone)) /\ \E S \in SUBSET TenantId : Once(Without(ids, gone), S) /\ S \cap gone = {}
<1>1. PICK S \in SUBSET TenantId : Once(ids, S)
  BY DEF Chosen
<1>2. Once(Without(ids, gone), S \cap (ToSet(ids) \ gone))
  BY <1>1, OnceAmong DEF Without
<1> QED BY <1>2 DEF Chosen

LEMMA SelectionKept ==
    ASSUME AdminTypes, QueriesInv, SelectionInv, AdminNext
    PROVE  SelectionInv'
<1>1. Chosen(selectedTenantIds)
  BY DEF SelectionInv
<1>2. ASSUME NEW t \in TenantId, ToggleTenantSelection(t) PROVE SelectionInv'
  <2>1. CASE t \in ToSet(selectedTenantIds)
    BY <1>1, <1>2, <2>1, WithoutChosen DEF ToggleTenantSelection, SelectionInv
  <2>2. CASE t \notin ToSet(selectedTenantIds)
    <3>1. PICK S \in SUBSET TenantId : Once(selectedTenantIds, S)
      BY <1>1 DEF Chosen
    <3>2. t \notin S
      BY <2>2, <3>1, ChosenSet
    <3>3. Once(Append(selectedTenantIds, t), S \cup {t})
      BY <3>1, <3>2, OnceAppend
    <3>4. selectedTenantIds' = Append(selectedTenantIds, t)
      BY <1>2, <2>2 DEF ToggleTenantSelection
    <3> QED BY <3>3, <3>4 DEF SelectionInv, Chosen
  <2> QED BY <2>1, <2>2
<1>3. CASE TogglePageSelection
  <2>1. \/ selectedTenantIds' = Without(selectedTenantIds, ToSet(PageTenantIds))
        \/ selectedTenantIds' = selectedTenantIds \o Without(PageTenantIds, ToSet(selectedTenantIds))
    BY <1>3 DEF TogglePageSelection
  <2>2. CASE selectedTenantIds' = Without(selectedTenantIds, ToSet(PageTenantIds))
    BY <1>1, <2>2, WithoutChosen DEF SelectionInv
  <2>3. CASE selectedTenantIds' = selectedTenantIds \o Without(PageTenantIds, ToSet(selectedTenantIds))
    <3>1. PICK S \in SUBSET TenantId : Once(selectedTenantIds, S)
      BY <1>1 DEF Chosen
    <3>2. PICK rest : rest = Without(PageTenantIds, S)
      OBVIOUS
    <3>3. PICK T \in SUBSET TenantId : Once(rest, T) /\ T \cap S = {}
      BY <3>2, ShownOnce, WithoutChosen
    <3>4. selectedTenantIds' = selectedTenantIds \o rest
      BY <2>3, <3>1, <3>2, ChosenSet
    <3>5. Once(selectedTenantIds \o rest, S \cup T)
      BY <3>1, <3>3, OnceConcat
    <3> QED BY <3>4, <3>5 DEF SelectionInv, Chosen
  <2> QED BY <2>1, <2>2, <2>3
<1>4. CASE ClearSelection \/ BulkFinishes
  BY <1>4, OnceEmpty DEF ClearSelection, BulkFinishes, SelectionInv, Chosen
<1>5. CASE TenantDeleted
  BY <1>1, <1>5, WithoutChosen DEF TenantDeleted, SelectionInv
<1>6. CASE UNCHANGED selectedTenantIds
  BY <1>1, <1>6 DEF SelectionInv, Chosen
<1> QED BY <1>2, <1>3, <1>4, <1>5, <1>6, AdminChange DEF SelectStep

-----------------------------------------------------------------------------
(* The dialogs *)

Detail == RowShown \cup {NoData}

LEMMA DetailTyped ==
    ASSUME AdminTypes, NEW t \in TenantId
    PROVE  /\ details[t] \in QueryOf(Detail) /\ NoData \in Detail
           /\ Mounted(details[t]) \in QueryOf(Detail) /\ Invalidated(details[t]) \in QueryOf(Detail)
           /\ Outdated(details[t]) \in QueryOf(Detail) /\ Outdated(details[t]).old
           /\ Settled(details[t]) \in QueryOf(Detail) /\ Answered(details[t], TenantRow(t)) \in QueryOf(Detail)
           /\ Failed(details[t]) \in QueryOf(Detail) /\ Failed(details[t]).old
<1>1. details[t] \in QueryOf(Detail) /\ NoData \in Detail /\ TenantRow(t) \in Detail
  BY RowShownType DEF AdminTypes, Detail
<1>2. /\ Failed(details[t]) \in QueryOf(Detail) /\ Failed(details[t]).old
      /\ Outdated(details[t]).old
  BY <1>1 DEF QueryOf, Failed, Outdated
<1> QED BY <1>1, <1>2, QueryStays

\* The detail of a tenant, whichever it is, after a step that writes details.
DetailStep(t) ==
    \/ details'[t] = details[t]
    \/ \E dialog \in Modal \ {"none"} : OpenModal(t, dialog) /\ details'[t] = Mounted(details[t])
    \/ DetailQuery /\ t \in tenants /\ details'[t] = Answered(details[t], TenantRow(t))
    \/ DetailQuery /\ t \notin tenants /\ details'[t] = Failed(details[t])
    \/ DetailQuery /\ details[t].flight = "answered" /\ details'[t] = Settled(details[t])
    \/ details'[t] = Outdated(details[t])
    \/ StatusRefreshed /\ details'[t] = Invalidated(details[t])
    \/ BulkReports /\ details'[t] = Invalidated(details[t])

LEMMA DetailsKept ==
    ASSUME AdminTypes, BulkInv, AdminNext
    PROVE  details' \in [TenantId -> QueryOf(Detail)] /\ \A t \in TenantId : DetailStep(t)
<1> DEFINE Goal == details' \in [TenantId -> QueryOf(Detail)] /\ \A t \in TenantId : DetailStep(t)
<1>1. details \in [TenantId -> QueryOf(Detail)]
  BY DEF AdminTypes, Detail
<1>2. ASSUME NEW t \in TenantId, NEW q \in QueryOf(Detail), details' = [details EXCEPT ![t] = q],
             DetailStep(t)
      PROVE  Goal
  <2>1. details' \in [TenantId -> QueryOf(Detail)]
    BY <1>1, <1>2
  <2>2. \A u \in TenantId \ {t} : details'[u] = details[u]
    BY <1>1, <1>2
  <2> QED BY <1>2, <2>1, <2>2 DEF DetailStep
<1>3. ASSUME NEW t \in TenantId, NEW dialog \in Modal \ {"none"}, OpenModal(t, dialog) PROVE Goal
  <2>1. details' = [details EXCEPT ![t] = Mounted(details[t])] /\ details'[t] = Mounted(details[t])
    BY <1>1, <1>3 DEF OpenModal
  <2> QED BY <1>2, <1>3, <2>1, DetailTyped DEF DetailStep
<1>4. ASSUME NEW t \in TenantId, DetailAnswered(t) PROVE Goal
  <2>1. PICK q : q = IF t \in tenants THEN Answered(details[t], TenantRow(t)) ELSE Failed(details[t])
    OBVIOUS
  <2>2. details' = [details EXCEPT ![t] = q] /\ details'[t] = q /\ q \in QueryOf(Detail) /\ DetailQuery
    BY <1>1, <1>4, <2>1, DetailTyped DEF DetailAnswered, DetailQuery
  <2> QED BY <1>2, <2>1, <2>2 DEF DetailStep
<1>5. ASSUME NEW t \in TenantId, DetailArrives(t) PROVE Goal
  <2>1. details' = [details EXCEPT ![t] = Settled(details[t])] /\ details'[t] = Settled(details[t])
        /\ details[t].flight = "answered" /\ DetailQuery
    BY <1>1, <1>5 DEF DetailArrives, DetailQuery
  <2> QED BY <1>2, <2>1, DetailTyped DEF DetailStep
<1>6. CASE details' = [t \in TenantId |-> Outdated(details[t])]
  BY <1>6, DetailTyped DEF DetailStep
<1>7. ASSUME NEW t \in TenantId, details' = Refetched(t), StatusRefreshed \/ BulkReports PROVE Goal
  <2>1. PICK q \in QueryOf(Detail) : q = IF activeModal # "none" /\ selectedTenantId = t THEN Invalidated(details[t]) ELSE details[t]
    BY DetailTyped
  <2>2. details' = [details EXCEPT ![t] = q] /\ details'[t] = q
    BY <1>1, <1>7, <2>1 DEF Refetched
  <2> QED BY <1>2, <1>7, <2>1, <2>2 DEF DetailStep
<1>8. CASE StatusRefreshed
  <2>1. PICK i \in SomeTenant : i = mutation["status"].id
    BY DEF AdminTypes, Request, Mutations
  <2>2. (i \in TenantId /\ details' = Refetched(i)) \/ UNCHANGED details
    BY <1>8, <2>1 DEF StatusRefreshed, SomeTenant
  <2> QED BY <1>1, <1>7, <1>8, <2>2 DEF DetailStep
<1>9. CASE BulkReports
  <2>1. PICK i \in SomeTenant : i = bulk.tenant
    BY DEF AdminTypes, BulkRun
  <2>2. (i \in TenantId /\ details' = Refetched(i)) \/ UNCHANGED details
    BY <1>9, <2>1 DEF BulkReports, SomeTenant
  <2> QED BY <1>1, <1>7, <1>9, <2>2 DEF DetailStep
<1>10. CASE BulkHandled
  <2>1. PICK t \in TenantId : t = Target
    BY <1>10, TargetType DEF BulkHandled
  <2>2. PICK q \in QueryOf(Detail) : q = IF bulk.tenant = t THEN details[t] ELSE Outdated(details[t])
    BY DetailTyped
  <2>3. details' = [details EXCEPT ![t] = q] /\ details'[t] = q
    BY <1>1, <1>10, <2>1, <2>2 DEF BulkHandled
  <2> QED BY <1>2, <2>2, <2>3 DEF DetailStep
<1>11. CASE UNCHANGED details
  BY <1>1, <1>11 DEF DetailStep
<1>12. FailureStep => UNCHANGED details \/ details' = [t \in TenantId |-> Outdated(details[t])]
  BY DEF FailureStep, MutationFails
<1>13. DialogStep => (\E t \in TenantId, dialog \in Modal \ {"none"} : OpenModal(t, dialog)) \/ UNCHANGED details
  BY DEF DialogStep, SwitchModal, CloseModal
<1> QED BY <1>3, <1>4, <1>5, <1>6, <1>8, <1>9, <1>10, <1>11, <1>12, <1>13, AdminChange DEF DetailQuery

\* While a dialog is open its detail is owed as before, or is fetched again.
LEMMA DetailOwedStep ==
    ASSUME AdminTypes, SelectionInv, BulkInv, AdminNext, UNCHANGED <<selectedTenantId, activeModal>>, activeModal # "none",
           selectedTenantId \in TenantId, ~DetailOwed'
    PROVE  \/ ~DetailOwed
           \/ details'[selectedTenantId] = Outdated(details[selectedTenantId])
           \/ details'[selectedTenantId] = Invalidated(details[selectedTenantId])
<1> SUFFICES ASSUME details'[selectedTenantId] # Outdated(details[selectedTenantId]),
                    details'[selectedTenantId] # Invalidated(details[selectedTenantId])
             PROVE  ~DetailOwed
  OBVIOUS
<1>1. details \in [TenantId -> QueryOf(Detail)] /\ "status" \in Mutations /\ NoneChosen \notin TenantId
  BY AdminAssumption DEF AdminTypes, Detail, Mutations
<1>2. mutation["status"].phase # "done" /\ ~(mutation["status"].phase = "refreshing" /\ mutation["status"].id = selectedTenantId)
  <2>1. RequestGoesOn("status")
    BY <1>1, RequestsKept
  <2>2. ~(mutation'["status"].phase = "done") /\ ~(mutation'["status"].phase = "refreshing" /\ mutation'["status"].id = selectedTenantId)
    BY DEF DetailOwed
  <2>3. MutationFails("status") => mutation["status"].phase = "refused"
    <3>1. MutationFails("status") /\ mutation["status"].phase # "refused" => details' = [t \in TenantId |-> Outdated(details[t])]
      BY DEF MutationFails
    <3> QED BY <3>1
  <2>4. StatusRefreshed => mutation["status"].phase = "refreshing" /\ mutation["status"].id # selectedTenantId
    <3>1. StatusRefreshed /\ mutation["status"].id = selectedTenantId => details' = Refetched(selectedTenantId)
      BY <1>1 DEF StatusRefreshed
    <3>2. details' = Refetched(selectedTenantId) => details'[selectedTenantId] = Invalidated(details[selectedTenantId])
      BY <1>1 DEF Refetched
    <3> QED BY <3>1, <3>2 DEF StatusRefreshed
  <2> QED BY <2>1, <2>2, <2>3, <2>4 DEF RequestGoesOn
<1>3. ~(bulk.phase # "idle" /\ bulk.tenant = selectedTenantId)
  <2>1. BulkGoesOn
    BY BulkKept
  <2>2. ~(bulk'.phase # "idle" /\ bulk'.tenant = selectedTenantId)
    BY DEF DetailOwed
  <2>3. BulkReports => bulk.tenant # selectedTenantId
    <3>1. BulkReports /\ bulk.tenant = selectedTenantId => details' = Refetched(selectedTenantId)
      BY <1>1 DEF BulkReports
    <3>2. details' = Refetched(selectedTenantId) => details'[selectedTenantId] = Invalidated(details[selectedTenantId])
      BY <1>1 DEF Refetched
    <3> QED BY <3>1, <3>2
  <2> QED BY <2>1, <2>2, <2>3 DEF BulkGoesOn
<1> QED BY <1>2, <1>3 DEF DetailOwed

\* Nor does the row of a tenant change while nothing is owed.
LEMMA RowStays ==
    ASSUME AdminTypes, BulkInv, AdminNext, NEW t \in TenantId, t \in tenants', ~DetailOwed', t = selectedTenantId'
    PROVE  t \in tenants /\ (TenantRow(t)' = TenantRow(t) \/ details'[t] = Outdated(details[t]))
<1>1. ASSUME NEW m \in Mutations, Handled(m) PROVE t \in tenants /\ TenantRow(t)' = TenantRow(t)
  <2>1. PICK action \in {"enable", "disable", "delete", "password"} :
           Apply(action, mutation[m].id) /\ (m # "status" => action = m)
    BY <1>1, HandledApplies
  <2>2. CASE t # mutation[m].id
    BY <2>1, <2>2, ApplyChange
  <2>3. CASE t = mutation[m].id
    <3>1. t \in tenants /\ action # "delete"
      BY <2>1, <2>3, ApplyChange
    <3>2. m # "status"
      <4>1. m = "status" => mutation'["status"].phase # "done"
        BY DEF DetailOwed
      <4>2. mutation'[m] = [mutation[m] EXCEPT !.phase = IF mutation[m].id \in tenants THEN "done" ELSE "refused"]
        BY <1>1 DEF Handled, AdminTypes
      <4>3. mutation'[m].phase = "done"
        BY <2>3, <3>1, <4>2 DEF AdminTypes, Request
      <4> QED BY <4>1, <4>3
    <3>3. UNCHANGED tenantRows
      BY <2>1, <3>1, <3>2, ApplyChange DEF Mutations
    <3> QED BY <3>1, <3>3 DEF TenantRow, tenantRows
  <2> QED BY <2>2, <2>3
<1>2. ASSUME BulkHandled PROVE t \in tenants /\ (TenantRow(t)' = TenantRow(t) \/ details'[t] = Outdated(details[t]))
  <2>1. Target \in TenantId /\ Apply(bulk.action, Target) /\ bulk.action \in {"enable", "disable", "delete", "password"}
    BY <1>2, TargetType DEF BulkHandled
  <2>2. CASE t # Target
    BY <2>1, <2>2, ApplyChange
  <2>3. CASE t = Target
    <3>1. bulk.tenant # t
      <4>1. bulk'.phase # "idle" /\ bulk'.tenant = bulk.tenant
        <5>1. PICK p : p \in {"done", "refused"} /\ bulk' = [bulk EXCEPT !.phase = p]
          BY <1>2 DEF BulkHandled
        <5> QED BY <5>1 DEF AdminTypes, BulkRun
      <4> QED BY <4>1 DEF DetailOwed
    <3>2. details'[t] = Outdated(details[t])
      BY <1>2, <2>3, <3>1 DEF BulkHandled, AdminTypes
    <3> QED BY <2>1, <2>3, <3>2, ApplyChange
  <2> QED BY <2>2, <2>3
<1>3. CASE UNCHANGED tenantRows
  BY <1>3 DEF tenantRows, TenantRow
<1> QED BY <1>1, <1>2, <1>3, AdminChange DEF HandledStep

LEMMA DialogKept ==
    ASSUME AdminTypes, SelectionInv, DialogInv, BulkInv, AdminNext
    PROVE  selectedTenantId' \in SomeTenant /\ activeModal' \in Modal /\ DialogInv'
<1>1. selectedTenantId \in SomeTenant /\ activeModal \in Modal
  BY DEF AdminTypes
<1>2. ASSUME NEW t \in TenantId, NEW dialog \in Modal \ {"none"}, OpenModal(t, dialog)
      PROVE  selectedTenantId' \in SomeTenant /\ activeModal' \in Modal /\ DialogInv'
  <2>1. selectedTenantId' = t /\ activeModal' = dialog
    BY <1>2 DEF OpenModal
  <2>2. details'[t] = Mounted(details[t]) /\ details[t] \in QueryOf(Detail)
    BY <1>2, DetailTyped DEF OpenModal, AdminTypes
  <2>3. \A v : UpToDate(details'[t], v)
    BY <2>2, QueryRenewed
  <2>4. DialogInv'
    BY <2>1, <2>3 DEF DialogInv
  <2> QED BY <2>1, <2>4 DEF SomeTenant
<1>3. CASE CloseModal \/ TenantDeleted
  BY <1>1, <1>3 DEF CloseModal, TenantDeleted, DialogInv, SomeTenant, Modal
<1>4. ASSUME NEW dialog \in {"access", "password"}, SwitchModal(dialog)
      PROVE  selectedTenantId' \in SomeTenant /\ activeModal' \in Modal /\ DialogInv'
  <2>1. /\ activeModal' = dialog /\ activeModal = "details" /\ dialog \in Modal
        /\ UNCHANGED <<tenants, blocked, selectedTenantId, details, mutation, bulk>>
    BY <1>4 DEF SwitchModal, tenantRows, Modal
  <2>2. DialogInv'
    BY <2>1 DEF DialogInv, DetailOwed, TenantRow
  <2> QED BY <1>1, <2>1, <2>2
<1>5. CASE UNCHANGED <<selectedTenantId, activeModal>>
  <2>1. DialogInv'
    <3> SUFFICES ASSUME activeModal # "none"
                 PROVE  /\ selectedTenantId \in TenantId
                        /\ ~DetailOwed' => \A t \in tenants' : t = selectedTenantId => UpToDate(details'[t], TenantRow(t)')
      BY <1>5 DEF DialogInv
    <3>1. selectedTenantId \in TenantId
      BY DEF DialogInv
    <3>2. ASSUME ~DetailOwed', NEW t \in tenants', t = selectedTenantId PROVE UpToDate(details'[t], TenantRow(t)')
      <4>1. t \in tenants /\ (TenantRow(t)' = TenantRow(t) \/ details'[t] = Outdated(details[t]))
        BY <1>5, <3>1, <3>2, RowStays
      <4>2. details[t] \in QueryOf(Detail) /\ DetailStep(t)
        BY <3>1, <3>2, DetailTyped, DetailsKept
      <4>3. PICK v : v = TenantRow(t)'
        OBVIOUS
      <4>4. CASE details'[t] = Outdated(details[t]) \/ details'[t] = Invalidated(details[t])
        BY <4>2, <4>3, <4>4, QueryRenewed
      <4>5. CASE details'[t] # Outdated(details[t]) /\ details'[t] # Invalidated(details[t])
        <5>1. ~DetailOwed
          BY <1>5, <3>1, <3>2, <4>5, DetailOwedStep
        <5>2. v = TenantRow(t) /\ UpToDate(details[t], v)
          BY <3>2, <4>1, <4>3, <4>5, <5>1 DEF DialogInv
        <5>3. \/ details'[t] \in {details[t], Mounted(details[t]), Answered(details[t], v)}
              \/ details[t].flight = "answered" /\ details'[t] = Settled(details[t])
          BY <4>1, <4>2, <4>5, <5>2 DEF DetailStep
        <5> QED BY <4>2, <4>3, <5>2, <5>3, QueryRenewed, QueryAnswers
      <4> QED BY <4>4, <4>5
    <3> QED BY <3>1, <3>2
  <2> QED BY <1>1, <1>5, <2>1
<1> QED BY <1>2, <1>3, <1>4, <1>5, AdminChange DEF DialogStep

-----------------------------------------------------------------------------
(* The administration page: the invariant, and what it says *)

LEMMA AdminStart == AdminInit => AdminInv
<1> SUFFICES ASSUME AdminInit PROVE AdminInv
  OBVIOUS
<1>1. PICK key \in ListKey : key = CurrentKey /\ key.page = 1
  <2>1. "all" \in Filters /\ <<"expiry", "asc">> \in SortKeys /\ 1 \in Nat \ {0}
    BY AdminAssumption DEF Filters, SortKeys
  <2>2. CurrentKey = Key("all", 1, <<"expiry", "asc">>)
    BY DEF AdminInit, CurrentKey
  <2> QED BY <2>1, <2>2, KeyType
<1>2. PICK fetching : fetching = Started(Blank)
  OBVIOUS
<1>3. \A S : NoData \in S => fetching \in QueryOf(S) /\ Blank \in QueryOf(S)
  BY <1>2 DEF QueryOf, Started, Blank
<1>4. fetching.data = NoData /\ fetching.flight = "sent"
  BY <1>2 DEF Started, Blank
<1>5. lists = [k \in {key} |-> fetching]
  BY <1>1, <1>2 DEF AdminInit
<1>6. AdminTypes
  <2>1. tenants \in SUBSET TenantId /\ blocked \in SUBSET TenantId /\ applied \in SUBSET TenantId /\ losses \in Nat
    BY DEF AdminInit
  <2>2. filter \in Filters /\ currentPage \in Nat \ {0} /\ sortKey \in SortKeys
    BY AdminAssumption DEF AdminInit, Filters, SortKeys
  <2>3. selectedTenantId \in SomeTenant /\ activeModal \in Modal
    BY DEF AdminInit, SomeTenant, Modal
  <2>4. details \in [TenantId -> QueryOf(RowShown \cup {NoData})]
    BY <1>3 DEF AdminInit
  <2>5. mutation \in [Mutations -> Request]
    BY DEF AdminInit, Request, SomeTenant
  <2>6. bulk \in BulkRun
    BY DEF AdminInit, NoBulk, BulkRun, SomeTenant
  <2> QED BY <2>1, <2>2, <2>3, <2>4, <2>5, <2>6 DEF AdminTypes
<1>7. QueriesInv
  BY <1>1, <1>3, <1>5 DEF QueriesInv, AreQueries
<1>8. PageInv
  BY <1>1, <1>4, <1>5 DEF PageInv, ListData, Query, TotalPages, AdminInit
<1>9. SelectionInv
  BY OnceEmpty DEF AdminInit, SelectionInv, Chosen
<1>10. ListInv
  BY <1>1, <1>4, <1>5 DEF ListInv, UpToDate
<1>11. DialogInv /\ BulkInv
  BY DEF AdminInit, NoBulk, DialogInv, BulkInv
<1> QED BY <1>6, <1>7, <1>8, <1>9, <1>10, <1>11 DEF AdminInv

LEMMA AdminStep == AdminInv /\ [AdminNext]_adminVars => AdminInv'
<1> SUFFICES ASSUME AdminInv, [AdminNext]_adminVars PROVE AdminInv'
  OBVIOUS
<1> USE DEF AdminInv
<1>1. CASE AdminNext
  <2>1. AdminTypes'
    <3>1. tenants' \in SUBSET TenantId /\ blocked' \in SUBSET TenantId
      BY <1>1, TenantsKept
    <3>2. filter' \in Filters /\ currentPage' \in Nat \ {0} /\ sortKey' \in SortKeys
      BY <1>1, ListKept
    <3>3. selectedTenantId' \in SomeTenant /\ activeModal' \in Modal
      BY <1>1, DialogKept
    <3>4. details' \in [TenantId -> QueryOf(RowShown \cup {NoData})]
      BY <1>1, DetailsKept DEF Detail
    <3>5. mutation' \in [Mutations -> Request]
      BY <1>1, RequestsKept
    <3>6. bulk' \in BulkRun /\ applied' \in SUBSET TenantId
      BY <1>1, BulkKept
    <3>7. losses' \in Nat
      BY <1>1, AdminChange DEF AdminTypes
    <3> QED BY <3>1, <3>2, <3>3, <3>4, <3>5, <3>6, <3>7 DEF AdminTypes
  <2>2. QueriesInv' /\ PageInv' /\ ListInv'
    BY <1>1, ListKept
  <2>3. SelectionInv' /\ DialogInv' /\ BulkInv'
    BY <1>1, SelectionKept, DialogKept, BulkKept
  <2> QED BY <2>1, <2>2, <2>3
<1>2. CASE UNCHANGED adminVars
  <2>1. UNCHANGED <<tenants, blocked, filter, currentPage, sortKey, lists, selectedTenantIds, selectedTenantId,
                    activeModal, details, mutation, bulk, applied, losses>>
    BY <1>2 DEF adminVars, tenantRows, listVars, modalVars
  <2>2. CurrentKey' = CurrentKey /\ ListData' = ListData /\ UNCHANGED tenantRows
    BY <2>1 DEF CurrentKey, ListData, Query, tenantRows
  <2>3. AdminTypes' /\ QueriesInv' /\ PageInv' /\ SelectionInv'
    BY <2>1, <2>2 DEF AdminTypes, QueriesInv, PageInv, SelectionInv
  <2>4. ListInv'
    <3>1. ListOwed' = ListOwed
      BY <2>1 DEF ListOwed
    <3>2. \A k \in DOMAIN lists : AdminTenantList(k)' = AdminTenantList(k)
      BY <2>2, SameAnswer
    <3> QED BY <2>1, <2>2, <3>1, <3>2 DEF ListInv
  <2>5. DialogInv'
    BY <2>1 DEF DialogInv, DetailOwed, TenantRow
  <2>6. BulkInv'
    BY <2>1 DEF BulkInv, Reached, Counted
  <2> QED BY <2>3, <2>4, <2>5, <2>6
<1> QED BY <1>1, <1>2

\* The state of the administration page is well formed, in every reachable state: the page shown
\* exists, the selection and the targets of a bulk action come once each, list and dialog show
\* what the server holds unless they are still to be fetched again, and the tenants changed and
\* the failures counted add up.
THEOREM AlwaysAdminInv == AdminSpec => []AdminInv
  BY AdminStart, AdminStep, PTL DEF AdminSpec

LEMMA FreshAdmin == AdminInv => AdminFresh
<1> SUFFICES ASSUME AdminInv, bulk.phase = "idle", \A m \in Mutations : mutation[m].phase = "idle" PROVE AdminFresh
  BY DEF AdminFresh
<1> USE DEF AdminInv
<1>1. "status" \in Mutations /\ "delete" \in Mutations
  BY DEF Mutations
<1>2. ~ListOwed /\ ~DetailOwed
  BY <1>1 DEF ListOwed, DetailOwed
<1>3. lists[CurrentKey].flight = "idle" /\ ~lists[CurrentKey].old => lists[CurrentKey].data = AdminTenantList(CurrentKey)
  BY <1>2 DEF ListInv, QueriesInv, UpToDate
<1>4. ASSUME activeModal # "none", details[selectedTenantId].flight = "idle", ~details[selectedTenantId].old,
             selectedTenantId \in tenants
      PROVE  details[selectedTenantId].data = TenantRow(selectedTenantId)
  BY <1>2, <1>4 DEF DialogInv, UpToDate
<1> QED BY <1>3, <1>4 DEF AdminFresh

\* When nothing is under way, the list and the dialog of the administration page show what the
\* server holds, unless their query failed or a change's answer was lost: each success handler
\* has its queries fetched again (pages/admin-page.tsx).
THEOREM AdminAlwaysFresh == AdminSpec => []AdminFresh
  BY AlwaysAdminInv, FreshAdmin, PTL

LEMMA HonestPager == AdminInv => PagerHonest
<1> SUFFICES ASSUME AdminInv, ListShown PROVE PagerHonest
  BY DEF PagerHonest
<1> USE DEF AdminInv
<1>1. PICK d : d = ListData
  OBVIOUS
<1>2. d # NoData /\ d.total > 0 /\ TotalTenants = d.total
  BY <1>1 DEF ListShown, TotalTenants
<1>3. d \in PageAnswer(currentPage)
  <2>1. Query(lists, CurrentKey) \in QueryOf(PageAnswer(currentPage) \cup {NoData})
    BY CurrentKeyType, QueryTyped DEF QueriesInv
  <2> QED BY <1>1, <1>2, <2>1 DEF ListData, QueryOf
<1>4. currentPage \in Nat \ {0} /\ currentPage <= d.pages
  BY <1>1, <1>2 DEF PageInv, TotalPages, AdminTypes
<1>5. d.total \in Nat /\ d.pages \in Nat \ {0} /\ d.pages = Pages(d.total)
  BY <1>3 DEF PageAnswer
<1>6. Least(currentPage, d.pages) = currentPage
  BY <1>4, <1>5 DEF Least
<1>7. CurrentPageSafe = currentPage /\ TotalPages(ListData) = d.pages
  BY <1>1, <1>2, <1>6 DEF CurrentPageSafe, TotalPages
<1>8. currentPage \in 1..Pages(d.total)
  BY <1>4, <1>5
<1>9. PICK from \in Nat : from = (currentPage - 1) * PageSize
  BY <1>5, <1>8, PageWithin
<1>10. PICK to \in Nat : to = Least(currentPage * PageSize, d.total) /\ from < to /\ to <= d.total
  BY <1>2, <1>5, <1>8, <1>9, PageWithin
<1>11. Len(d.rows) = to - from
  BY <1>3, <1>6, <1>9, <1>10 DEF PageAnswer
<1>12. PageStart = from + 1 /\ PageEnd = to
  BY <1>2, <1>5, <1>7, <1>9, <1>10 DEF PageStart, PageEnd
<1>13. currentPage \in GetVisiblePages(currentPage, d.pages)
  <2>1. PICK cur \in Nat \ {0}, all \in Nat \ {0} : cur = currentPage /\ all = d.pages /\ cur <= all
    BY <1>4, <1>5
  <2>2. cur \in GetVisiblePages(cur, all)
    BY <2>1 DEF GetVisiblePages
  <2> QED BY <2>1, <2>2
<1> QED BY <1>1, <1>2, <1>5, <1>7, <1>10, <1>11, <1>12, <1>13 DEF PagerHonest

\* Whatever was deleted behind the page number, the pager's from and to lie within the total and
\* span the rows of the table, and the page shown exists and has a button: the effect of the page
\* and the server's clamping agree (pages/admin-page.tsx, handleAdminListTenants).
THEOREM PagerAlwaysHonest == AdminSpec => []PagerHonest
  BY AlwaysAdminInv, HonestPager, PTL

LEMMA TrueReport == AdminInv => BulkReportTrue
<1> SUFFICES ASSUME AdminInv, bulk.phase = "refreshing" PROVE BulkReportTrue
  BY DEF BulkReportTrue
<1>1. Counted = Len(bulk.targets)
  BY DEF AdminInv, BulkInv, Counted
<1> QED BY <1>1 DEF AdminInv, BulkInv, BulkReportTrue

\* The report of a bulk action counts as succeeded only tenants the server changed, and, unless
\* an answer was lost, all of them: the loop counts every failure once (runBulkAction).
THEOREM BulkReportAlwaysTrue == AdminSpec => []BulkReportTrue
  BY AlwaysAdminInv, TrueReport, PTL

-----------------------------------------------------------------------------
(* The inputs: what the variable can be *)

IntervalForm  == [preset : intervalPresetOptions \cup {0}, custom : Interval \cup {Empty}]
IntervalInput == [kind : {"interval"}, stored : Interval, form : IntervalForm, typed : BOOLEAN]
DomainInput   == [kind : {"domain"}, domain : [expiry : Text, status : {"healthy", "error", "pending"}]]
LocaleInput   == [kind : {"locale"}, locale : Locale, tag : Tag]
MessageInput  == [kind : {"message"}, locale : Locale, key : DOMAIN Given]
ErrorInput    == [kind : {"error"}, locale : Locale, reason : Reason]

InputsInv ==
    /\ webInput.kind = "interval" =>
        webInput \in IntervalInput /\ (~webInput.typed => webInput.form = presetForInterval(webInput.stored))
    /\ webInput.kind = "domain"  => webInput \in DomainInput
    /\ webInput.kind = "list"    => \E n \in 0..MaxListed : webInput.list \in [1..n -> ListText]
    /\ webInput.kind = "locale"  => webInput \in LocaleInput
    /\ webInput.kind = "message" => webInput \in MessageInput
    /\ webInput.kind = "error"   => webInput \in ErrorInput

LEMMA PresetTyped ==
    ASSUME NEW s \in Interval PROVE presetForInterval(s) \in IntervalForm
  BY DEF presetForInterval, IntervalForm, intervalPresetOptions

LEMMA InputsStart == InputsInit => InputsInv
<1> SUFFICES ASSUME InputsInit PROVE InputsInv
  OBVIOUS
<1>1. CASE \E s \in Interval :
        webInput = [kind |-> "interval", stored |-> s, form |-> presetForInterval(s), typed |-> FALSE]
  BY <1>1, PresetTyped DEF InputsInv, IntervalInput
<1>2. CASE \E t \in Text, s \in {"healthy", "error", "pending"} :
        webInput = [kind |-> "domain", domain |-> [expiry |-> t, status |-> s]]
  BY <1>2 DEF InputsInv, DomainInput
<1>3. CASE \E n \in 0..MaxListed : \E l \in [1..n -> ListText] : webInput = [kind |-> "list", list |-> l]
  BY <1>3 DEF InputsInv
<1>4. CASE \E l \in Locale, t \in Tag : webInput = [kind |-> "locale", locale |-> l, tag |-> t]
  BY <1>4 DEF InputsInv, LocaleInput
<1>5. CASE \E l \in Locale, k \in DOMAIN Given : webInput = [kind |-> "message", locale |-> l, key |-> k]
  BY <1>5 DEF InputsInv, MessageInput
<1>6. CASE \E l \in Locale, r \in Reason : webInput = [kind |-> "error", locale |-> l, reason |-> r]
  BY <1>6 DEF InputsInv, ErrorInput
<1> QED BY <1>1, <1>2, <1>3, <1>4, <1>5, <1>6 DEF InputsInit

LEMMA InputsStep == InputsInv /\ [InputsNext]_webInput => InputsInv'
<1> SUFFICES ASSUME InputsInv, [InputsNext]_webInput PROVE InputsInv'
  OBVIOUS
<1>1. CASE webInput' = webInput
  BY <1>1 DEF InputsInv
<1>2. CASE InputsNext
  <2>1. webInput \in IntervalInput
    BY <1>2 DEF InputsNext, ChoosePreset, TypeInterval, InputsInv
  <2>2. PICK form \in IntervalForm : webInput' = [webInput EXCEPT !.form = form, !.typed = TRUE]
    <3>1. webInput.form \in IntervalForm
      BY <2>1 DEF IntervalInput
    <3>2. CASE ChoosePreset
      <4>1. PICK p \in intervalPresetOptions \cup {0} :
              webInput' = [webInput EXCEPT !.form.preset = p, !.typed = TRUE]
        BY <3>2 DEF ChoosePreset
      <4>2. [webInput.form EXCEPT !.preset = p] \in IntervalForm
        BY <3>1 DEF IntervalForm
      <4>3. webInput' = [webInput EXCEPT !.form = [webInput.form EXCEPT !.preset = p], !.typed = TRUE]
        BY <2>1, <4>1 DEF IntervalInput
      <4> QED BY <4>2, <4>3
    <3>3. CASE TypeInterval
      <4>1. PICK n \in Interval \cup {Empty} :
              webInput' = [webInput EXCEPT !.form = [preset |-> IF n = Empty THEN webInput.form.preset ELSE 0,
                                                     custom |-> n], !.typed = TRUE]
        BY <3>3 DEF TypeInterval
      <4>2. [preset |-> IF n = Empty THEN webInput.form.preset ELSE 0, custom |-> n] \in IntervalForm
        BY <3>1, <4>1 DEF IntervalForm
      <4> QED BY <4>1, <4>2
    <3> QED BY <1>2, <3>2, <3>3 DEF InputsNext
  <2>3. webInput' \in IntervalInput /\ webInput'.typed
    BY <2>1, <2>2 DEF IntervalInput
  <2> QED BY <2>3 DEF InputsInv, IntervalInput
<1> QED BY <1>1, <1>2

\* The input a page works on stays one the page can have: what changes is the interval typed or
\* chosen (domain-form.tsx).
THEOREM AlwaysInputsInv == InputsSpec => []InputsInv
  BY InputsStart, InputsStep, PTL DEF InputsSpec

-----------------------------------------------------------------------------
(* The interval *)

\* The unit a label is in divides the interval.
LEMMA LabelExact ==
    ASSUME NEW s \in Nat PROVE IntervalLabel(s).number * IntervalLabel(s).unit = s
<1>1. CASE s % 86400 = 0
  <2>1. (s \div 86400) * 86400 = s
    BY <1>1
  <2> QED BY <1>1, <2>1 DEF IntervalLabel
<1>2. CASE s % 86400 # 0 /\ s % 3600 = 0
  <2>1. (s \div 3600) * 3600 = s
    BY <1>2
  <2> QED BY <1>2, <2>1 DEF IntervalLabel
<1>3. CASE s % 86400 # 0 /\ s % 3600 # 0
  <2>1. s * 1 = s
    OBVIOUS
  <2> QED BY <1>3, <2>1 DEF IntervalLabel
<1> QED BY <1>1, <1>2, <1>3

LEMMA KeepsInterval == InputsInv => IntervalKept
<1> SUFFICES ASSUME InputsInv PROVE IntervalKept
  OBVIOUS
<1>1. SUFFICES ASSUME webInput \in IntervalInput,
                      ~webInput.typed => webInput.form = presetForInterval(webInput.stored)
               PROVE  IntervalKept
  BY DEF InputsInv, IntervalKept
<1> DEFINE form == webInput.form
           s    == webInput.stored
<1>2. form \in IntervalForm /\ s \in Nat /\ Interval \subseteq Nat
  BY <1>1, InputsAssumption DEF IntervalInput
<1>3. form.preset \in intervalPresetOptions \cup {0} /\ (form.custom = -1 \/ form.custom \in Nat)
  BY <1>2 DEF IntervalForm, Empty
<1>4. (~webInput.typed /\ s >= 60) => IntervalAccepted(form) /\ CheckInterval(form) = s
  <2>1. CASE s \in intervalPresetOptions
    BY <1>1, <1>2, <2>1 DEF presetForInterval, IntervalAccepted, CheckInterval
  <2>2. CASE s \notin intervalPresetOptions
    BY <1>1, <1>2, <2>2 DEF presetForInterval, IntervalAccepted, CheckInterval, Empty
  <2> QED BY <2>1, <2>2
<1>5. ASSUME IntervalAccepted(form) PROVE CheckInterval(form) \in Nat /\ CheckInterval(form) >= 60
  <2>1. CASE form.custom = Empty
    BY <1>3, <1>5, <2>1 DEF IntervalAccepted, CheckInterval, intervalPresetOptions
  <2>2. CASE form.custom # Empty
    BY <1>3, <1>5, <2>2 DEF IntervalAccepted, CheckInterval, Empty
  <2> QED BY <2>1, <2>2
<1>6. ASSUME IntervalAccepted(form)
      PROVE  IntervalLabel(CheckInterval(form)).number * IntervalLabel(CheckInterval(form)).unit
               = CheckInterval(form)
  BY <1>5, <1>6, LabelExact
<1> QED BY <1>4, <1>5, <1>6 DEF IntervalKept

\* A domain's form that is saved as it was opened keeps the interval (domain-form.tsx), and
\* whatever is accepted is at least a minute and worded exactly (domain-panel.tsx).
THEOREM IntervalAlwaysKept == InputsSpec => []IntervalKept
  BY KeepsInterval, AlwaysInputsInv, PTL

-----------------------------------------------------------------------------
(* The age of a certificate *)

LEMMA DaysFloor ==
    ASSUME NEW at \in Int
    PROVE  /\ WholeDays(at) \in Int
           /\ WholeDays(at) * MsPerDay <= at /\ at < (WholeDays(at) + 1) * MsPerDay
           /\ WholeDays(at) < 0 <=> at < 0
<1>1. MsPerDay \in Nat /\ MsPerDay > 0
  BY InputsAssumption
<1>2. at \div MsPerDay \in Int /\ (at \div MsPerDay) * MsPerDay <= at
      /\ at < ((at \div MsPerDay) + 1) * MsPerDay
  BY <1>1
<1>3. (at \div MsPerDay) < 0 <=> at < 0
  BY <1>1, <1>2
<1> QED BY <1>2, <1>3 DEF WholeDays

LEMMA DaysKnown ==
    ASSUME NEW t \in Text
    PROVE  /\ t.valid => t.at \in Int /\ parseCertExpiresMs(t) = t.at /\ t.at # Unknown
                         /\ deriveDaysFromCertExpiry(t) = WholeDays(t.at) /\ WholeDays(t.at) # Unknown
           /\ ~t.valid => parseCertExpiresMs(t) = Unknown /\ deriveDaysFromCertExpiry(t) = Unknown
<1>1. t.valid \in BOOLEAN /\ (t.valid => t.at \in Int)
  BY InputsAssumption DEF Text
<1>2. CASE t.valid
  BY <1>1, <1>2, InputsAssumption, DaysFloor DEF parseCertExpiresMs, deriveDaysFromCertExpiry
<1>3. CASE ~t.valid
  BY <1>3 DEF parseCertExpiresMs, deriveDaysFromCertExpiry
<1> QED BY <1>1, <1>2, <1>3

LEMMA ShowsExpired == InputsInv => ExpiredIsShown
<1> SUFFICES ASSUME InputsInv PROVE ExpiredIsShown
  OBVIOUS
<1>1. SUFFICES ASSUME webInput \in DomainInput PROVE ExpiredIsShown
  BY DEF InputsInv, ExpiredIsShown
<1>2. PICK domain : domain = webInput.domain
  OBVIOUS
<1>3. PICK t : t = domain.expiry
  OBVIOUS
<1>4. t \in Text /\ t.valid \in BOOLEAN /\ domain.status \in {"healthy", "error", "pending"}
  BY <1>1, <1>2, <1>3 DEF DomainInput, Text
<1> DEFINE Right(panel, at) ==
              /\ (panel.badge = "expired") = (t.valid /\ at < 0)
              /\ panel.overdue = (panel.badge = "expired")
              /\ panel.badge = "expired" => panel.alarm /\ panel.days * MsPerDay >= -at /\ panel.days >= 1
              /\ (t.valid /\ at >= 0) => panel.days * MsPerDay <= at /\ at < (panel.days + 1) * MsPerDay
<1>5. CASE t.valid
  <2> DEFINE days == WholeDays(t.at)
  <2>1. /\ t.at \in Int /\ days \in Int /\ days # Unknown /\ days * MsPerDay <= t.at
        /\ t.at < (days + 1) * MsPerDay /\ (days < 0 <=> t.at < 0)
        /\ deriveDaysFromCertExpiry(t) = days
    BY <1>4, <1>5, DaysKnown, DaysFloor
  <2>2. MsPerDay \in Nat
    BY InputsAssumption
  <2> HIDE DEF days
  <2>3. isCertExpired(t) <=> days < 0
    BY <2>1 DEF isCertExpired
  <2>4. PICK panel : panel = DomainPanel(domain)
    OBVIOUS
  <2>5. panel.days = (IF days < 0 THEN -days ELSE days)
    BY <1>3, <2>1, <2>4 DEF DomainPanel
  <2>6. CASE days < 0
    <3>1. panel.badge = "expired" /\ panel.days = -days
      BY <1>3, <2>3, <2>4, <2>5, <2>6 DEF DomainPanel
    <3>2. panel.alarm
      BY <1>3, <2>3, <2>4, <2>6 DEF DomainPanel
    <3>3. panel.overdue
      BY <1>3, <2>1, <2>4, <2>6 DEF DomainPanel
    <3>4. (-days) * MsPerDay >= -t.at /\ -days >= 1
      BY <2>1, <2>2, <2>6
    <3>5. t.at < 0 /\ ~(t.at >= 0)
      BY <2>1, <2>6
    <3>6. panel.overdue = (panel.badge = "expired")
      BY <1>3, <2>1, <2>4, <2>6, <3>1 DEF DomainPanel
    <3> QED BY <1>2, <1>3, <1>5, <2>4, <3>1, <3>2, <3>4, <3>5, <3>6 DEF ExpiredIsShown
  <2>7. CASE ~(days < 0)
    <3>1. panel.badge # "expired" /\ panel.days = days
      BY <1>3, <1>4, <2>3, <2>4, <2>5, <2>7 DEF DomainPanel
    <3>2. ~(t.at < 0)
      BY <2>1, <2>7
    <3>3. panel.overdue = (panel.badge = "expired")
      BY <1>3, <2>1, <2>4, <2>7, <3>1 DEF DomainPanel
    <3> QED BY <1>2, <1>3, <1>5, <2>1, <2>4, <3>1, <3>2, <3>3 DEF ExpiredIsShown
  <2> QED BY <2>6, <2>7
<1>6. CASE ~t.valid
  <2>1. deriveDaysFromCertExpiry(t) = Unknown /\ ~isCertExpired(t)
    BY <1>4, <1>6, DaysKnown DEF isCertExpired
  <2>2. PICK panel : panel = DomainPanel(domain)
    OBVIOUS
  <2>3. panel.badge # "expired" /\ panel.overdue = FALSE
    BY <1>3, <1>4, <2>1, <2>2 DEF DomainPanel
  <2> QED BY <1>2, <1>3, <1>6, <2>2, <2>3 DEF ExpiredIsShown
<1> QED BY <1>4, <1>5, <1>6

\* A certificate is shown as expired exactly from the instant it expires, and the days shown
\* never promise more than is left (certificate-age.ts), for any length of a day and any time.
THEOREM ExpiredAlwaysShown == InputsSpec => []ExpiredIsShown
  BY ShowsExpired, AlwaysInputsInv, PTL

-----------------------------------------------------------------------------
(* The order of the table *)

ListedDomain == [index : Nat, expiry : Text]

LEMMA SoonerOrders ==
    ASSUME NEW S \in SUBSET ListedDomain, \A a, b \in S : a.index = b.index => a = b
    PROVE  Orders({p \in S \X S : Sooner(p[1], p[2])}, S)
<1> DEFINE R == {p \in S \X S : Sooner(p[1], p[2])}
           E(a) == parseCertExpiresMs(a.expiry)
<1>1. \A a, b \in S : <<a, b>> \in R <=> Sooner(a, b)
  OBVIOUS
<1>2. \A a \in S : a.index \in Nat /\ (E(a) # Unknown => E(a) \in Int)
  BY DaysKnown DEF ListedDomain, Text
<1>3. \A a, b \in S : Sooner(a, b) <=>
        \/ E(a) # Unknown /\ E(b) = Unknown
        \/ E(a) = Unknown /\ E(b) = Unknown /\ a.index < b.index
        \/ E(a) # Unknown /\ E(b) # Unknown /\ (E(a) < E(b) \/ (E(a) = E(b) /\ a.index < b.index))
  BY DEF Sooner
<1> HIDE DEF R, E
<1>4. \A a \in S : <<a, a>> \notin R
  BY <1>1, <1>2, <1>3
<1>5. ASSUME NEW a \in S, NEW b \in S, a # b
      PROVE  <<a, b>> \in R \/ <<b, a>> \in R
  <2>1. a.index \in Nat /\ b.index \in Nat /\ a.index # b.index
    BY <1>2, <1>5
  <2>2. (E(a) # Unknown => E(a) \in Int) /\ (E(b) # Unknown => E(b) \in Int)
    BY <1>2
  <2>3. Sooner(a, b) \/ Sooner(b, a)
    BY <1>3, <2>1, <2>2
  <2> QED BY <1>1, <2>3
<1>6. \A a, b, c \in S : (<<a, b>> \in R /\ <<b, c>> \in R) => <<a, c>> \in R
  BY <1>1, <1>2, <1>3
<1>7. Orders(R, S)
  BY <1>4, <1>5, <1>6 DEF Orders
<1> QED BY <1>7 DEF R

LEMMA PlacesCounted ==
    ASSUME NEW n \in Nat, NEW list \in [1..n -> ListText]
    PROVE  /\ IsFiniteSet(Places(list)) /\ Cardinality(Places(list)) = n
           /\ Places(list) \in SUBSET ListedDomain
           /\ \A a, b \in Places(list) : a.index = b.index => a = b
           /\ {a.index : a \in Places(list)} = 1..n
<1> DEFINE f == [i \in 1..n |-> [index |-> i, expiry |-> list[i]]]
<1>1. DOMAIN list = 1..n /\ \A i \in 1..n : list[i] \in Text
  BY DEF ListText
<1>2. Places(list) = {[index |-> i, expiry |-> list[i]] : i \in 1..n}
  BY <1>1 DEF Places
<1>3. f \in Bijection(1..n, Places(list))
  <2>1. f \in [1..n -> Places(list)]
    BY <1>2
  <2>2. \A i, j \in 1..n : f[i] = f[j] => i = j
    <3>1. \A i \in 1..n : f[i].index = i
      OBVIOUS
    <3> HIDE DEF f
    <3> QED BY <3>1
  <2>3. \A p \in Places(list) : \E i \in 1..n : f[i] = p
    BY <1>2
  <2> HIDE DEF f
  <2> QED BY <2>1, <2>2, <2>3 DEF Bijection, Injection, Surjection, IsInjective
<1>4. IsFiniteSet(1..n) /\ Cardinality(1..n) = n
  BY FS_Interval
<1>5. IsFiniteSet(Places(list)) /\ Cardinality(Places(list)) = n
  <2> HIDE DEF f
  <2> DEFINE D == 1..n
  <2>1. IsFiniteSet(D) /\ f \in Bijection(D, Places(list))
    BY <1>3, <1>4
  <2> HIDE DEF D
  <2>2. ExistsBijection(D, Places(list))
    BY <2>1 DEF ExistsBijection
  <2>3. IsFiniteSet(Places(list)) /\ Cardinality(Places(list)) = Cardinality(D)
    BY <2>1, <2>2, FS_Bijection
  <2> QED BY <1>4, <2>3 DEF D
<1>6. Places(list) \in SUBSET ListedDomain
  BY <1>1, <1>2 DEF ListedDomain
<1>7. \A a, b \in Places(list) : a.index = b.index => a = b
  BY <1>2
<1>8. {a.index : a \in Places(list)} = 1..n
  <2>1. \A a \in Places(list) : a.index \in 1..n
    BY <1>2
  <2>2. \A i \in 1..n : \E a \in Places(list) : a.index = i
    <3>1. \A i \in 1..n : f[i] \in Places(list) /\ f[i].index = i
      BY <1>2
    <3> HIDE DEF f
    <3> QED BY <3>1
  <2> QED BY <2>1, <2>2
<1> QED BY <1>5, <1>6, <1>7, <1>8

LEMMA OrdersExpiry == InputsInv => ExpiryOrdered
<1> SUFFICES ASSUME InputsInv PROVE ExpiryOrdered
  OBVIOUS
<1>1. SUFFICES ASSUME webInput.kind = "list", NEW n \in Nat, webInput.list \in [1..n -> ListText]
               PROVE  ExpiryOrdered
  <2>1. MaxListed \in Nat /\ \A n \in 0..MaxListed : n \in Nat
    BY InputsAssumption
  <2>2. webInput.kind = "list" => \E n \in 0..MaxListed : webInput.list \in [1..n -> ListText]
    BY DEF InputsInv
  <2>3. webInput.kind # "list" => ExpiryOrdered
    BY DEF ExpiryOrdered
  <2> QED BY <2>1, <2>2, <2>3
<1>2. PICK list : list = webInput.list
  OBVIOUS
<1> DEFINE S == Places(list)
           R == {p \in S \X S : Sooner(p[1], p[2])}
<1>3. /\ IsFiniteSet(S) /\ Cardinality(S) = n /\ S \in SUBSET ListedDomain
      /\ \A a, b \in S : a.index = b.index => a = b
      /\ {a.index : a \in S} = 1..n
  BY <1>1, <1>2, PlacesCounted
<1>4. \A a, b \in S : <<a, b>> \in R <=> Sooner(a, b)
  OBVIOUS
<1>5. Orders(R, S)
  BY <1>3, SoonerOrders
<1>6. \E s \in SetToSeqs(S) : \A i, j \in DOMAIN s : i < j => Sooner(s[i], s[j])
  <2> HIDE DEF S, R
  <2>1. PICK s \in SetToSeqs(S) : \A i, j \in DOMAIN s : i < j => <<s[i], s[j]>> \in R
    BY <1>3, <1>5, OrderedExists
  <2>2. \A i \in DOMAIN s : s[i] \in S
    BY DEF SetToSeqs
  <2> QED BY <1>4, <2>1, <2>2
<1>7. PICK sorted : sorted = sortDomainsByCertExpiryAsc(list)
  OBVIOUS
<1>8. sorted \in SetToSeqs(S) /\ \A i, j \in DOMAIN sorted : i < j => Sooner(sorted[i], sorted[j])
  BY <1>6, <1>7 DEF sortDomainsByCertExpiryAsc
<1> HIDE DEF S, R
<1>9. sorted \in Seq(S) /\ Len(sorted) = n /\ ToSet(sorted) = S
  BY <1>3, <1>8, ListIsOnto
<1>10. Len(list) = n /\ DOMAIN list = 1..n
  BY <1>1, <1>2
<1>11. {sorted[i].index : i \in DOMAIN sorted} = DOMAIN list
  <2>1. {sorted[i].index : i \in DOMAIN sorted} = {a.index : a \in S}
    BY <1>9 DEF ToSet
  <2> QED BY <1>3, <1>10, <2>1
<1>12. ASSUME NEW i \in DOMAIN sorted, NEW j \in DOMAIN sorted, i < j
       PROVE  /\ sorted[j].expiry.valid => sorted[i].expiry.valid /\ sorted[i].expiry.at <= sorted[j].expiry.at
              /\ sorted[i].expiry = sorted[j].expiry => sorted[i].index < sorted[j].index
  <2>1. PICK a \in ListedDomain, b \in ListedDomain : a = sorted[i] /\ b = sorted[j]
    BY <1>3, <1>9
  <2>2. Sooner(a, b)
    BY <1>8, <1>12, <2>1
  <2>3. a.expiry \in Text /\ b.expiry \in Text /\ a.expiry.valid \in BOOLEAN /\ b.expiry.valid \in BOOLEAN
    BY DEF ListedDomain, Text
  <2>4. /\ a.expiry.valid => a.expiry.at \in Int /\ parseCertExpiresMs(a.expiry) = a.expiry.at /\ a.expiry.at # Unknown
        /\ ~a.expiry.valid => parseCertExpiresMs(a.expiry) = Unknown
    BY <2>3, DaysKnown
  <2>5. /\ b.expiry.valid => b.expiry.at \in Int /\ parseCertExpiresMs(b.expiry) = b.expiry.at /\ b.expiry.at # Unknown
        /\ ~b.expiry.valid => parseCertExpiresMs(b.expiry) = Unknown
    BY <2>3, DaysKnown
  <2>6. b.expiry.valid => a.expiry.valid /\ a.expiry.at <= b.expiry.at
    BY <2>2, <2>3, <2>4, <2>5 DEF Sooner
  <2>7. a.expiry = b.expiry => a.index < b.index
    BY <2>2, <2>3, <2>4, <2>5 DEF Sooner
  <2> QED BY <2>1, <2>6, <2>7
<1> QED BY <1>2, <1>7, <1>9, <1>10, <1>11, <1>12 DEF ExpiryOrdered

\* The table lists every domain once, the next to expire first, what cannot be read last, and
\* equals in the order they came (certificate-age.ts), for lists of any length.
THEOREM ExpiryAlwaysOrdered == InputsSpec => []ExpiryOrdered
  BY OrdersExpiry, AlwaysInputsInv, PTL

-----------------------------------------------------------------------------
(* Languages and errors *)

LEMMA RemembersLocale == InputsInv => LocaleRemembered
<1> SUFFICES ASSUME InputsInv PROVE LocaleRemembered
  OBVIOUS
<1>1. SUFFICES ASSUME webInput \in LocaleInput PROVE LocaleRemembered
  BY DEF InputsInv, LocaleRemembered
<1>2. PICK locale \in Locale, tag \in Tag : locale = webInput.locale /\ tag = webInput.tag
  BY <1>1 DEF LocaleInput
<1>3. TagOf(locale) # <<>> /\ normalizeLocale(TagOf(locale)) = locale
  BY <1>2 DEF TagOf, normalizeLocale, Locale
<1>4. normalizeLocale(tag) \in Locale
  BY <1>2 DEF normalizeLocale, Locale
<1>5. detectLocale(TagOf(locale), <<tag>>) = locale
  BY <1>3 DEF detectLocale
<1>6. detectLocale(<<>>, <<tag, <<"fr", "">> >>) \in Locale
  BY <1>4 DEF detectLocale
<1> QED BY <1>2, <1>5, <1>6 DEF LocaleRemembered

\* The language a visitor chose is the one found again, and no tag leads to one there is not
\* (i18n.tsx).
THEOREM LocaleAlwaysRemembered == InputsSpec => []LocaleRemembered
  BY RemembersLocale, AlwaysInputsInv, PTL

\* What each group of calls gives is what the English messages ask for.
LEMMA GivesAsked ==
    /\ \A key \in DOMAIN PanelGives     : key \in DOMAIN enMessages /\ PanelGives[key] = enMessages[key]
    /\ \A key \in DOMAIN DashboardGives : key \in DOMAIN enMessages /\ DashboardGives[key] = enMessages[key]
    /\ \A key \in DOMAIN AdminGives     : key \in DOMAIN enMessages /\ AdminGives[key] = enMessages[key]
    /\ \A key \in DOMAIN PolicyGives    : key \in DOMAIN enMessages /\ PolicyGives[key] = enMessages[key]
<1>1. \A key \in DOMAIN PanelGives : key \in DOMAIN enMessages /\ PanelGives[key] = enMessages[key]
  <2>1. DOMAIN PanelGives =
          {"daysOverdue", "daysRemainingValue", "intervalPresetHours", "intervalPresetDays",
           "targetIpSummary", "resolvedIpSummary"}
    BY DEF PanelGives
  <2>2. /\ "daysOverdue" \in DOMAIN enMessages /\ PanelGives["daysOverdue"] = enMessages["daysOverdue"]
        /\ "daysRemainingValue" \in DOMAIN enMessages /\ PanelGives["daysRemainingValue"] = enMessages["daysRemainingValue"]
        /\ "intervalPresetHours" \in DOMAIN enMessages /\ PanelGives["intervalPresetHours"] = enMessages["intervalPresetHours"]
        /\ "intervalPresetDays" \in DOMAIN enMessages /\ PanelGives["intervalPresetDays"] = enMessages["intervalPresetDays"]
        /\ "targetIpSummary" \in DOMAIN enMessages /\ PanelGives["targetIpSummary"] = enMessages["targetIpSummary"]
        /\ "resolvedIpSummary" \in DOMAIN enMessages /\ PanelGives["resolvedIpSummary"] = enMessages["resolvedIpSummary"]
    BY DEF PanelGives, enMessages
  <2> QED BY <2>1, <2>2
<1>2. \A key \in DOMAIN DashboardGives : key \in DOMAIN enMessages /\ DashboardGives[key] = enMessages[key]
  <2>1. DOMAIN DashboardGives =
          {"checkAllSuccess", "checkAllFailed", "checkAllPartial", "checkProgress",
           "domainCheckSuccess", "domainCheckFailed"}
    BY DEF DashboardGives
  <2>2. /\ "checkAllSuccess" \in DOMAIN enMessages /\ DashboardGives["checkAllSuccess"] = enMessages["checkAllSuccess"]
        /\ "checkAllFailed" \in DOMAIN enMessages /\ DashboardGives["checkAllFailed"] = enMessages["checkAllFailed"]
        /\ "checkAllPartial" \in DOMAIN enMessages /\ DashboardGives["checkAllPartial"] = enMessages["checkAllPartial"]
        /\ "checkProgress" \in DOMAIN enMessages /\ DashboardGives["checkProgress"] = enMessages["checkProgress"]
        /\ "domainCheckSuccess" \in DOMAIN enMessages /\ DashboardGives["domainCheckSuccess"] = enMessages["domainCheckSuccess"]
        /\ "domainCheckFailed" \in DOMAIN enMessages /\ DashboardGives["domainCheckFailed"] = enMessages["domainCheckFailed"]
    BY DEF DashboardGives, enMessages
  <2> QED BY <2>1, <2>2
<1>3. \A key \in DOMAIN AdminGives : key \in DOMAIN enMessages /\ AdminGives[key] = enMessages[key]
  <2>1. DOMAIN AdminGives =
          {"bulkDeleteConfirm", "bulkPartialSuccess", "bulkEnableSuccess", "bulkDisableSuccess",
           "bulkDeleteSuccess", "selectedCount", "paginationSummary"}
    BY DEF AdminGives
  <2>2. /\ "bulkDeleteConfirm" \in DOMAIN enMessages /\ AdminGives["bulkDeleteConfirm"] = enMessages["bulkDeleteConfirm"]
        /\ "bulkPartialSuccess" \in DOMAIN enMessages /\ AdminGives["bulkPartialSuccess"] = enMessages["bulkPartialSuccess"]
        /\ "bulkEnableSuccess" \in DOMAIN enMessages /\ AdminGives["bulkEnableSuccess"] = enMessages["bulkEnableSuccess"]
        /\ "bulkDisableSuccess" \in DOMAIN enMessages /\ AdminGives["bulkDisableSuccess"] = enMessages["bulkDisableSuccess"]
        /\ "bulkDeleteSuccess" \in DOMAIN enMessages /\ AdminGives["bulkDeleteSuccess"] = enMessages["bulkDeleteSuccess"]
        /\ "selectedCount" \in DOMAIN enMessages /\ AdminGives["selectedCount"] = enMessages["selectedCount"]
        /\ "paginationSummary" \in DOMAIN enMessages /\ AdminGives["paginationSummary"] = enMessages["paginationSummary"]
    BY DEF AdminGives, enMessages
  <2> QED BY <2>1, <2>2
<1>4. \A key \in DOMAIN PolicyGives : key \in DOMAIN enMessages /\ PolicyGives[key] = enMessages[key]
  <2>1. DOMAIN PolicyGives = {"testSuccess", "currentThresholdInput"}
    BY DEF PolicyGives
  <2>2. PolicyGives["testSuccess"] = {"name"} /\ PolicyGives["currentThresholdInput"] = {"value"}
    BY DEF PolicyGives
  <2>3. /\ {"testSuccess", "currentThresholdInput"} \subseteq DOMAIN enMessages
        /\ enMessages["testSuccess"] = {"name"} /\ enMessages["currentThresholdInput"] = {"value"}
    BY DEF enMessages
  <2> QED BY <2>1, <2>2, <2>3
<1> QED BY <1>1, <1>2, <1>3, <1>4

LEMMA GivenIsAsked ==
    ASSUME NEW key \in DOMAIN Given PROVE key \in DOMAIN enMessages /\ Given[key] = enMessages[key]
BY GivesAsked DEF Given

LEMMA FillsPlaces == InputsInv => EveryPlaceFilled
<1> SUFFICES ASSUME InputsInv PROVE EveryPlaceFilled
  OBVIOUS
<1>1. SUFFICES ASSUME webInput \in MessageInput PROVE EveryPlaceFilled
  BY DEF InputsInv, EveryPlaceFilled
<1>2. PICK locale \in Locale, key \in DOMAIN Given : locale = webInput.locale /\ key = webInput.key
  BY <1>1 DEF MessageInput
<1>3. key \in DOMAIN enMessages /\ Given[key] = enMessages[key]
  BY GivenIsAsked
<1>4. key \in DOMAIN messages(locale) => messages(locale)[key] = enMessages[key]
  <2> HIDE DEF enMessages
  <2> QED BY DEF messages
<1>5. Template(locale, key) = enMessages[key]
  BY <1>3, <1>4 DEF Template
<1> QED BY <1>2, <1>3, <1>5 DEF EveryPlaceFilled, interpolate

\* In every language, also where a message was never translated, each place in a text is
\* filled by what its caller gives (i18n.tsx).
THEOREM EveryPlaceAlwaysFilled == InputsSpec => []EveryPlaceFilled
  BY FillsPlaces, AlwaysInputsInv, PTL

LEMMA NamesErrors == InputsInv => ErrorsNamed
<1> SUFFICES ASSUME InputsInv PROVE ErrorsNamed
  OBVIOUS
<1>1. SUFFICES ASSUME webInput \in ErrorInput PROVE ErrorsNamed
  BY DEF InputsInv, ErrorsNamed
<1>2. PICK locale \in Locale, reason \in Reason : locale = webInput.locale /\ reason = webInput.reason
  BY <1>1 DEF ErrorInput
<1>3. DOMAIN AuthStatus \subseteq messageToCode
  BY DEF AuthStatus, messageToCode
<1>4. reason.api => reason.error /\ reason.status \in {400, 401, 403, 404, 409, 500, 503}
  <2> DEFINE FromServer  == [error : {TRUE}, api : {TRUE}, message : DOMAIN AuthStatus \cup {"other"},
                          status : {400, 401, 403, 404, 409, 500, 503}]
             OwnFaults == [error : BOOLEAN, api : {FALSE}, message : {"noSelectedUser", "other"}, status : {0}]
  <2>1. ASSUME reason \in FromServer PROVE reason.error /\ reason.status \in {400, 401, 403, 404, 409, 500, 503}
    BY <2>1
  <2>2. ASSUME reason \in OwnFaults PROVE ~reason.api
    BY <2>2
  <2>3. Reason = FromServer \cup OwnFaults
    BY DEF Reason
  <2> HIDE DEF FromServer, OwnFaults
  <2> QED BY <2>1, <2>2, <2>3
<1>5. "none" \notin messageToCode
  BY DEF messageToCode
<1>6. (reason.api /\ reason.message \in DOMAIN AuthStatus) => codeFromReason(reason) = reason.message
  BY <1>3, <1>4 DEF codeFromReason
<1>7. reason.api => codeFromReason(reason) \in localizedMessages(locale)
  <2>1. reason.api => codeFromStatus(reason.status)
          \in {"badRequest", "unauthorized", "forbidden", "notFound", "conflict", "serverError"}
    BY <1>4 DEF codeFromStatus
  <2> QED BY <1>4, <2>1 DEF codeFromReason, localizedMessages
<1>8. "fallback" \notin localizedMessages(locale)
  BY DEF localizedMessages, messageToCode
<1> QED BY <1>2, <1>6, <1>7, <1>8 DEF ErrorsNamed, getLocalizedApiErrorMessage

\* An error of the server's authentication is told by its own name, any other answer by its
\* status (api-error.ts).
THEOREM ErrorsAlwaysNamed == InputsSpec => []ErrorsNamed
  BY NamesErrors, AlwaysInputsInv, PTL
=============================================================================
