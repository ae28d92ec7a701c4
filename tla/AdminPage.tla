------------------------------ MODULE AdminPage ------------------------------
(***************************************************************************)
(* The tenant administration page (pages/admin-page.tsx) against the admin *)
(* handlers it calls (httpapi/handlers_admin.go): the paged list, the      *)
(* selection and the bulk actions on it, and the dialogs of one tenant.    *)
(*                                                                         *)
(* Tenants are numbers, in the order of every sort key. Search text,       *)
(* status filter and quick filter are one choice, the filter: each is a    *)
(* part of the list's key, and setting it goes back to the first page.     *)
(***************************************************************************)
EXTENDS Integers, SequencesExt, Lists, QueryCache

CONSTANTS
    TenantId,    \* the tenants there are at first
    PageSize,
    Filter,      \* "all", "active", "disabled"
    NoneChosen,  \* no selected tenant
    Column,      \* the sortable columns
    MaxSteps,    \* bound: what the administrator does, and requests that fail
    MaxLooks,    \* of these, changes of the filter, the sort order or the page
    MaxLosses    \* and requests that fail

ASSUME AdminAssumption ==
    /\ "expiry" \in Column
    /\ TenantId \subseteq Nat \ {0} /\ IsFiniteSet(TenantId) /\ NoneChosen \notin TenantId
    /\ PageSize \in Nat \ {0} /\ Filter \subseteq {"all", "active", "disabled"}
    /\ MaxLooks \in Nat /\ MaxSteps \in Nat /\ MaxLosses \in Nat

VARIABLES
    \* the database
    tenants, blocked,
    \* the list: its state and the queries of its keys
    filter, currentPage, sortKey, lists,
    selectedTenantIds,
    \* the dialogs
    selectedTenantId, activeModal, details,
    \* statusMutation, deleteMutation, passwordMutation
    mutation,
    \* runBulkAction, and the feedback
    bulk, actionMessage, actionError,
    \* bookkeeping
    applied,     \* tenants the server changed for the bulk action
    looks, clicks, losses

tenantRows == <<tenants, blocked>>
listVars   == <<filter, currentPage, sortKey, lists>>
modalVars  == <<selectedTenantId, activeModal, details>>
feedback   == <<actionMessage, actionError>>
adminVars  == <<tenantRows, listVars, selectedTenantIds, modalVars, mutation, bulk, feedback,
                applied, looks, clicks, losses>>

SortKeys  == Column \X {"asc", "desc"}
Modal     == {"none", "details", "access", "password"}
Mutations == {"status", "delete", "password"}

Least(a, b) == IF a <= b THEN a ELSE b
Pages(n)    == IF n = 0 THEN 1 ELSE (n + PageSize - 1) \div PageSize

-----------------------------------------------------------------------------
(* The answers of the server *)

Matching(f) == CASE f = "all"      -> tenants
                 [] f = "active"   -> tenants \ blocked
                 [] f = "disabled" -> tenants \cap blocked

TenantRow(t) == [id |-> t, disabled |-> t \in blocked]

Sorted(key) ==
    CHOOSE s \in SetToSeqs(Matching(key.filter)) :
        \A i, j \in DOMAIN s : i < j => IF key.sort[2] = "asc" THEN s[i] < s[j] ELSE s[i] > s[j]

PageOf(all, p) ==
    [rows  |-> [i \in 1..(Least(p * PageSize, Len(all)) - (p - 1) * PageSize) |->
                   TenantRow(all[(p - 1) * PageSize + i])],
     total |-> Len(all), pages |-> Pages(Len(all))]

\* handleAdminListTenants: a page past the end is the last page.
AdminTenantList(key) == PageOf(Sorted(key), Least(key.page, Pages(Len(Sorted(key)))))

-----------------------------------------------------------------------------
(* What the page derives from the answer it has *)

Key(f, p, s) == [filter |-> f, page |-> p, sort |-> s]
CurrentKey   == Key(filter, currentPage, sortKey)
Query(ls, k) == IF k \in DOMAIN ls THEN ls[k] ELSE Blank
ListData     == Query(lists, CurrentKey).data

\* No answer yet counts as an empty list of one page.
TotalPages(data) == IF data = NoData THEN 1 ELSE data.pages

TotalTenants == IF ListData = NoData THEN 0 ELSE ListData.total
CurrentPageSafe == Least(currentPage, TotalPages(ListData))
PageStart == IF TotalTenants = 0 THEN 0 ELSE (CurrentPageSafe - 1) * PageSize + 1

\* Mutant: every page is taken for a full one.
PageEndUnbounded == IF TotalTenants = 0 THEN 0 ELSE CurrentPageSafe * PageSize

PageEnd == IF TotalTenants = 0 THEN 0 ELSE Least(CurrentPageSafe * PageSize, TotalTenants)

PageTenantIds == IF ListData = NoData THEN <<>> ELSE [i \in DOMAIN ListData.rows |-> ListData.rows[i].id]

\* The table and its controls are there once a list with tenants has arrived.
ListShown == TotalTenants > 0

\* The numbered buttons of the pager: up to five, around the current page.
GetVisiblePages(current, total) ==
    IF total <= 5 THEN 1..total
    ELSE LET first == IF current <= 3 THEN 1
                      ELSE IF current >= total - 2 THEN total - 4 ELSE current - 2
         IN  first..(first + 4)

\* The pages the effect goes through: from the key's own to the last one of the answer that
\* the key has, and on from there.
LastPage(ls, key, p) == TotalPages(Query(ls, [key EXCEPT !.page = p]).data)
Passed(ls, key) ==
    {p \in 1..key.page : \A V \in SUBSET (1..key.page) :
        (key.page \in V /\ \A q \in V : q > LastPage(ls, key, q) => LastPage(ls, key, q) \in V) => p \in V}
Clamp(ls, key) == CHOOSE p \in Passed(ls, key) : \A q \in Passed(ls, key) : p <= q

\* A key is rendered: its query is in the cache from then on, and fetches.
Rendered(ls, keys) == [k \in DOMAIN ls \cup keys |-> IF k \in keys THEN Mounted(Query(ls, k)) ELSE ls[k]]

\* The page is rendered with this key, and with those the effect leads to.
Render(f, p, s) ==
    /\ filter' = f /\ sortKey' = s
    /\ currentPage' = Clamp(lists, Key(f, p, s))
    /\ lists' = Rendered(lists, {Key(f, q, s) : q \in Passed(lists, Key(f, p, s))})

Click == looks + clicks + losses < MaxSteps /\ clicks' = clicks + 1 /\ UNCHANGED looks
Look  == looks < MaxLooks /\ looks + clicks + losses < MaxSteps /\ looks' = looks + 1 /\ UNCHANGED clicks
Lose  == losses < MaxLosses /\ looks + clicks + losses < MaxSteps /\ losses' = losses + 1

-----------------------------------------------------------------------------
NoBulk == [phase |-> "idle", action |-> "none", targets |-> <<>>, next |-> 1, failed |-> 0,
           tenant |-> NoneChosen]

AdminInit ==
    /\ tenants = TenantId /\ blocked = {}
    /\ filter = "all" /\ currentPage = 1 /\ sortKey = <<"expiry", "asc">>
    /\ lists = [k \in {CurrentKey} |-> Started(Blank)]
    /\ selectedTenantIds = <<>>
    /\ selectedTenantId = NoneChosen /\ activeModal = "none"
    /\ details = [t \in TenantId |-> Blank]
    /\ mutation = [m \in Mutations |-> [phase |-> "idle", id |-> NoneChosen, disabled |-> FALSE]]
    /\ bulk = NoBulk
    /\ actionMessage = <<>> /\ actionError = FALSE
    /\ applied = {} /\ looks = 0 /\ clicks = 0 /\ losses = 0

(* Looking at the list *)

\* The search field, the status filter, or a quick filter (shown with the list).
SetFilter(f) ==
    /\ Look /\ f # filter /\ activeModal = "none"
    /\ Render(f, 1, sortKey)
    /\ UNCHANGED <<tenantRows, selectedTenantIds, modalVars, mutation, bulk, feedback, applied, losses>>

\* A column's header: the other direction, or the other column ascending.
HandleSort(column) ==
    /\ Look /\ ListShown /\ activeModal = "none"
    /\ Render(filter, 1, <<column, IF column = sortKey[1] /\ sortKey[2] = "asc" THEN "desc" ELSE "asc">>)
    /\ UNCHANGED <<tenantRows, selectedTenantIds, modalVars, mutation, bulk, feedback, applied, losses>>

\* Previous, Next and the numbered buttons.
GoToPage(p) ==
    /\ Look /\ ListShown /\ activeModal = "none" /\ ListData.rows # <<>>
    /\ p # currentPage
    /\ p \in GetVisiblePages(CurrentPageSafe, TotalPages(ListData))
    /\ Render(filter, p, sortKey)
    /\ UNCHANGED <<tenantRows, selectedTenantIds, modalVars, mutation, bulk, feedback, applied, losses>>

ListAnswered(k) ==
    /\ lists[k].flight = "sent"
    /\ lists' = [lists EXCEPT ![k] = Answered(@, AdminTenantList(k))]
    /\ UNCHANGED <<tenantRows, filter, currentPage, sortKey, selectedTenantIds, modalVars, mutation,
                   bulk, feedback, applied, looks, clicks, losses>>

\* The answer is stored, and if it is the one shown the effect may leave the page.
ListArrives(k) ==
    /\ \/ lists[k].flight = "answered" /\ UNCHANGED losses
       \/ lists[k].flight = "sent" /\ Lose
    /\ LET q  == IF lists[k].flight = "answered" THEN Settled(lists[k]) ELSE Failed(lists[k])
           ls == [lists EXCEPT ![k] = q]
       IN  /\ currentPage' = Clamp(ls, CurrentKey)
           /\ lists' = Rendered(ls, {Key(filter, p, sortKey) : p \in Passed(ls, CurrentKey) \ {currentPage}})
    /\ UNCHANGED <<tenantRows, filter, sortKey, selectedTenantIds, modalVars, mutation, bulk,
                   feedback, applied, looks, clicks>>

(* Selecting *)

Without(ids, gone) == Among(ids, ToSet(ids) \ gone)

ToggleTenantSelection(t) ==
    /\ Click /\ ListShown /\ activeModal = "none" /\ t \in ToSet(PageTenantIds)
    /\ selectedTenantIds' = IF t \in ToSet(selectedTenantIds) THEN Without(selectedTenantIds, {t})
                            ELSE Append(selectedTenantIds, t)
    /\ UNCHANGED <<tenantRows, listVars, modalVars, mutation, bulk, feedback, applied, losses>>

\* The checkbox of the header: checked when every row of the page is.
TogglePageSelection ==
    /\ Click /\ ListShown /\ activeModal = "none"
    /\ LET shown == ToSet(PageTenantIds) IN
       selectedTenantIds' = IF shown \subseteq ToSet(selectedTenantIds)
                            THEN Without(selectedTenantIds, shown)
                            ELSE selectedTenantIds \o Without(PageTenantIds, ToSet(selectedTenantIds))
    /\ UNCHANGED <<tenantRows, listVars, modalVars, mutation, bulk, feedback, applied, losses>>

ClearSelection ==
    /\ Click /\ ListShown /\ activeModal = "none" /\ selectedTenantIds # <<>>
    /\ selectedTenantIds' = <<>>
    /\ UNCHANGED <<tenantRows, listVars, modalVars, mutation, bulk, feedback, applied, losses>>

-----------------------------------------------------------------------------
(* The dialogs of one tenant *)

ResetFeedback == actionMessage' = <<>> /\ actionError' = FALSE

\* openModal: the detail query is enabled, or changes its key, and fetches.
OpenModal(t, dialog) ==
    /\ Click /\ ListShown /\ activeModal = "none" /\ t \in ToSet(PageTenantIds)
    /\ selectedTenantId' = t /\ activeModal' = dialog
    /\ details' = [details EXCEPT ![t] = Mounted(@)]
    /\ ResetFeedback
    /\ UNCHANGED <<tenantRows, listVars, selectedTenantIds, mutation, bulk, applied, losses>>

\* The buttons of the detail dialog lead to the other two.
SwitchModal(dialog) ==
    /\ Click /\ activeModal = "details" /\ details[selectedTenantId].data # NoData
    /\ activeModal' = dialog
    /\ UNCHANGED <<tenantRows, listVars, selectedTenantIds, selectedTenantId, details, mutation,
                   bulk, feedback, applied, losses>>

\* The cross or the Escape key.
CloseModal ==
    /\ Click /\ activeModal # "none"
    /\ activeModal' = "none"
    /\ ResetFeedback
    /\ UNCHANGED <<tenantRows, listVars, selectedTenantIds, selectedTenantId, details, mutation,
                   bulk, applied, losses>>

DetailAnswered(t) ==
    /\ details[t].flight = "sent"
    /\ details' = [details EXCEPT ![t] =
                     IF t \in tenants THEN Answered(@, TenantRow(t)) ELSE Failed(@)]
    /\ UNCHANGED <<tenantRows, listVars, selectedTenantIds, selectedTenantId, activeModal, mutation,
                   bulk, feedback, applied, looks, clicks, losses>>

DetailArrives(t) ==
    /\ details[t].flight = "answered"
    /\ details' = [details EXCEPT ![t] = Settled(@)]
    /\ UNCHANGED <<tenantRows, listVars, selectedTenantIds, selectedTenantId, activeModal, mutation,
                   bulk, feedback, applied, looks, clicks, losses>>

Send(m, arg) == mutation' = [mutation EXCEPT ![m] =
                    [phase |-> "sent", id |-> selectedTenantId, disabled |-> arg]]

DetailShown(dialog) == activeModal = dialog /\ details[selectedTenantId].data # NoData

\* The button offers the opposite of the status shown. (A second click while one is
\* under way is left out: it would repeat the same request.)
ClickStatus ==
    /\ Click /\ DetailShown("access") /\ mutation["status"].phase = "idle"
    /\ Send("status", ~details[selectedTenantId].data.disabled)
    /\ UNCHANGED <<tenantRows, listVars, selectedTenantIds, modalVars, bulk, feedback, applied, losses>>

ClickDelete ==
    /\ Click /\ DetailShown("access") /\ mutation["delete"].phase = "idle"
    /\ Send("delete", FALSE)
    /\ UNCHANGED <<tenantRows, listVars, selectedTenantIds, modalVars, bulk, feedback, applied, losses>>

SubmitPassword ==
    /\ Click /\ DetailShown("password") /\ mutation["password"].phase = "idle"
    /\ Send("password", FALSE)
    /\ ResetFeedback
    /\ UNCHANGED <<tenantRows, listVars, selectedTenantIds, modalVars, bulk, applied, losses>>

\* What the handlers do for a tenant that exists; for another they answer 404.
Apply(action, t) ==
    \/ t \notin tenants /\ UNCHANGED tenantRows
    \/ t \in tenants /\ CASE action = "delete"   -> tenants' = tenants \ {t} /\ blocked' = blocked \ {t}
                          [] action = "disable"  -> blocked' = blocked \cup {t} /\ UNCHANGED tenants
                          [] action = "enable"   -> blocked' = blocked \ {t} /\ UNCHANGED tenants
                          [] action = "password" -> UNCHANGED tenantRows

Handled(m) ==
    /\ mutation[m].phase = "sent"
    /\ Apply(IF m = "status" THEN (IF mutation[m].disabled THEN "disable" ELSE "enable") ELSE m,
             mutation[m].id)
    /\ mutation' = [mutation EXCEPT ![m].phase = IF mutation[m].id \in tenants THEN "done" ELSE "refused"]
    /\ UNCHANGED <<listVars, selectedTenantIds, modalVars, bulk, feedback, applied, looks, clicks, losses>>

\* A refusal or a lost answer: the error, and no query is invalidated.
MutationFails(m) ==
    /\ \/ mutation[m].phase = "refused" /\ UNCHANGED <<losses, lists, details>>
       \/ /\ mutation[m].phase = "done" /\ Lose
          /\ lists' = [k \in DOMAIN lists |-> Outdated(lists[k])]
          /\ details' = [t \in TenantId |-> Outdated(details[t])]
    /\ actionMessage' = (IF m = "password" THEN actionMessage ELSE <<>>) /\ actionError' = TRUE
    /\ mutation' = [mutation EXCEPT ![m].phase = "idle", ![m].id = NoneChosen, ![m].disabled = FALSE]
    /\ UNCHANGED <<tenantRows, filter, currentPage, sortKey, selectedTenantIds, selectedTenantId,
                   activeModal, bulk, applied, looks, clicks>>

Refetched(t) == [details EXCEPT ![t] = IF activeModal # "none" /\ selectedTenantId = t
                                        THEN Invalidated(@) ELSE @]

\* Mutant: the success handler leaves the list as it is.
StatusChangedQuietly ==
    /\ mutation["status"].phase = "done"
    /\ actionError' = FALSE /\ actionMessage' = <<"status">>
    /\ mutation' = [mutation EXCEPT !["status"].phase = "refreshing", !["status"].id = selectedTenantId]
    /\ UNCHANGED <<tenantRows, listVars, selectedTenantIds, modalVars, bulk, applied, looks, clicks, losses>>

\* onSuccess of the latest render: its tenant is the one selected by now.
StatusChanged ==
    /\ mutation["status"].phase = "done"
    /\ actionError' = FALSE /\ actionMessage' = <<"status">>
    /\ lists' = [lists EXCEPT ![CurrentKey] = Invalidated(@)]
    /\ mutation' = [mutation EXCEPT !["status"].phase = "refreshing", !["status"].id = selectedTenantId]
    /\ UNCHANGED <<tenantRows, filter, currentPage, sortKey, selectedTenantIds, modalVars, bulk,
                   applied, looks, clicks, losses>>

\* Once the list is awaited the detail of that tenant is invalidated.
StatusRefreshed ==
    /\ mutation["status"].phase = "refreshing"
    /\ details' = IF mutation["status"].id = NoneChosen THEN details ELSE Refetched(mutation["status"].id)
    /\ mutation' = [mutation EXCEPT !["status"].phase = "idle", !["status"].id = NoneChosen,
                                    !["status"].disabled = FALSE]
    /\ UNCHANGED <<tenantRows, listVars, selectedTenantIds, selectedTenantId, activeModal, bulk,
                   feedback, applied, looks, clicks, losses>>

PasswordChanged ==
    /\ mutation["password"].phase = "done"
    /\ actionError' = FALSE /\ actionMessage' = <<"password">>
    /\ mutation' = [mutation EXCEPT !["password"].phase = "idle", !["password"].id = NoneChosen]
    /\ UNCHANGED <<tenantRows, listVars, selectedTenantIds, modalVars, bulk, applied, looks, clicks, losses>>

\* Whichever dialog is open is closed, and the tenant it was about leaves the selection.
TenantDeleted ==
    /\ mutation["delete"].phase = "done"
    /\ actionError' = FALSE /\ actionMessage' = <<"deleted">>
    /\ activeModal' = "none" /\ selectedTenantId' = NoneChosen
    /\ selectedTenantIds' = Without(selectedTenantIds, {selectedTenantId})
    /\ lists' = [lists EXCEPT ![CurrentKey] = Invalidated(@)]
    /\ mutation' = [mutation EXCEPT !["delete"].phase = "idle", !["delete"].id = NoneChosen]
    /\ UNCHANGED <<tenantRows, filter, currentPage, sortKey, details, bulk, applied, looks, clicks, losses>>

-----------------------------------------------------------------------------
(* runBulkAction: one request after another, then one report *)

\* The buttons need a selection; an open dialog covers them, so none is open.
StartBulk(action) ==
    /\ Click /\ ListShown /\ activeModal = "none" /\ selectedTenantIds # <<>> /\ bulk.phase = "idle"
    /\ ResetFeedback
    /\ bulk' = [phase |-> "sent", action |-> action, targets |-> selectedTenantIds, next |-> 1, failed |-> 0,
                tenant |-> selectedTenantId]
    /\ applied' = {}
    /\ UNCHANGED <<tenantRows, listVars, selectedTenantIds, modalVars, mutation, losses>>

Target == bulk.targets[bulk.next]

BulkHandled ==
    /\ bulk.phase = "sent"
    /\ Apply(bulk.action, Target)
    /\ bulk' = [bulk EXCEPT !.phase = IF Target \in tenants THEN "done" ELSE "refused"]
    /\ applied' = IF Target \in tenants THEN applied \cup {Target} ELSE applied
    /\ details' = [details EXCEPT ![Target] = IF bulk.tenant = Target THEN @ ELSE Outdated(@)]
    /\ UNCHANGED <<listVars, selectedTenantIds, selectedTenantId, activeModal, mutation, feedback, looks, clicks, losses>>

\* Mutant: a failure ends the loop, and the function with it.
BulkThrows ==
    /\ \/ bulk.phase = "done" /\ UNCHANGED losses
       \/ bulk.phase \in {"sent", "done"} /\ Lose
       \/ bulk.phase = "refused" /\ UNCHANGED losses
    /\ bulk' = IF bulk.phase = "refused" \/ losses' # losses THEN NoBulk
               ELSE IF bulk.next = Len(bulk.targets) THEN [bulk EXCEPT !.phase = "finishing"]
               ELSE [bulk EXCEPT !.phase = "sent", !.next = @ + 1]
    /\ UNCHANGED <<tenantRows, listVars, selectedTenantIds, modalVars, mutation, feedback, applied, looks, clicks>>

\* Mutant: the failures are not collected.
BulkStepForgetful ==
    /\ \/ bulk.phase \in {"done", "refused"} /\ UNCHANGED losses
       \/ bulk.phase \in {"sent", "done"} /\ Lose
    /\ bulk' = [bulk EXCEPT !.phase = IF bulk.next = Len(bulk.targets) THEN "finishing" ELSE "sent",
                            !.next = IF @ = Len(bulk.targets) THEN @ ELSE @ + 1]
    /\ UNCHANGED <<tenantRows, listVars, selectedTenantIds, modalVars, mutation, feedback, applied, looks, clicks>>

\* The answer of one request, an error included, leads to the next or to the end.
BulkStep ==
    /\ \/ bulk.phase \in {"done", "refused"} /\ UNCHANGED losses
       \/ bulk.phase \in {"sent", "done"} /\ Lose
    /\ bulk' = [bulk EXCEPT !.phase = IF bulk.next = Len(bulk.targets) THEN "finishing" ELSE "sent",
                            !.next = IF @ = Len(bulk.targets) THEN @ ELSE @ + 1,
                            !.failed = IF bulk.phase = "refused" \/ losses' # losses THEN @ + 1 ELSE @]
    /\ UNCHANGED <<tenantRows, listVars, selectedTenantIds, modalVars, mutation, feedback, applied, looks, clicks>>

\* The selection, whatever it is by now, is emptied, and the list fetched again.
BulkFinishes ==
    /\ bulk.phase = "finishing"
    /\ selectedTenantIds' = <<>>
    /\ lists' = [lists EXCEPT ![CurrentKey] = Invalidated(@)]
    /\ bulk' = [bulk EXCEPT !.phase = "refreshing"]
    /\ UNCHANGED <<tenantRows, filter, currentPage, sortKey, modalVars, mutation, feedback, applied,
                   looks, clicks, losses>>

\* Then the detail of the tenant selected when the action began, and the report: how many
\* succeeded, of how many, and an error if that is not all.
BulkReports ==
    /\ bulk.phase = "refreshing"
    /\ details' = IF bulk.tenant = NoneChosen THEN details ELSE Refetched(bulk.tenant)
    /\ actionMessage' = <<"bulk", Len(bulk.targets) - bulk.failed, Len(bulk.targets)>>
    /\ actionError' = (actionError \/ bulk.failed > 0)
    /\ bulk' = NoBulk
    /\ UNCHANGED <<tenantRows, listVars, selectedTenantIds, selectedTenantId, activeModal, mutation,
                   applied, looks, clicks, losses>>

-----------------------------------------------------------------------------
ListQuery   == \E k \in DOMAIN lists : ListAnswered(k) \/ ListArrives(k)
DetailQuery == \E t \in TenantId : DetailAnswered(t) \/ DetailArrives(t)
MutationStep == \/ \E m \in Mutations : Handled(m) \/ MutationFails(m)
                \/ StatusChanged \/ StatusRefreshed \/ PasswordChanged \/ TenantDeleted
BulkAction  == BulkHandled \/ BulkStep \/ BulkFinishes \/ BulkReports

AdminNext ==
    \/ \E f \in Filter : SetFilter(f)
    \/ \E column \in Column : HandleSort(column)
    \/ \E p \in 1..Cardinality(TenantId) : GoToPage(p)
    \/ \E t \in TenantId : ToggleTenantSelection(t)
    \/ TogglePageSelection \/ ClearSelection
    \/ \E t \in TenantId, dialog \in Modal \ {"none"} : OpenModal(t, dialog)
    \/ \E dialog \in {"access", "password"} : SwitchModal(dialog)
    \/ CloseModal \/ ClickStatus \/ ClickDelete \/ SubmitPassword
    \/ \E action \in {"enable", "disable", "delete"} : StartBulk(action)
    \/ ListQuery \/ DetailQuery \/ MutationStep \/ BulkAction

\* Requests are answered or fail; what the administrator does is not up to the page.
AdminFairness == WF_adminVars(ListQuery) /\ WF_adminVars(DetailQuery)
                 /\ WF_adminVars(MutationStep) /\ WF_adminVars(BulkAction)

AdminSpec == AdminInit /\ [][AdminNext]_adminVars /\ AdminFairness

-----------------------------------------------------------------------------
\* The rows on the screen are the ones the pager says: from and to lie within the total,
\* span as many rows as the table has, and a list that has tenants never shows an empty
\* page, whatever was deleted behind the page number.
PagerHonest ==
    ListShown => /\ 1 <= PageStart /\ PageStart <= PageEnd /\ PageEnd <= TotalTenants
                 /\ Len(ListData.rows) = PageEnd - PageStart + 1
                 /\ currentPage = CurrentPageSafe
                 /\ currentPage \in GetVisiblePages(CurrentPageSafe, TotalPages(ListData))

\* A bulk report counts as succeeded only tenants the server changed, and counts every one
\* of the others as failed.
BulkReportTrue ==
    (bulk.phase = "refreshing")
        => LET ok == Len(bulk.targets) - bulk.failed
           IN  /\ ok <= Cardinality(applied)
               /\ losses = 0 => ok = Cardinality(applied)

\* When nothing is under way, list and dialog show what the server holds, unless the query
\* failed or was joined while an older answer was on its way, or a change went through
\* whose answer was lost.
AdminFresh ==
    (bulk.phase = "idle" /\ \A m \in Mutations : mutation[m].phase = "idle")
        => /\ LET q == lists[CurrentKey]
              IN  (q.flight = "idle" /\ ~q.old) => q.data = AdminTenantList(CurrentKey)
           /\ activeModal # "none" =>
              LET q == details[selectedTenantId]
              IN  (q.flight = "idle" /\ ~q.old /\ selectedTenantId \in tenants)
                    => q.data = TenantRow(selectedTenantId)
=============================================================================
