-------------------------- MODULE NotificationsPage --------------------------
(***************************************************************************)
(* The notifications page (pages/notifications-page.tsx) with its endpoint *)
(* form and its two policy forms, and the handlers they call               *)
(* (httpapi/handlers_resources.go, notify/service.go).                     *)
(*                                                                         *)
(* An endpoint is an e-mail address or a webhook (a telegram chat differs  *)
(* only in its keys); "" is a key without a value. A policy is the days    *)
(* and the endpoints it names; the policy of scope 0 is the default one,   *)
(* the others override it for a domain.                                    *)
(***************************************************************************)
EXTENDS Naturals, QueryCache

CONSTANTS
    NoText, Junk,   \* what stands between two commas: nothing, or no number
    Overridable,    \* the domains the select offers
    FirstPolicies,  \* the policies at first
    MaxEdits,       \* bound: what the user does to one form or another
    MaxSends,       \* bound: saves, deletions and tests
    MaxRefusals     \* bound: requests that fail although the server can serve them

ASSUME NotificationsAssumption ==
    /\ Overridable \subseteq Nat \ {0} /\ NoText \notin Nat /\ Junk \notin Nat
    /\ \A table \in FirstPolicies :
        /\ 0 \in DOMAIN table /\ DOMAIN table \subseteq Overridable \cup {0}
        /\ table \in [DOMAIN table -> [days : SUBSET Nat, to : SUBSET Nat]]
    /\ NoData \notin [days : SUBSET Nat, to : SUBSET Nat]
    /\ \A D \in SUBSET (Overridable \cup {0}) : NoData \notin [D -> [days : SUBSET Nat, to : SUBSET Nat]]
    /\ MaxEdits \in Nat /\ MaxSends \in Nat /\ MaxRefusals \in Nat

VARIABLES
    endpointRows, policyRows,       \* the tables
    endpointsQuery, policiesQuery,
    editingEndpoint,                \* id and row as they were when Edit was clicked, or nobody's
    endpointForm,                   \* its values, and whether the user has touched them
    endpointMessage, endpointError,
    selectedDomainId,
    policyForms,                    \* the default's and the override's
    endpointSave, endpointDelete, endpointTest, policySave, \* the four mutations
    edits, sends, refusals

pageQueries == <<endpointsQuery, policiesQuery>>
notices     == <<endpointMessage, endpointError>>
editing     == <<editingEndpoint, endpointForm>>
choosing    == <<selectedDomainId, policyForms>>
mutations   == <<endpointSave, endpointDelete, endpointTest, policySave>>
notificationsVars == <<endpointRows, policyRows, pageQueries, notices, editing, choosing, mutations,
                       edits, sends, refusals>>

Edited  == edits < MaxEdits /\ edits' = edits + 1
Sent    == sends < MaxSends /\ sends' = sends + 1
Refused == refusals < MaxRefusals /\ refusals' = refusals + 1

-----------------------------------------------------------------------------
(* Endpoints: what the form sends and what the server makes of it *)

NoEndpoint == [kind |-> "email", recipient |-> "", url |-> "", header |-> "", secret |-> ""]
NoOne      == [id |-> 0, row |-> NoEndpoint]
Hook       == [kind |-> "webhook", recipient |-> "", url |-> "u1", header |-> "h1", secret |-> "s1"]

\* Mutant: the header is not loaded into the form.
DefaultsWithoutHeader(config) == [config EXCEPT !.header = ""]

\* The values of a form, from an endpoint's config.
endpointDefaults(config) == config

\* handleSubmit of the form: the keys of the type, the header only if it has a name.
EndpointPayload(values) ==
    IF values.kind = "email" THEN [values EXCEPT !.url = "", !.header = "", !.secret = ""]
    ELSE [values EXCEPT !.recipient = "", !.secret = IF values.header = "" THEN "" ELSE @]

\* validationError: the destination of the type is required.
FormValid(values) == IF values.kind = "email" THEN values.recipient # "" ELSE values.url # ""

\* MaskConfig: what a client may be shown instead of the config.
MaskConfig(config) ==
    [config EXCEPT !.recipient = IF @ = "" THEN "" ELSE "***",
                   !.url       = IF @ = "" THEN "" ELSE "***",
                   !.secret    = IF @ = "" THEN "" ELSE "***"]

Preserve(value, masked, existing) ==
    IF (value = "" \/ (masked # "" /\ value = masked)) /\ existing # "" THEN existing ELSE value

\* Mutant: only an empty value stands for the old one.
MergeEmptyOnly(input, existing) ==
    IF input.kind = "email" THEN [input EXCEPT !.recipient = Preserve(@, "", existing.recipient)]
    ELSE [input EXCEPT !.url = Preserve(@, "", existing.url),
                       !.secret = IF input.header = "" THEN ""
                                  ELSE IF input.header = existing.header THEN Preserve(@, "", existing.secret)
                                  ELSE @]

\* An empty or a masked value keeps the one there is; a header's value only under its own name.
mergeEndpointConfig(input, existing) ==
    LET masked == MaskConfig(existing) IN
    IF input.kind = "email"
    THEN [input EXCEPT !.recipient = Preserve(@, masked.recipient, existing.recipient)]
    ELSE [input EXCEPT !.url = Preserve(@, masked.url, existing.url),
                       !.secret = IF input.header = "" THEN ""
                                  ELSE IF input.header = existing.header
                                  THEN Preserve(@, masked.secret, existing.secret)
                                  ELSE @]

-----------------------------------------------------------------------------
(* Policies: the days as text and back *)

\* threshold_days.join(", "); the text of no days is the empty one, which still is one item.
TextOf(days) == IF days = {} THEN {NoText} ELSE days

\* split(",").map(Number).filter(...): an empty item counts as 0, what is no number is dropped.
DaysOf(text) == {d \in text : d # NoText /\ d # Junk} \cup (IF NoText \in text THEN {0} ELSE {})

\* The policy of a scope as the page has it; GetPolicies always answers a default.
PolicyView(data, scope) ==
    IF data = NoData THEN NoData ELSE IF scope \in DOMAIN data THEN data[scope] ELSE NoData

Loaded(view) ==
    [text    |-> IF view = NoData THEN {30, 7, 1} ELSE TextOf(view.days),
     to      |-> IF view = NoData THEN {} ELSE view.to,
     touched |-> FALSE]

\* Mutant: the values a policy form was mounted with stay.
FormsKept(data) == UNCHANGED policyForms

\* The effect of both forms: reset when the policy they are given is another one.
FormsReset(data) ==
    policyForms' =
        [which \in {"default", "override"} |->
            LET scope == IF which = "default" THEN 0 ELSE selectedDomainId
                was   == PolicyView(policiesQuery.data, scope)
                now   == PolicyView(data, scope)
            IN  IF was = now THEN policyForms[which] ELSE Loaded(now)]

-----------------------------------------------------------------------------
NotSent == [phase |-> "idle"]

NotificationsInit ==
    /\ endpointRows = [id \in {1} |-> Hook]
    /\ policyRows \in FirstPolicies
    /\ endpointsQuery = Started(Blank) /\ policiesQuery = Started(Blank)
    /\ editingEndpoint = NoOne /\ endpointForm = [values |-> NoEndpoint, touched |-> FALSE]
    /\ endpointMessage = "none" /\ endpointError = "none"
    /\ selectedDomainId = 0
    /\ policyForms = [which \in {"default", "override"} |-> Loaded(NoData)]
    /\ endpointSave = NotSent /\ endpointDelete = NotSent /\ endpointTest = NotSent /\ policySave = NotSent
    /\ edits = 0 /\ sends = 0 /\ refusals = 0

ListsAnswered ==
    /\ \/ /\ endpointsQuery.flight = "sent"
          /\ endpointsQuery' = Answered(endpointsQuery, endpointRows) /\ UNCHANGED policiesQuery
       \/ /\ policiesQuery.flight = "sent"
          /\ policiesQuery' = Answered(policiesQuery, policyRows) /\ UNCHANGED endpointsQuery
    /\ UNCHANGED <<endpointRows, policyRows, notices, editing, choosing, mutations, edits, sends, refusals>>

EndpointsArrive ==
    /\ endpointsQuery.flight = "answered"
    /\ endpointsQuery' = Settled(endpointsQuery)
    /\ UNCHANGED <<endpointRows, policyRows, policiesQuery, notices, editing, choosing, mutations,
                   edits, sends, refusals>>

PoliciesArrive ==
    /\ policiesQuery.flight = "answered"
    /\ policiesQuery' = Settled(policiesQuery)
    /\ FormsReset(policiesQuery.got)
    /\ UNCHANGED <<endpointRows, policyRows, endpointsQuery, notices, editing, selectedDomainId, mutations,
                   edits, sends, refusals>>

Listed == IF endpointsQuery.data = NoData THEN {} ELSE DOMAIN endpointsQuery.data

\* The card of an endpoint shows where it delivers to, and never the header's value.
EndpointCard(id) ==
    LET row == endpointsQuery.data[id] IN
    [to |-> IF row.kind = "email" THEN row.recipient ELSE row.url, header |-> row.header]

-----------------------------------------------------------------------------
(* The endpoint form and the list *)

\* The effect resets the form when it is given another endpoint.
Edit(whom) ==
    /\ editingEndpoint' = whom
    /\ endpointForm' = IF whom = editingEndpoint THEN endpointForm
                       ELSE [values |-> endpointDefaults(whom.row), touched |-> FALSE]

EditEndpoint(id) ==
    /\ Edited /\ id \in Listed
    /\ Edit([id |-> id, row |-> endpointsQuery.data[id]])
    /\ UNCHANGED <<endpointRows, policyRows, pageQueries, notices, choosing, mutations, sends, refusals>>

CancelEdit ==
    /\ Edited /\ editingEndpoint.id # 0
    /\ Edit(NoOne)
    /\ endpointMessage' = "none" /\ endpointError' = "none"
    /\ UNCHANGED <<endpointRows, policyRows, pageQueries, choosing, mutations, sends, refusals>>

TypeInEndpoint ==
    /\ Edited
    /\ \E values \in {[endpointForm.values EXCEPT !.kind = IF @ = "email" THEN "webhook" ELSE "email"],
                      [endpointForm.values EXCEPT !.recipient = "r2"], [endpointForm.values EXCEPT !.url = "u2"],
                      [endpointForm.values EXCEPT !.header = "h2"], [endpointForm.values EXCEPT !.secret = ""]} :
        endpointForm' = [values |-> values, touched |-> TRUE]
    /\ UNCHANGED <<endpointRows, policyRows, pageQueries, notices, editingEndpoint, choosing, mutations,
                   sends, refusals>>

\* (One save at a time.)
SubmitEndpoint ==
    /\ Sent /\ endpointSave.phase = "idle" /\ FormValid(endpointForm.values)
    /\ endpointMessage' = "none" /\ endpointError' = "none"
    /\ endpointSave' = [phase |-> "sent", id |-> editingEndpoint.id, config |-> EndpointPayload(endpointForm.values),
                        untouched |-> ~endpointForm.touched /\ editingEndpoint.id # 0, row |-> editingEndpoint.row]
    /\ UNCHANGED <<endpointRows, policyRows, pageQueries, editing, choosing, endpointDelete, endpointTest,
                   policySave, edits, refusals>>

\* A table with one row written.
Upserted(rows, id, row) == [i \in DOMAIN rows \cup {id} |-> IF i = id THEN row ELSE rows[i]]

\* handleUpsertEndpoint; an endpoint that is gone is refused, and no id is used twice.
EndpointSaveHandled ==
    /\ endpointSave.phase = "sent"
    /\ LET id  == IF endpointSave.id = 0 THEN 1 + sends ELSE endpointSave.id
           old == IF endpointSave.id = 0 THEN NoEndpoint ELSE endpointRows[id]
       IN  IF endpointSave.id = 0 \/ endpointSave.id \in DOMAIN endpointRows
           THEN /\ endpointRows' = Upserted(endpointRows, id, mergeEndpointConfig(endpointSave.config, old))
                /\ endpointSave' = [endpointSave EXCEPT !.phase = "done"]
           ELSE endpointSave' = [endpointSave EXCEPT !.phase = "refused"] /\ UNCHANGED endpointRows
    /\ UNCHANGED <<policyRows, pageQueries, notices, editing, choosing, endpointDelete, endpointTest, policySave,
                   edits, sends, refusals>>

\* onSuccess asks who is edited by now; a form that was empty when sent is emptied again.
EndpointSaved ==
    /\ endpointSave.phase = "done"
    /\ endpointSave' = NotSent
    /\ endpointError' = "none"
    /\ endpointMessage' = IF editingEndpoint.id # 0 THEN "updated" ELSE "created"
    /\ editingEndpoint' = NoOne
    /\ endpointForm' = IF editingEndpoint.id # 0 \/ endpointSave.id = 0
                       THEN [values |-> NoEndpoint, touched |-> FALSE] ELSE endpointForm
    /\ endpointsQuery' = Invalidated(endpointsQuery)
    /\ UNCHANGED <<endpointRows, policyRows, policiesQuery, choosing, endpointDelete, endpointTest, policySave,
                   edits, sends, refusals>>

ShowError(what) == endpointError' = what /\ endpointMessage' = "none"

\* The page catches the error, so that a form for a new endpoint is emptied all the same.
EndpointSaveFails ==
    /\ \/ endpointSave.phase = "refused" /\ UNCHANGED refusals
       \/ endpointSave.phase = "sent" /\ Refused
    /\ endpointSave' = NotSent
    /\ ShowError("save")
    /\ endpointForm' = IF endpointSave.id = 0 THEN [values |-> NoEndpoint, touched |-> FALSE] ELSE endpointForm
    /\ UNCHANGED <<endpointRows, policyRows, pageQueries, editingEndpoint, choosing, endpointDelete, endpointTest,
                   policySave, edits, sends>>

DeleteEndpoint(id) ==
    /\ Sent /\ id \in Listed /\ endpointDelete.phase = "idle"
    /\ endpointDelete' = [phase |-> "sent", id |-> id]
    /\ UNCHANGED <<endpointRows, policyRows, pageQueries, notices, editing, choosing, endpointSave, endpointTest,
                   policySave, edits, refusals>>

\* handleDeleteEndpoint: the policies that name the endpoint go on naming it.
EndpointDeleteHandled ==
    /\ endpointDelete.phase = "sent"
    /\ endpointRows' = [id \in DOMAIN endpointRows \ {endpointDelete.id} |-> endpointRows[id]]
    /\ endpointDelete' = [endpointDelete EXCEPT !.phase = IF endpointDelete.id \in DOMAIN endpointRows
                                                          THEN "done" ELSE "refused"]
    /\ UNCHANGED <<policyRows, pageQueries, notices, editing, choosing, endpointSave, endpointTest, policySave,
                   edits, sends, refusals>>

\* The policies are fetched again after the endpoints.
EndpointDeleted ==
    /\ \/ /\ endpointDelete.phase = "done"
          /\ endpointError' = "none" /\ endpointMessage' = "deleted"
          /\ IF editingEndpoint.id = endpointDelete.id THEN Edit(NoOne) ELSE UNCHANGED editing
          /\ endpointsQuery' = Invalidated(endpointsQuery)
          /\ endpointDelete' = [endpointDelete EXCEPT !.phase = "refreshing"]
          /\ UNCHANGED policiesQuery
       \/ /\ endpointDelete.phase = "refreshing" /\ endpointsQuery.flight = "idle"
          /\ policiesQuery' = Invalidated(policiesQuery)
          /\ endpointDelete' = NotSent
          /\ UNCHANGED <<endpointsQuery, notices, editing>>
    /\ UNCHANGED <<endpointRows, policyRows, choosing, endpointSave, endpointTest, policySave, edits, sends, refusals>>

EndpointDeleteFails ==
    /\ endpointDelete.phase = "refused"
    /\ endpointDelete' = NotSent
    /\ ShowError("delete")
    /\ UNCHANGED <<endpointRows, policyRows, pageQueries, editing, choosing, endpointSave, endpointTest, policySave,
                   edits, sends, refusals>>

\* The buttons of all endpoints are disabled while one is tested.
RunEndpointTest(id) ==
    /\ Sent /\ id \in Listed /\ endpointTest.phase = "idle"
    /\ endpointMessage' = "none" /\ endpointError' = "none"
    /\ endpointTest' = [phase |-> "sent", id |-> id]
    /\ UNCHANGED <<endpointRows, policyRows, pageQueries, editing, choosing, endpointSave, endpointDelete, policySave,
                   edits, refusals>>

\* handleTestEndpoint: an endpoint that is gone cannot be tested, and the delivery may fail.
EndpointTested ==
    /\ endpointTest.phase = "sent"
    /\ endpointTest' = NotSent
    /\ \/ /\ endpointTest.id \in DOMAIN endpointRows
          /\ endpointMessage' = "tested" /\ endpointError' = "none"
          /\ UNCHANGED refusals
       \/ /\ IF endpointTest.id \in DOMAIN endpointRows THEN Refused ELSE UNCHANGED refusals
          /\ ShowError("test")
    /\ UNCHANGED <<endpointRows, policyRows, pageQueries, editing, choosing, endpointSave, endpointDelete, policySave,
                   edits, sends>>

-----------------------------------------------------------------------------
(* The policies *)

\* The override's form is one for all domains: it is reset when the policy changes, which it
\* does not from one domain without an override to another.
SelectDomain(d) ==
    /\ Edited /\ d # selectedDomainId
    /\ selectedDomainId' = d
    /\ LET was == PolicyView(policiesQuery.data, selectedDomainId)
           now == PolicyView(policiesQuery.data, d)
       IN  policyForms' = IF selectedDomainId # 0 /\ d # 0 /\ was = NoData /\ now = NoData THEN policyForms
                          ELSE [policyForms EXCEPT !["override"] = Loaded(IF d = 0 THEN NoData ELSE now)]
    /\ UNCHANGED <<endpointRows, policyRows, pageQueries, notices, editing, mutations, sends, refusals>>

Shown(which) == which = "default" \/ selectedDomainId # 0

TypeInPolicy(which) ==
    /\ Edited /\ Shown(which)
    /\ \E form \in {[policyForms[which] EXCEPT !.text = {NoText}], [policyForms[which] EXCEPT !.text = {Junk}],
                    [policyForms[which] EXCEPT !.text = {7}]}
                   \cup {[policyForms[which] EXCEPT !.to = IF id \in @ THEN @ \ {id} ELSE @ \cup {id}] : id \in Listed} :
        policyForms' = [policyForms EXCEPT ![which] = [form EXCEPT !.touched = TRUE]]
    /\ UNCHANGED <<endpointRows, policyRows, pageQueries, notices, editing, selectedDomainId, mutations, sends, refusals>>

\* (One save at a time.)
SubmitPolicy(which) ==
    /\ Sent /\ Shown(which) /\ policySave.phase = "idle"
    /\ LET scope == IF which = "default" THEN 0 ELSE selectedDomainId
           form  == policyForms[which]
       IN  policySave' = [phase |-> "sent", scope |-> scope, days |-> DaysOf(form.text), to |-> form.to,
                          view |-> IF form.touched THEN NoData ELSE PolicyView(policiesQuery.data, scope)]
    /\ UNCHANGED <<endpointRows, policyRows, pageQueries, notices, editing, choosing, endpointSave, endpointDelete,
                   endpointTest, edits, refusals>>

\* UpsertPolicy: an override without days and without endpoints is removed.
PolicySaveHandled ==
    /\ policySave.phase = "sent"
    /\ LET scope == policySave.scope IN
       policyRows' = IF scope # 0 /\ policySave.days = {} /\ policySave.to = {}
                     THEN [s \in DOMAIN policyRows \ {scope} |-> policyRows[s]]
                     ELSE Upserted(policyRows, scope, [days |-> policySave.days, to |-> policySave.to])
    /\ policySave' = [policySave EXCEPT !.phase = "done"]
    /\ UNCHANGED <<endpointRows, pageQueries, notices, editing, choosing, endpointSave, endpointDelete, endpointTest,
                   edits, sends, refusals>>

\* Mutant: nothing is fetched again.
PolicySavedQuietly ==
    /\ policySave.phase = "done"
    /\ policySave' = NotSent
    /\ UNCHANGED <<endpointRows, policyRows, pageQueries, notices, editing, choosing, endpointSave, endpointDelete,
                   endpointTest, edits, sends, refusals>>

\* A save that failed says nothing.
PolicySaved ==
    /\ \/ policySave.phase = "done" /\ policiesQuery' = Invalidated(policiesQuery) /\ UNCHANGED refusals
       \/ policySave.phase = "sent" /\ Refused /\ UNCHANGED policiesQuery
    /\ policySave' = NotSent
    /\ UNCHANGED <<endpointRows, policyRows, endpointsQuery, notices, editing, choosing, endpointSave, endpointDelete,
                   endpointTest, edits, sends>>

-----------------------------------------------------------------------------
NotificationsNext ==
    \/ ListsAnswered \/ EndpointsArrive \/ PoliciesArrive
    \/ CancelEdit \/ TypeInEndpoint \/ SubmitEndpoint \/ EndpointSaveHandled \/ EndpointSaved \/ EndpointSaveFails
    \/ \E id \in DOMAIN endpointRows \cup Listed : EditEndpoint(id) \/ DeleteEndpoint(id) \/ RunEndpointTest(id)
    \/ EndpointDeleteHandled \/ EndpointDeleted \/ EndpointDeleteFails \/ EndpointTested
    \/ \E d \in Overridable \cup {0} : SelectDomain(d)
    \/ \E which \in {"default", "override"} : TypeInPolicy(which) \/ SubmitPolicy(which)
    \/ PolicySaveHandled \/ PolicySaved

NotificationsSpec == NotificationsInit /\ [][NotificationsNext]_notificationsVars

-----------------------------------------------------------------------------
\* Saving a policy form nobody has typed into leaves the policy as it is, whichever queries,
\* domains and saves came before, if the form was given one with days (no days read as day 0).
UntouchedPolicyKept ==
    [][(policySave.phase = "sent" /\ policySave'.phase = "done" /\ policySave.view # NoData
        /\ policySave.scope \in DOMAIN policyRows /\ policyRows[policySave.scope] = policySave.view
        /\ policySave.view.days # {})
        => policyRows' = policyRows]_notificationsVars

\* Saving an endpoint nobody has changed in the form leaves it as it is, credentials included.
UntouchedEndpointKept ==
    [][(endpointSave.phase = "sent" /\ endpointSave'.phase = "done" /\ endpointSave.untouched
        /\ endpointRows[endpointSave.id] = endpointSave.row)
        => endpointRows' = endpointRows]_notificationsVars

\* So does a client that was only shown the masked values: none of them replaces a real one.
MaskedEndpointKept ==
    \A id \in DOMAIN endpointRows :
        mergeEndpointConfig(EndpointPayload(endpointDefaults(MaskConfig(endpointRows[id]))), endpointRows[id])
            = endpointRows[id]

\* When nothing is under way the lists are the ones of the server, and every form that was
\* not touched shows the policy stored.
NotificationsFresh ==
    (endpointSave.phase = "idle" /\ endpointDelete.phase = "idle" /\ policySave.phase = "idle"
     /\ endpointsQuery.flight = "idle" /\ policiesQuery.flight = "idle" /\ ~endpointsQuery.old /\ ~policiesQuery.old)
        => /\ endpointsQuery.data = endpointRows /\ policiesQuery.data = policyRows
           /\ ~policyForms["default"].touched => policyForms["default"] = Loaded(policyRows[0])
           /\ \A id \in Listed : EndpointCard(id).to # ""
=============================================================================
