--------------------------- MODULE PlatformConsole ---------------------------
(***************************************************************************)
(* The operators' console.                                                 *)
(*                                                                         *)
(* Every console request goes one way: the caller's operator row is read,  *)
(* its write budget is charged, its permission and (for the two critical   *)
(* operations) its confirmation are judged, the route's handler runs, a    *)
(* record of the outcome is written, and only then is the answer given.    *)
(* Whoever is not an operator, or has no budget, leaves no record.         *)
(*                                                                         *)
(* A handler reads what its operation needs, reserves its own row writes,  *)
(* and writes by one statement that asks its conditions again; a handler   *)
(* that touches an Organization also writes a record into the tenant's     *)
(* database.  Between any two of these the requests of other operators     *)
(* take their steps.                                                       *)
(***************************************************************************)
EXTENDS Integers, FiniteSets

CONSTANTS
    Principal,     \* who may call
    InitialRoles,  \* the tables platform_operator may hold at first
    Req,           \* requests; each is served once
    Asked,         \* bound: the calls that are made
    Name,          \* normalized names of Templates
    Label,         \* a Template's labels, taken together
    Template,      \* identifiers of Templates
    InitialTemplate, \* the Templates there are at first, all active
    Org,           \* identifiers of Organizations
    InitialOrg,    \* the Organizations there are at first
    Identifier,    \* login identifiers
    MaxGrants,     \* bound: how many operators are seeded later
    MaxFaults      \* bound: how many calls fail

VARIABLES
    operators,   \* operators[p]: its role, or "none"
    templates,   \* templates[t]: the Template t, or NoTemplate
    orgs,        \* orgs[o]: the Template of Organization o, "null", or "absent"
    credentials, \* the login identifiers that have a principal
    req,         \* req[r]: the request r
    trail,       \* platform_operator_action: <<r, outcome>>
    tenantTrail, \* the tenants' databases: <<o, r>>
    grants,      \* how many operators were seeded
    faults       \* how many calls have failed

directoryVars == <<orgs, credentials>>
trailVars == <<trail, tenantTrail>>
vars == <<operators, templates, directoryVars, req, trailVars, grants, faults>>

-----------------------------------------------------------------------------
\* The roles this build knows; a row may hold one it does not know.
PLATFORM_ROLES == {"platform-admin", "marketplace-moderator"}
Role == PLATFORM_ROLES \cup {"unknown"}

Status == {"active", "retired"}
Record == [name : Name, labels : Label, status : Status]
NoTemplate == [status |-> "absent"]

\* What a console request may ask.  "serve" stands for the routes that only
\* read, "probe" for those that read about one Organization.
Call ==
    [kind : {"create"}, name : Name, labels : Label]
        \cup [kind : {"update"}, template : Template,
              name : Name \cup {"same"}, labels : Label \cup {"same"}]
        \cup [kind : {"retire", "restore"}, template : Template]
        \cup [kind : {"assign"}, org : Org, template : Template \cup {"null"}]
        \cup [kind : {"identity", "probe"}, org : Org]
        \cup [kind : {"revoke"}, target : Principal]
        \cup [kind : {"onboard"}, identifier : Identifier, template : Template]
        \cup [kind : {"serve"}]

ASSUME ConsoleAssumption ==
    /\ Principal # {}
    /\ IsFiniteSet(Req)
    /\ InitialRoles \subseteq [Principal -> Role \cup {"none"}]
    /\ Asked \subseteq Call
    /\ "same" \notin Name \cup Label
    /\ "null" \notin Template /\ "absent" \notin Template
    /\ InitialTemplate \in [Template -> Record \cup {NoTemplate}]
    /\ \A t \in Template : InitialTemplate[t].status \in {"active", "absent"}
    /\ InitialOrg \in [Org -> Template \cup {"null", "absent"}]
    /\ MaxGrants \in Nat
    /\ MaxFaults \in Nat

Phase == {"idle", "authority", "admit", "read", "write", "explain", "count",
          "tenant", "workspace", "record", "done"}

Outcome == {"none", "ok", "denied", "failed"}

Answer == {"none", "ok", "forbidden", "not_found", "conflict",
           "invalid_argument", "failed_precondition", "quota_exceeded",
           "rate_limited", "unavailable"}

\* next: the name and labels an update will write; effected: its statement
\* was committed; answer: what is answered once the record is written.
Unset == [name |-> "same", labels |-> "same"]
Idle == [phase |-> "idle", by |-> CHOOSE p \in Principal : TRUE, call |-> [kind |-> "serve"],
         role |-> "none", next |-> Unset, effected |-> FALSE,
         outcome |-> "none", answer |-> "none"]

Fault == faults < MaxFaults /\ faults' = faults + 1

Kind(r) == req[r].call.kind

\* The handler failed with a code: the record is next.
Failed(r, code) ==
    req' = [req EXCEPT ![r] = [@ EXCEPT !.phase = "record",
                                  !.outcome = "failed", !.answer = code]]

\* The handler is done.
Succeeded(r) ==
    req' = [req EXCEPT ![r] = [@ EXCEPT !.phase = "record",
                                  !.outcome = "ok", !.answer = "ok"]]

GoesTo(r, phase) == req' = [req EXCEPT ![r].phase = phase]

-----------------------------------------------------------------------------
\* dispatchPlatformRoute, up to the handler.

\* A request of an authenticated session.
Ask(r) ==
    /\ req[r].phase = "idle"
    /\ \E p \in Principal, c \in Asked :
          req' = [req EXCEPT ![r] = [Idle EXCEPT !.phase = "authority",
                                        !.by = p, !.call = c]]
    /\ UNCHANGED <<operators, templates, directoryVars, trailVars, grants, faults>>

\* toPlatformRole.
Known(role) == role \in PLATFORM_ROLES

\* resolve: who has no operator row, or one of an unknown role, is refused and
\* leaves no record.  (No operator holds a membership, so the second read
\* changes nothing.)
Resolve(r) ==
    /\ req[r].phase = "authority"
    /\ req' = [req EXCEPT ![r] =
                 IF Known(operators[req[r].by])
                 THEN [@ EXCEPT !.phase = "admit", !.role = operators[req[r].by]]
                 ELSE [@ EXCEPT !.phase = "done", !.answer = "forbidden"]]
    /\ UNCHANGED <<operators, templates, directoryVars, trailVars, grants, faults>>

\* The operator's rows cannot be read, or audit.reserve finds no budget: no
\* record.
ChargeRefused(r) ==
    /\ req[r].phase \in {"authority", "admit"}
    /\ req' = [req EXCEPT ![r] = [@ EXCEPT !.phase = "done",
                                     !.answer = "unavailable"]]
    /\ UNCHANGED <<operators, templates, directoryVars, trailVars, grants, faults>>

\* The grants of a role: a moderator holds no permission of any route.
Permitted(r) == req[r].role = "platform-admin"

\* isConfirmationGated.
Gated(r) == Kind(r) = "revoke"

\* What the authorizer answers, and what the gate answers: it may not
\* understand the confirmation, not accept it, or not get at it.
Refusals(r) ==
    IF Permitted(r) THEN {"forbidden", "invalid_argument", "unavailable"}
    ELSE {"forbidden"}

\* Charged, and refused by the authorizer or by the gate.
Denied(r) ==
    /\ req[r].phase = "admit"
    /\ ~Permitted(r) \/ Gated(r)
    /\ \E code \in Refusals(r) :
          req' = [req EXCEPT ![r] = [@ EXCEPT !.phase = "record",
                                        !.outcome = "denied", !.answer = code]]
    /\ UNCHANGED <<operators, templates, directoryVars, trailVars, grants, faults>>

\* Charged and let through.  Creating a Template, and clearing an
\* Organization's, reads nothing before it writes.
Admitted(r) ==
    /\ req[r].phase = "admit"
    /\ Permitted(r)
    /\ GoesTo(r, IF \/ Kind(r) = "create"
                    \/ Kind(r) = "assign" /\ req[r].call.template = "null"
                 THEN "write" ELSE "read")
    /\ UNCHANGED <<operators, templates, directoryVars, trailVars, grants, faults>>

-----------------------------------------------------------------------------
\* What the handlers read before they write.

ReadFails(r) ==
    /\ req[r].phase = "read"
    /\ Fault
    /\ Failed(r, "unavailable")
    /\ UNCHANGED <<operators, templates, directoryVars, trailVars, grants>>

\* Mutant: labels that were not sent are replaced by default ones.
MergedWithDefault(c, record) ==
    [name |-> IF c.name = "same" THEN record.name ELSE c.name,
     labels |-> IF c.labels = "same"
                THEN CHOOSE l \in Label : l # record.labels ELSE c.labels]

\* parseTemplateUpdate: the fields that were sent, over those stored.
Merged(c, record) ==
    [name |-> IF c.name = "same" THEN record.name ELSE c.name,
     labels |-> IF c.labels = "same" THEN record.labels ELSE c.labels]

\* updateTemplate.
ReadForUpdate(r) ==
    /\ req[r].phase = "read" /\ Kind(r) = "update"
    /\ LET c == req[r].call
           record == templates[c.template]
       IN IF record = NoTemplate THEN Failed(r, "not_found")
          ELSE IF record.status = "retired" THEN Failed(r, "failed_precondition")
          ELSE IF Merged(c, record) = [name |-> record.name, labels |-> record.labels]
          THEN Failed(r, "invalid_argument")
          ELSE req' = [req EXCEPT ![r] = [@ EXCEPT !.phase = "write",
                                             !.next = Merged(c, record)]]
    /\ UNCHANGED <<operators, templates, directoryVars, trailVars, grants, faults>>

From(kind) == IF kind = "retire" THEN "active" ELSE "retired"
To(kind) == IF kind = "retire" THEN "retired" ELSE "active"

\* setTemplateStatus.
ReadStatus(r) ==
    /\ req[r].phase = "read" /\ Kind(r) \in {"retire", "restore"}
    /\ LET record == templates[req[r].call.template]
       IN IF record = NoTemplate THEN Failed(r, "not_found")
          ELSE IF record.status # From(Kind(r)) THEN Failed(r, "failed_precondition")
          ELSE GoesTo(r, "write")
    /\ UNCHANGED <<operators, templates, directoryVars, trailVars, grants, faults>>

\* setOrganizationTemplate, of a Template that is named.
ReadAdopted(r) ==
    /\ req[r].phase = "read" /\ Kind(r) = "assign"
    /\ LET record == templates[req[r].call.template]
       IN IF record = NoTemplate THEN Failed(r, "not_found")
          ELSE IF record.status = "retired" THEN Failed(r, "failed_precondition")
          ELSE GoesTo(r, "write")
    /\ UNCHANGED <<operators, templates, directoryVars, trailVars, grants, faults>>

\* updateOrganizationIdentity: the block is read to be merged with.
ReadIdentity(r) ==
    /\ req[r].phase = "read" /\ Kind(r) = "identity"
    /\ IF orgs[req[r].call.org] = "absent" THEN Failed(r, "not_found")
       ELSE GoesTo(r, "write")
    /\ UNCHANGED <<operators, templates, directoryVars, trailVars, grants, faults>>

\* revokeOperator.
ReadOperator(r) ==
    /\ req[r].phase = "read" /\ Kind(r) = "revoke"
    /\ IF operators[req[r].call.target] = "none" THEN Failed(r, "not_found")
       ELSE GoesTo(r, "write")
    /\ UNCHANGED <<operators, templates, directoryVars, trailVars, grants, faults>>

\* onboard: the Template has to exist, the identifier must not.
ReadForOnboarding(r) ==
    /\ req[r].phase = "read" /\ Kind(r) = "onboard"
    /\ IF templates[req[r].call.template] = NoTemplate THEN Failed(r, "not_found")
       ELSE IF req[r].call.identifier \in credentials THEN Failed(r, "conflict")
       ELSE GoesTo(r, "write")
    /\ UNCHANGED <<operators, templates, directoryVars, trailVars, grants, faults>>

\* The routes that change nothing: a page, a count, a record, a challenge.
Serve(r) ==
    /\ req[r].phase = "read" /\ Kind(r) = "serve"
    /\ Succeeded(r)
    /\ UNCHANGED <<operators, templates, directoryVars, trailVars, grants, faults>>

\* resolveMember, and the audit feed of one Organization: found or not, the
\* tenant is told before anything is served.
ReadForProbe(r) ==
    /\ req[r].phase = "read" /\ Kind(r) = "probe"
    /\ GoesTo(r, "tenant")
    /\ UNCHANGED <<operators, templates, directoryVars, trailVars, grants, faults>>

-----------------------------------------------------------------------------
\* The statements that write.

\* admission.reserve: the handler's own row writes are deferred, or the
\* admission cannot answer.
NotReserved(r) ==
    /\ req[r].phase = "write"
    /\ \E code \in {"quota_exceeded", "unavailable"} : Failed(r, code)
    /\ UNCHANGED <<operators, templates, directoryVars, trailVars, grants, faults>>

\* D1 throws, and nothing was written.
WriteFails(r) ==
    /\ req[r].phase \in {"write", "explain", "count"}
    /\ Fault
    /\ Failed(r, "unavailable")
    /\ UNCHANGED <<operators, templates, directoryVars, trailVars, grants>>

\* The statement of r is committed; its answer reaches the handler, which goes
\* on to a phase, or is lost.
Committed(r, phase, outcome) ==
    \/ /\ req' = [req EXCEPT ![r] = [@ EXCEPT !.phase = phase, !.effected = TRUE,
                                        !.outcome = outcome,
                                        !.answer = IF outcome = "ok" THEN "ok" ELSE "none"]]
       /\ UNCHANGED faults
    \/ /\ Fault
       /\ req' = [req EXCEPT ![r] = [@ EXCEPT !.phase = "record", !.effected = TRUE,
                                        !.outcome = "failed", !.answer = "unavailable"]]

\* No Template but t itself has this name: the statement's NOT EXISTS, and the
\* unique index, which does not look at the status.
NameFree(name, t) ==
    \A other \in Template \ {t} :
        templates[other] # NoTemplate => templates[other].name # name

CreateTemplate(r) ==
    /\ req[r].phase = "write" /\ Kind(r) = "create"
    /\ LET c == req[r].call
       IN \E t \in Template :
             /\ templates[t] = NoTemplate
             /\ IF NameFree(c.name, t)
                THEN /\ templates' = [templates EXCEPT ![t] =
                            [name |-> c.name, labels |-> c.labels, status |-> "active"]]
                     /\ Committed(r, "record", "ok")
                ELSE Failed(r, "conflict") /\ UNCHANGED <<templates, faults>>
    /\ UNCHANGED <<operators, directoryVars, trailVars, grants>>

\* Mutant: the statement trusts the status that was read.
EditableByName(t, name) == NameFree(name, t)

\* The conditions of the UPDATE of a Template.
Editable(t, name) == templates[t].status = "active" /\ NameFree(name, t)

UpdateTemplate(r) ==
    /\ req[r].phase = "write" /\ Kind(r) = "update"
    /\ LET t == req[r].call.template
           next == req[r].next
       IN IF Editable(t, next.name)
          THEN /\ templates' = [templates EXCEPT ![t] =
                      [@ EXCEPT !.name = next.name, !.labels = next.labels]]
               /\ Committed(r, "record", "ok")
          ELSE GoesTo(r, "explain") /\ UNCHANGED <<templates, faults>>
    /\ UNCHANGED <<operators, directoryVars, trailVars, grants>>

\* Why it wrote nothing, as the second read finds it: retired, the name taken,
\* or neither any more.
ExplainUpdate(r) ==
    /\ req[r].phase = "explain" /\ Kind(r) = "update"
    /\ Failed(r, IF templates[req[r].call.template].status = "retired"
                 THEN "failed_precondition" ELSE "conflict")
    /\ UNCHANGED <<operators, templates, directoryVars, trailVars, grants, faults>>

\* Mutant: the statement trusts the status that was read.
SettableBlindly(t, kind) == templates[t].status \in Status

\* The conditions of the UPDATE of a status.
Settable(t, kind) == templates[t].status = From(kind)

SetTemplateStatus(r) ==
    /\ req[r].phase = "write" /\ Kind(r) \in {"retire", "restore"}
    /\ LET t == req[r].call.template
       IN IF Settable(t, Kind(r))
          THEN /\ templates' = [templates EXCEPT ![t].status = To(Kind(r))]
               /\ Committed(r, "record", "ok")
          ELSE Failed(r, "failed_precondition") /\ UNCHANGED <<templates, faults>>
    /\ UNCHANGED <<operators, directoryVars, trailVars, grants>>

\* The EXISTS of the UPDATE of an Organization's Template.
Adoptable(t) == t = "null" \/ templates[t].status = "active"

SetOrganizationTemplate(r) ==
    /\ req[r].phase = "write" /\ Kind(r) = "assign"
    /\ LET c == req[r].call
       IN IF orgs[c.org] # "absent" /\ Adoptable(c.template)
          THEN /\ orgs' = [orgs EXCEPT ![c.org] = c.template]
               /\ Committed(r, "tenant", "none")
          ELSE GoesTo(r, "explain") /\ UNCHANGED <<orgs, faults>>
    /\ UNCHANGED <<operators, templates, credentials, trailVars, grants>>

ExplainAssignment(r) ==
    /\ req[r].phase = "explain" /\ Kind(r) = "assign"
    /\ Failed(r, IF orgs[req[r].call.org] = "absent" THEN "not_found"
                 ELSE "failed_precondition")
    /\ UNCHANGED <<operators, templates, directoryVars, trailVars, grants, faults>>

\* The whole merged block, over whatever is there by now.
UpdateOrganizationIdentity(r) ==
    /\ req[r].phase = "write" /\ Kind(r) = "identity"
    /\ Committed(r, "tenant", "none")
    /\ UNCHANGED <<operators, templates, directoryVars, trailVars, grants>>

Operators == {p \in Principal : operators[p] # "none"}

\* Mutant: the statement trusts the operator that was found.
RevocableBlindly(p, by) == operators[p] # "none"

\* The conditions of the DELETE: the caller itself, or not the only operator.
Revocable(p, by) ==
    /\ operators[p] # "none"
    /\ p = by \/ Cardinality(Operators) > 1

RevokeOperator(r) ==
    /\ req[r].phase = "write" /\ Kind(r) = "revoke"
    /\ LET p == req[r].call.target
       IN IF Revocable(p, req[r].by)
          THEN /\ operators' = [operators EXCEPT ![p] = "none"]
               /\ Committed(r, "count", "none")
          ELSE Failed(r, "failed_precondition") /\ UNCHANGED <<operators, faults>>
    /\ UNCHANGED <<templates, directoryVars, trailVars, grants>>

\* The operators that remain are counted by a second statement.
CountRemaining(r) ==
    /\ req[r].phase = "count"
    /\ Succeeded(r)
    /\ UNCHANGED <<operators, templates, directoryVars, trailVars, grants, faults>>

\* createOrganizationWithFirstAdmin: one batch, under a new identifier of an
\* Organization; a login identifier that exists by now aborts it.
CreateOrganization(r) ==
    /\ req[r].phase = "write" /\ Kind(r) = "onboard"
    /\ LET c == req[r].call
       IN \E o \in Org :
             /\ orgs[o] = "absent"
             /\ IF c.identifier \notin credentials
                THEN /\ orgs' = [orgs EXCEPT ![o] = c.template]
                     /\ credentials' = credentials \cup {c.identifier}
                     /\ Committed(r, "workspace", "none")
                ELSE Failed(r, "unavailable") /\ UNCHANGED <<directoryVars, faults>>
    /\ UNCHANGED <<operators, templates, trailVars, grants>>

-----------------------------------------------------------------------------
\* The records.

\* recordOrganizationAccess, resolve: the tenant's record is written.  Its
\* answer may be lost like any other.
TenantRecorded(r) ==
    /\ req[r].phase = "tenant"
    /\ orgs[req[r].call.org] # "absent"
    /\ tenantTrail' = tenantTrail \cup {<<req[r].call.org, r>>}
    /\ \/ Succeeded(r) /\ UNCHANGED faults
       \/ Fault /\ Failed(r, "unavailable")
    /\ UNCHANGED <<operators, templates, directoryVars, trail, grants>>

\* Mutant: what was written is answered whether or not the tenant is told.
TenantRefusedIgnored(r, code) == Succeeded(r)

TenantRefused(r, code) == Failed(r, code)

\* It is not: there is no such tenant, its share or its budget is exhausted,
\* or something is down.
TenantNotRecorded(r) ==
    /\ req[r].phase = "tenant"
    /\ \E code \in IF orgs[req[r].call.org] = "absent" THEN {"not_found"}
                   ELSE {"rate_limited", "quota_exceeded", "unavailable"} :
          TenantRefused(r, code)
    /\ UNCHANGED <<operators, templates, directoryVars, trailVars, grants, faults>>

\* createFirstWorkspace: the first workspace and its record are one write into
\* the new tenant; what becomes of it is only a warning.
CreateFirstWorkspace(r) ==
    /\ req[r].phase = "workspace"
    /\ Succeeded(r)
    /\ UNCHANGED <<operators, templates, directoryVars, trailVars, grants, faults>>

\* recordThen: the record is written, then the answer is given.
Recorded(r) ==
    /\ req[r].phase = "record"
    /\ trail' = trail \cup {<<r, req[r].outcome>>}
    /\ GoesTo(r, "done")
    /\ UNCHANGED <<operators, templates, directoryVars, tenantTrail, grants, faults>>

\* The record fails, or its answer is lost: so does the request.
NotRecorded(r) ==
    /\ req[r].phase = "record"
    /\ Fault
    /\ \E stored \in BOOLEAN :
          trail' = IF stored THEN trail \cup {<<r, req[r].outcome>>} ELSE trail
    /\ req' = [req EXCEPT ![r] = [@ EXCEPT !.phase = "done", !.answer = "unavailable"]]
    /\ UNCHANGED <<operators, templates, directoryVars, tenantTrail, grants>>

-----------------------------------------------------------------------------
\* seed-platform-operator: the only way an operator comes to be.
SeedOperator(p) ==
    /\ grants < MaxGrants
    /\ operators[p] = "none"
    /\ \E role \in PLATFORM_ROLES : operators' = [operators EXCEPT ![p] = role]
    /\ grants' = grants + 1
    /\ UNCHANGED <<templates, directoryVars, req, trailVars, faults>>

Init ==
    /\ operators \in InitialRoles
    /\ templates = InitialTemplate
    /\ orgs = InitialOrg
    /\ credentials = {}
    /\ req = [r \in Req |-> Idle]
    /\ trail = {} /\ tenantTrail = {}
    /\ grants = 0 /\ faults = 0

Dispatch(r) ==
    Ask(r) \/ Resolve(r) \/ ChargeRefused(r) \/ Denied(r) \/ Admitted(r)

Read(r) ==
    \/ ReadFails(r) \/ ReadForUpdate(r) \/ ReadStatus(r) \/ ReadAdopted(r)
    \/ ReadIdentity(r) \/ ReadOperator(r) \/ ReadForOnboarding(r)
    \/ Serve(r) \/ ReadForProbe(r)

Write(r) ==
    \/ NotReserved(r) \/ WriteFails(r) \/ CreateTemplate(r)
    \/ UpdateTemplate(r) \/ ExplainUpdate(r) \/ SetTemplateStatus(r)
    \/ SetOrganizationTemplate(r) \/ ExplainAssignment(r)
    \/ UpdateOrganizationIdentity(r) \/ RevokeOperator(r) \/ CountRemaining(r)
    \/ CreateOrganization(r)

Tell(r) ==
    \/ TenantRecorded(r) \/ TenantNotRecorded(r) \/ CreateFirstWorkspace(r)
    \/ Recorded(r) \/ NotRecorded(r)

\* Everything has been answered: a finite number of requests comes to its end.
Finished ==
    /\ \A r \in Req : req[r].phase = "done"
    /\ UNCHANGED vars

Next ==
    \/ \E r \in Req : Dispatch(r) \/ Read(r) \/ Write(r) \/ Tell(r)
    \/ \E p \in Principal : SeedOperator(p)
    \/ Finished

Spec == Init /\ [][Next]_vars

-----------------------------------------------------------------------------
\* Properties.

Request == [phase : Phase, by : Principal, call : Call,
            role : PLATFORM_ROLES \cup {"none"},
            next : [name : Name \cup {"same"}, labels : Label \cup {"same"}],
            effected : BOOLEAN, outcome : Outcome, answer : Answer]

\* Everything has its type; a request carries only a role this build knows.
TypeOK ==
    /\ operators \in [Principal -> Role \cup {"none"}]
    /\ templates \in [Template -> Record \cup {NoTemplate}]
    /\ orgs \in [Org -> Template \cup {"null", "absent"}]
    /\ credentials \subseteq Identifier
    /\ req \in [Req -> Request]
    /\ trail \subseteq Req \X Outcome
    /\ tenantTrail \subseteq Org \X Req
    /\ grants \in Nat
    /\ faults \in Nat

LastOneResigns ==
    (Operators # {} /\ Operators' = {}) =>
        \E r \in Req : /\ req[r].phase = "write" /\ Kind(r) = "revoke"
                       /\ req[r].by = req[r].call.target
                       /\ Operators = {req[r].by}
                       /\ req'[r] # req[r]

\* The platform loses its last operator only by that operator's own
\* resignation, however many revocations overlap: nobody could make another
\* one through the console (revokeOperator).
LastOperatorLeavesOnlyItself == [][LastOneResigns]_vars

StaysWithdrawn ==
    /\ \A t \in Template :
          templates[t].status = "retired" =>
             templates'[t] \in {templates[t], [templates[t] EXCEPT !.status = "active"]}
    /\ \A o \in Org :
          (orgs[o] # "absent" /\ orgs'[o] \notin {orgs[o], "null"}) =>
             templates[orgs'[o]].status = "active"

\* While a Template is retired nobody edits it, and no Organization that
\* exists is moved to it, whatever a handler had read before (the UPDATEs of
\* update and setOrganizationTemplate).
RetiredIsWithdrawn == [][StaysWithdrawn]_vars

Effected(kind, t) ==
    {r \in Req : Kind(r) = kind /\ req[r].effected /\ req[r].call.template = t}

\* Retirements and restorations take turns: of the requests that changed a
\* status, as many restored a Template as retired it, and one more retired it
\* if it is retired now; no request is told of a change it did not make
\* (setStatus).
TrailTellsStatus ==
    \A t \in Template :
        Cardinality(Effected("retire", t)) =
            Cardinality(Effected("restore", t))
                + (IF templates[t].status = "retired" THEN 1 ELSE 0)

EditKeepsTheRest ==
    \A r \in Req :
        (Kind(r) = "update" /\ ~ req[r].effected /\ req'[r].effected) =>
           LET t == req[r].call.template
           IN  \A field \in {"name", "labels"} :
                  req[r].call[field] = "same" =>
                     \/ templates'[t][field] = templates[t][field]
                     \/ \E s \in Effected("update", t) :
                           req[s].next[field] = templates[t][field]

\* An update leaves alone what it was not asked to change, though it writes
\* the whole record it merged when it read: the only value it can overwrite
\* unasked is one that another update of the same Template wrote meanwhile
\* (parseTemplateUpdate, update).
EditsKeepTheRest == [][EditKeepsTheRest]_vars

Changes == {"create", "update", "retire", "restore", "assign", "identity",
            "revoke", "onboard"}
ToldTenant == {"assign", "identity", "probe"}

\* The trail and the answers tell what happened: a success is answered only if
\* its record was written, and the tenant's own where one is due; a change
\* recorded as a success was made, one recorded as denied was not; and a
\* change that was made has a record, or its caller was told unavailable
\* (recordThen, recordOrganizationAccess).
RecordedAsDone ==
    \A r \in Req :
        /\ (req[r].phase = "done" /\ req[r].answer = "ok") =>
              /\ <<r, "ok">> \in trail
              /\ Kind(r) \in ToldTenant => <<req[r].call.org, r>> \in tenantTrail
        /\ (<<r, "ok">> \in trail /\ Kind(r) \in Changes) => req[r].effected
        /\ <<r, "denied">> \in trail => ~req[r].effected
        /\ (req[r].phase = "done" /\ req[r].effected) =>
              \/ req[r].answer = "unavailable"
              \/ \E outcome \in {"ok", "failed"} : <<r, outcome>> \in trail
=============================================================================
