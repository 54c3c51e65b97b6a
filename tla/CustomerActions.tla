-------------------------- MODULE CustomerActions --------------------------
(***************************************************************************)
(* The Actions of the customers App, served by Core's invocation pipeline. *)
(*                                                                         *)
(* A request begins at the coordinator, which admits it or limits its      *)
(* rate; it is authorized, its store and the businesses of an organization *)
(* wide principal are looked up, the Action's handler reads the customer   *)
(* and decides, units of the daily write budget are reserved, and one      *)
(* batch writes the customer row and the audit row.  Every one of these is *)
(* an await, so requests interleave between them: what a handler decided   *)
(* on may have changed when its batch is written, since the update names   *)
(* the row by its identifier alone.                                        *)
(*                                                                         *)
(* A client that lists or searches customers asks for page after page,     *)
(* each time with the cursor of the page before, and not always with the   *)
(* filters it began with.                                                  *)
(***************************************************************************)
EXTENDS Integers, Sequences, FiniteSets

CONSTANTS
    Customer,   \* customer identifiers, numbers: they break ties of the order
    Business,   \* the businesses of the Organization
    Outside,    \* a business of another Organization
    Name,       \* display name keys, numbers in their order
    Mail,       \* e-mail keys
    Principal,
    Grant,      \* Grant[p][op]: the scope at which p holds the permission
    Assigned,   \* Assigned[p]: its businesses, or OrgWide
    OrgWide,
    Req,        \* requests; each is served once
    NewId,      \* NewId[q]: the identifier generated for request q
    Input,      \* the bodies that principals send
    Tables,     \* the customer tables to begin with
    PageSize,
    MaxFaults   \* bound: how many calls fail

Op == {"create", "get", "list", "search", "update", "archive", "restore", "move"}
Status == {"active", "archived"}
Row == [org : {"own", "other"}, business : Business \cup {Outside},
        status : Status, name : Name, mail : Mail]

Nothing == <<>>          \* no column

\* Bodies, by what they name and ask.  within: the business a collection is
\* asked of, or OrgWide; statuses: what its status filter selects; match: the
\* names and addresses its query matches, which for a list are all.
Body ==
    [op : {"create"}, target : {0},
     asked : [business : Business \cup {Outside}, name : Name, mail : Mail]]
    \cup [op : {"get", "archive", "restore"}, target : Customer \cup {0},
          asked : {Nothing}]
    \cup [op : {"update"}, target : Customer \cup {0},
          asked : [name : Name] \cup [mail : Mail] \cup [name : Name, mail : Mail]]
    \cup [op : {"move"}, target : Customer \cup {0},
          asked : [business : Business \cup {Outside}]]
    \cup [op : {"list", "search"}, target : {0},
          asked : [within : Business \cup {Outside, OrgWide},
                   statuses : SUBSET Status, match : SUBSET (Name \X Mail)]]

ASSUME CustomerActionsAssumption ==
    /\ Customer \subseteq Nat \ {0}
    /\ Name \subseteq Nat
    /\ OrgWide \notin Principal \cup Business \cup {Outside}
    /\ Outside \notin Business
    /\ Assigned \in [Principal -> (SUBSET Business) \cup {OrgWide}]
    /\ Input \subseteq Body
    /\ NewId \in [Req -> Customer]
    /\ \A q, w \in Req : NewId[q] = NewId[w] => q = w
    /\ \A t \in Tables : /\ t \in [DOMAIN t -> Row]
                         /\ DOMAIN t \subseteq Customer
                         /\ \A c \in DOMAIN t : t[c].org = "own" =>
                               t[c].business \in Business
                         /\ \A q \in Req : NewId[q] \notin DOMAIN t
    /\ PageSize \in Nat \ {0}
    /\ MaxFaults \in Nat

VARIABLES
    table,   \* the rows of D1's table customer, by identifier
    audit,   \* the rows of audit_event, in the order they were committed
    req,     \* req[q]: the request q
    walk,    \* history: walk[q], how often request q was shown a customer
    wanted,  \* history: the table as the committed requests asked for it
    faults   \* how many calls have failed

vars == <<table, audit, req, walk, wanted, faults>>

-----------------------------------------------------------------------------
\* What the Action definitions declare.

Rank == [none |-> 0, business |-> 1, organization |-> 2]
implies(granted, required) == Rank[granted] >= Rank[required]

ActionScope(op) == IF op = "move" THEN "organization" ELSE "business"
Writes(op) == op \in {"create", "update", "archive", "restore", "move"}
Collects(op) == op \in {"list", "search"}
AuditsOnDenial(op) == ~ Collects(op)
NamesCustomer(op) == op # "create" /\ ~ Collects(op)

\* Search is enumeration: it is permitted to whoever may list.
Permission(op) == IF op = "search" THEN "list" ELSE op

DenialReason == {"forbidden", "not_found", "invalid_argument",
                 "failed_precondition", "rate_limited", "quota_exceeded"}

authorize(p, op) == implies(Grant[p][Permission(op)], ActionScope(op))

\* Mutant: an archived record can be edited.
canUpdateAny(status) == status \in Status

\* The domain's lifecycle rules.
canUpdate(status) == status = "active"
canArchive(status) == status = "active"
canRestore(status) == status = "archived"
canMove(status) == status \in {"active", "archived"}

-----------------------------------------------------------------------------
\* Requests.

NoRow == [org |-> "none"]
NoEntry == [op |-> "none"]
NoBody == [op |-> "none", target |-> 0, asked |-> Nothing]

\* input: the body; scope: the authorized businesses; seen: the row the
\* handler read; set: the columns its update writes; entry: its audit row;
\* cursor, bound: the anchor of the next page and the body it is bound to;
\* key: the display name key of the anchor, once it is read.
Idle == [phase |-> "idle", by |-> OrgWide, input |-> NoBody,
         degraded |-> FALSE, scope |-> {}, seen |-> NoRow, set |-> Nothing,
         entry |-> NoEntry, cursor |-> 0, bound |-> NoBody, key |-> 0,
         answer |-> "none", evidence |-> "none"]

Phase == {"idle", "store", "businesses", "handle", "anchor", "page", "paged",
          "reserving", "writing", "denying", "done"}

NoWalk == [shown |-> [c \in Customer |-> 0], steady |-> {}, anchored |-> TRUE]

Goto(q, r) == req' = [req EXCEPT ![q] = r]

Fault == faults < MaxFaults /\ faults' = faults + 1

\* The answer of a request, which then holds nothing else.
Answered(r, answer, evidence) ==
    [Idle EXCEPT !.phase = "done", !.by = r.by, !.input = r.input,
                 !.degraded = r.degraded,
                 !.answer = answer, !.evidence = evidence]

\* Mutant: a denial is lost without a word while the coordinator is away.
failSilent(r, code) ==
    IF ~ (AuditsOnDenial(r.input.op) /\ code \in DenialReason) \/ r.degraded
    THEN Answered(r, code, "none")
    ELSE [r EXCEPT !.phase = "denying", !.answer = code]

\* A refusal: counted by the coordinator when the Action audits its denials
\* and the code is one of those it keeps evidence of; without a coordinator
\* the loss is announced.
fail(r, code) ==
    IF ~ (AuditsOnDenial(r.input.op) /\ code \in DenialReason)
    THEN Answered(r, code, "none")
    ELSE IF r.degraded
    THEN Answered(r, code, "announced")
    ELSE [r EXCEPT !.phase = "denying", !.answer = code]

-----------------------------------------------------------------------------
\* The pipeline up to the handler.

Admission == {"admitted", "rate_limited", "unreachable"}

Admitted(r, admission) ==
    IF ~ authorize(r.by, r.input.op) THEN fail(r, "forbidden")
    ELSE IF NamesCustomer(r.input.op) /\ r.input.target \notin Customer
    THEN fail(r, "invalid_argument")
    ELSE IF admission = "rate_limited" THEN fail(r, "rate_limited")
    ELSE [r EXCEPT !.phase = "store"]

\* The coordinator answers or cannot be reached; authorization, the shape of
\* the body and the rate are judged in this order.  The second disjunct is a
\* client that asks for the next page, with the body it had or with another.
Begin(q) ==
    \E admission \in Admission :
        /\ \/ /\ req[q].phase = "idle"
              /\ \E p \in Principal, i \in Input :
                    Goto(q, Admitted([Idle EXCEPT !.by = p, !.input = i,
                                        !.degraded = admission = "unreachable"],
                                     admission))
           \/ /\ req[q].phase = "paged"
              /\ \E i \in {req[q].input} \cup {j \in Input : Collects(j.op)} :
                    Goto(q, Admitted([req[q] EXCEPT !.input = i,
                                        !.degraded = admission = "unreachable"],
                                     admission))
        /\ IF admission = "unreachable" THEN Fault ELSE UNCHANGED faults
        /\ UNCHANGED <<table, audit, walk, wanted>>

\* The store of the Organization is found.
OpenStore(q) ==
    /\ req[q].phase = "store"
    /\ LET r == req[q] IN
       Goto(q, IF Assigned[r.by] = OrgWide
               THEN [r EXCEPT !.phase = "businesses"]
               ELSE [r EXCEPT !.phase = "handle", !.scope = Assigned[r.by]])
    /\ UNCHANGED <<table, audit, walk, wanted, faults>>

\* The businesses of the Organization become those of the principal.
ReadBusinesses(q) ==
    /\ req[q].phase = "businesses"
    /\ Goto(q, [req[q] EXCEPT !.phase = "handle", !.scope = Business])
    /\ UNCHANGED <<table, audit, walk, wanted, faults>>

-----------------------------------------------------------------------------
\* Handlers.

\* Mutant: the lookup forgets the Organization.
findByIdAnywhere(c) == c \in DOMAIN table

\* A customer is looked up within the Organization.
findById(c) == c \in DOMAIN table /\ table[c].org = "own"

\* What resolveAuthorizedCustomer answers.
resolve(r) ==
    IF ~ findById(r.input.target) THEN "not_found"
    ELSE IF table[r.input.target].business \notin r.scope THEN "forbidden"
    ELSE "ok"

authorizeSuppliedBusiness(r, business) ==
    IF business \in r.scope THEN "ok"
    ELSE IF business \in Business THEN "forbidden"
    ELSE "not_found"

Handling(q, op) == req[q].phase = "handle" /\ req[q].input.op = op

\* Mutant: the writes of a degraded request are not held back.
MustDeferNever(r) == FALSE

\* A handler's writes go on to the write budget, unless there is no
\* coordinator to ask.
MustDefer(r) == r.degraded

Propose(q, row, set, related, changed) ==
    LET r == req[q] IN
    IF MustDefer(r) THEN Answered(r, "unavailable", "none")
    ELSE [r EXCEPT !.phase = "reserving", !.seen = row, !.set = set,
                   !.entry = [by |-> q, op |-> r.input.op,
                              customer |-> IF r.input.op = "create"
                                           THEN NewId[q] ELSE r.input.target,
                              related |-> related, changed |-> changed]]

Create(q) ==
    /\ Handling(q, "create")
    /\ LET r == req[q]
           asked == r.input.asked
           business == authorizeSuppliedBusiness(r, asked["business"]) IN
       Goto(q, IF business # "ok" THEN fail(r, business)
               ELSE Propose(q, NoRow,
                        [org |-> "own", business |-> asked["business"],
                         status |-> "active", name |-> asked["name"],
                         mail |-> asked["mail"]],
                        {asked["business"]}, {}))
    /\ UNCHANGED <<table, audit, walk, wanted, faults>>

Get(q) ==
    /\ Handling(q, "get")
    /\ LET r == req[q] IN
       Goto(q, IF resolve(r) # "ok" THEN fail(r, resolve(r))
               ELSE Answered(r, "ok", "none"))
    /\ UNCHANGED <<table, audit, walk, wanted, faults>>

\* A handler that updates the row it resolved, when `may' allows its status.
Handler(q, op, may, set, related, changed) ==
    /\ Handling(q, op)
    /\ LET r == req[q] IN
       Goto(q, IF resolve(r) # "ok" THEN fail(r, resolve(r))
               ELSE IF ~ may THEN fail(r, "failed_precondition")
               ELSE Propose(q, table[r.input.target], set, related, changed))
    /\ UNCHANGED <<table, audit, walk, wanted, faults>>

Target(q) == table[req[q].input.target]
ReadBusiness(q) == {Target(q).business}

\* Mutant: the update writes the whole row that was read.
UpdateSetMerged(row, asked) ==
    [col \in DOMAIN row |-> IF col \in DOMAIN asked THEN asked[col] ELSE row[col]]

\* The columns an update sets are those present in the body; the audit row
\* names those whose value differs from the one read.
UpdateSet(row, asked) == asked
ChangedFields(row, asked) == {col \in DOMAIN asked : asked[col] # row[col]}

Update(q) ==
    Handler(q, "update", canUpdate(Target(q).status),
            UpdateSet(Target(q), req[q].input.asked), ReadBusiness(q),
            ChangedFields(Target(q), req[q].input.asked))

Archive(q) ==
    Handler(q, "archive", canArchive(Target(q).status),
            [status |-> "archived"], ReadBusiness(q), {"status"})

Restore(q) ==
    Handler(q, "restore", canRestore(Target(q).status),
            [status |-> "active"], ReadBusiness(q), {"status"})

\* Both ends are authorized, and a move that moves nothing is refused.
Move(q) ==
    /\ Handling(q, "move")
    /\ LET r == req[q]
           to == r.input.asked["business"]
           found == resolve(r)
           destination == authorizeSuppliedBusiness(r, to) IN
       Goto(q, IF found # "ok" THEN fail(r, found)
               ELSE IF destination # "ok" THEN fail(r, destination)
               ELSE IF ~ canMove(Target(q).status) \/ Target(q).business = to
               THEN fail(r, "failed_precondition")
               ELSE Propose(q, Target(q), [business |-> to],
                            {Target(q).business, to}, {"business"}))
    /\ UNCHANGED <<table, audit, walk, wanted, faults>>

-----------------------------------------------------------------------------
\* Listing and searching: a keyset over (display name key, identifier).

\* Mutant: the tie of equal names is not broken.
AfterUntied(name, c, r) == r.cursor = 0 \/ name > r.key

\* A customer with this key and identifier comes after the anchor.
After(name, c, r) ==
    \/ r.cursor = 0
    \/ name > r.key
    \/ name = r.key /\ c > r.cursor

\* The businesses a collection is read from: the one it names, or all those
\* the principal is authorized over.
businessIds(r) ==
    IF r.input.asked.within = OrgWide THEN r.scope ELSE {r.input.asked.within}

\* What the filters and the query of a collection select.
Selects(r, row) ==
    /\ row.org = "own"
    /\ row.business \in businessIds(r)
    /\ row.status \in r.input.asked.statuses
    /\ <<row.name, row.mail>> \in r.input.asked.match

Candidates(r) == {c \in DOMAIN table : Selects(r, table[c])}

Before(c, d) ==
    \/ table[c].name < table[d].name
    \/ table[c].name = table[d].name /\ c < d

\* A named business is authorized before anything is read.
Collect(q) ==
    /\ req[q].phase = "handle" /\ Collects(req[q].input.op)
    /\ LET r == req[q]
           within == r.input.asked.within
           named == authorizeSuppliedBusiness(r, within) IN
       Goto(q, IF within # OrgWide /\ named # "ok" THEN fail(r, named)
               ELSE [r EXCEPT !.phase = IF r.cursor = 0 THEN "page" ELSE "anchor"])
    /\ UNCHANGED <<table, audit, walk, wanted, faults>>

\* A cursor is of use under the collection, filters and query it was given for.
decodes(r) == r.bound = r.input

\* A cursor that has expired or does not decode is rejected; it names a
\* customer, whose key is read again.
FindAnchor(q) ==
    /\ req[q].phase = "anchor"
    /\ LET r == req[q] IN
       \/ Goto(q, IF decodes(r) /\ findById(r.cursor)
                  THEN [r EXCEPT !.phase = "page", !.key = table[r.cursor].name]
                  ELSE fail(r, "invalid_argument"))
       \/ Goto(q, fail(r, "invalid_argument"))
    /\ UNCHANGED <<table, audit, walk, wanted, faults>>

\* One row more than a page holds is read, to know whether a page follows: the
\* page is the first candidates after the anchor, and its last is the cursor.
ReadPage(q) ==
    /\ req[q].phase = "page"
    /\ LET r == req[q]
           matching == {c \in Candidates(r) : After(table[c].name, c, r)} IN
       \E page \in SUBSET matching :
          /\ page = matching \/ Cardinality(page) = PageSize
          /\ Cardinality(page) <= PageSize
          /\ \A c \in page, d \in matching \ page : Before(c, d)
          /\ IF page = matching THEN Goto(q, Answered(r, "ok", "none"))
             ELSE \E last \in page :
                    /\ \A c \in page \ {last} : Before(c, last)
                    /\ Goto(q, [r EXCEPT !.phase = "paged", !.cursor = last,
                                         !.bound = r.input, !.key = 0])
          /\ walk' = [walk EXCEPT ![q] =
                [shown |-> [c \in Customer |->
                              walk[q].shown[c] + IF c \in page THEN 1 ELSE 0],
                 steady |-> IF r.cursor = 0 THEN Candidates(r) ELSE walk[q].steady,
                 anchored |-> walk[q].anchored]]
    /\ UNCHANGED <<table, audit, wanted, faults>>

-----------------------------------------------------------------------------
\* The pipeline after the handler.

\* The budget grants the units, or defers the write.
Reserve(q) ==
    /\ req[q].phase = "reserving"
    /\ LET r == req[q] IN
       \/ Goto(q, [r EXCEPT !.phase = "writing"])
       \/ Goto(q, fail(r, IF r.input.op = "create"
                          THEN "quota_exceeded" ELSE "unavailable"))
    /\ UNCHANGED <<table, audit, walk, wanted, faults>>

\* What a column holds after an update that sets some.
Column(row, set, col) == IF col \in DOMAIN set THEN set[col] ELSE row[col]

write(row, set) ==
    [org |-> row.org, business |-> Column(row, set, "business"),
     status |-> Column(row, set, "status"), name |-> Column(row, set, "name"),
     mail |-> Column(row, set, "mail")]

\* Table t after request r: a row is inserted, or columns of one are updated.
Written(t, r, set) ==
    IF r.input.op = "create"
    THEN [c \in DOMAIN t \cup {r.entry.customer} |->
            IF c = r.entry.customer THEN set ELSE t[c]]
    ELSE [t EXCEPT ![r.input.target] = write(@, set)]

\* What a body asks for, whatever its handler makes of it.
AskedFor(body) ==
    CASE body.op = "archive" -> [status |-> "archived"]
      [] body.op = "restore" -> [status |-> "active"]
      [] body.op = "create"  ->
            [org |-> "own", business |-> body.asked["business"],
             status |-> "active", name |-> body.asked["name"],
             mail |-> body.asked["mail"]]
      [] OTHER -> body.asked

\* What a commit means to the walks under way: a customer that was renamed, or
\* that is no longer selected, is not steady, and an anchor with a new name no
\* longer holds its place.
Walked(c, before, after) ==
    [w \in Req |->
        IF c \notin DOMAIN before THEN walk[w]
        ELSE LET renamed == before[c].name # after[c].name
                 r == req[w] IN
             [shown |-> walk[w].shown,
              steady |-> {d \in walk[w].steady :
                            d # c \/ (~ renamed /\ Selects(r, after[c]))},
              anchored |-> walk[w].anchored
                              /\ ~ (renamed /\ r.cursor = c /\ r.phase # "page")]]

\* The customer row and the audit row are written in one batch; its answer
\* may still be lost.
Commit(q) ==
    /\ req[q].phase = "writing"
    /\ LET r == req[q]
           after == Written(table, r, r.set) IN
       /\ table' = after
       /\ audit' = Append(audit, r.entry)
       /\ wanted' = Written(wanted, r, AskedFor(r.input))
       /\ walk' = Walked(r.entry.customer, table, after)
       /\ \/ Goto(q, Answered(r, "ok", "none")) /\ UNCHANGED faults
          \/ Goto(q, Answered(r, "unavailable", "none")) /\ Fault

\* Any call on the way to the batch may fail, and the batch as a whole.
CallFails(q) ==
    /\ req[q].phase \in {"store", "businesses", "handle", "anchor", "page",
                         "reserving", "writing"}
    /\ Fault
    /\ Goto(q, fail(req[q], "unavailable"))
    /\ UNCHANGED <<table, audit, walk, wanted>>

\* The coordinator counts the denial, or the loss is announced.
RecordDenial(q) ==
    /\ req[q].phase = "denying"
    /\ \/ /\ Goto(q, Answered(req[q], req[q].answer, "recorded"))
          /\ UNCHANGED faults
       \/ /\ Goto(q, Answered(req[q], req[q].answer, "announced"))
          /\ Fault
    /\ UNCHANGED <<table, audit, walk, wanted>>

-----------------------------------------------------------------------------
Init ==
    /\ table \in Tables
    /\ audit = <<>>
    /\ req = [q \in Req |-> Idle]
    /\ walk = [q \in Req |-> NoWalk]
    /\ wanted = table
    /\ faults = 0

Step(q) ==
    \/ Begin(q) \/ OpenStore(q) \/ ReadBusinesses(q)
    \/ Create(q) \/ Get(q) \/ Update(q) \/ Archive(q) \/ Restore(q) \/ Move(q)
    \/ Collect(q) \/ FindAnchor(q) \/ ReadPage(q)
    \/ Reserve(q) \/ Commit(q) \/ CallFails(q) \/ RecordDenial(q)

Next == \E q \in Req : Step(q)

Spec == Init /\ [][Next]_vars

-----------------------------------------------------------------------------
\* Properties.

Entry == [by : Req, op : Op, customer : Customer, related : SUBSET Business,
          changed : SUBSET {"business", "status", "name", "mail"}]

Answer == {"none", "ok", "unavailable"} \cup DenialReason

Request ==
    [phase : Phase, by : Principal \cup {OrgWide}, input : Input \cup {NoBody},
     degraded : BOOLEAN, scope : SUBSET Business, seen : Row \cup {NoRow},
     set : {Nothing} \cup {AskedFor(i) : i \in Input},
     entry : Entry \cup {NoEntry}, cursor : Customer \cup {0},
     bound : Input \cup {NoBody}, key : Name \cup {0}, answer : Answer,
     evidence : {"none", "recorded", "announced"}]

Walk == [shown : [Customer -> Nat], steady : SUBSET Customer, anchored : BOOLEAN]

\* Everything has its type; a customer of the Organization is in one of its
\* businesses.
TypeOK ==
    /\ DOMAIN table \subseteq Customer
    /\ table \in [DOMAIN table -> Row]
    /\ \A c \in DOMAIN table : table[c].org = "own" => table[c].business \in Business
    /\ audit \in Seq(Entry)
    /\ req \in [Req -> Request]
    /\ walk \in [Req -> Walk]
    /\ faults \in Nat

\* Every column of every customer holds what the last committed request that
\* asked for that column asked: a request that committed in between and did
\* not name the column left it alone ("field ABSENT -> unchanged", in
\* update-customer.ts), however the handlers interleaved.
LastAskedStands == table = wanted

\* The answer of a request that writes agrees with the audit trail: told ok,
\* there is exactly one row of it; refused, or served without a coordinator,
\* there is none.  Only `unavailable' leaves the caller in doubt
\* (invokeAction: one batch, a reservation before it, no write when degraded).
AnswerMatchesTrail ==
    \A q \in Req :
        LET rows == {i \in DOMAIN audit : audit[i].by = q} IN
        req[q].phase = "done" =>
            /\ \A i, j \in rows : i = j
            /\ req[q].answer = "ok" /\ Writes(req[q].input.op) => rows # {}
            /\ req[q].answer \notin {"ok", "unavailable"} \/ req[q].degraded
                  => rows = {}

\* No denial an Action audits goes without evidence: the coordinator counted
\* it or its loss was announced, and what was answered ok has no denial (fail).
DenialHasEvidence ==
    \A q \in Req : req[q].phase = "done" =>
        (req[q].evidence # "none"
            <=> AuditsOnDenial(req[q].input.op) /\ req[q].answer \in DenialReason)

\* The batch of request q, whose target nobody changed since q read it, obeys
\* the lifecycle and the authority of its principal, and its audit row tells
\* the change: the businesses the row was and is in, the columns that differ.
LegalWrite(q) ==
    LET r == req[q]
        c == r.entry.customer
        old == table[c]
        new == table'[c]
        mine == IF Assigned[r.by] = OrgWide THEN Business ELSE Assigned[r.by]
        op == r.input.op
        entry == audit'[Len(audit')] IN
    /\ op \in {"update", "archive"} => old.status = "active"
    /\ op = "restore" => old.status = "archived"
    /\ new.status = CASE op = "archive" -> "archived"
                      [] op = "restore" -> "active" [] OTHER -> old.status
    /\ {old.business, new.business} \subseteq mine
    /\ entry.related = {old.business, new.business}
    /\ entry.changed = {col \in DOMAIN old : old[col] # new[col]}

\* Decisions hold when they are carried out, provided nobody overtook them: a
\* batch whose row is still the one its handler read is legal, and changes
\* that row only (updateOperation is "the same row it read").
FreshWriteIsLegal ==
    [][\A q \in Req :
        (/\ req[q].phase = "writing" /\ audit' # audit
         /\ req'[q].phase = "done" /\ req[q].seen # NoRow
         /\ table[req[q].entry.customer] = req[q].seen)
        => /\ LegalWrite(q)
           /\ \A d \in DOMAIN table :
                 d # req[q].entry.customer => table'[d] = table[d]]_vars

\* Customers of another Organization are neither listed nor named in the audit
\* trail, and a principal allowed to ask about one is told what it is told of
\* an identifier that does not exist: never ok, never forbidden (the tenant
\* predicate of every statement, and the order of the checks in
\* resolveAuthorizedCustomer).
TenantIsolation ==
    LET foreign == {c \in DOMAIN table : table[c].org = "other"} IN
    /\ \A c \in foreign : \A q \in Req :
          /\ walk[q].shown[c] = 0
          /\ req[q].input.target = c /\ authorize(req[q].by, req[q].input.op)
                => req[q].answer \notin {"ok", "forbidden"}
    /\ \A i \in DOMAIN audit : audit[i].customer \notin foreign

\* A listing or search that reached its last page has shown every customer it
\* selected all along exactly once, whatever was archived, moved, created or
\* edited meanwhile, as long as no anchor was renamed while a cursor named it
\* (page, "a row cannot appear on two pages").
WalkIsComplete ==
    \A q \in Req :
        (req[q].phase = "done" /\ req[q].answer = "ok"
            /\ Collects(req[q].input.op) /\ walk[q].anchored)
        => \A c \in walk[q].steady : walk[q].shown[c] = 1
=============================================================================
