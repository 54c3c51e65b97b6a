----------------------------- MODULE TenantAdmin -----------------------------
(***************************************************************************)
(* Tenant administration: the administrators of one Organization.          *)
(*                                                                         *)
(* A request reaches a route of the registered table and goes one way: its *)
(* shape is checked, its session is read, the caller's membership is read, *)
(* an audited route is charged, every permission of the route is asked, a  *)
(* critical one is confirmed, the handler runs, the outcome is recorded,   *)
(* and only then is the answer given.                                      *)
(*                                                                         *)
(* The handler that invites somebody reads what the inviter holds, reads   *)
(* every custom role that is offered, reserves its writes, sweeps away     *)
(* invitations that have lapsed, and inserts the new one.  Between any two *)
(* of these the roles of members, the custom roles they hold and what those *)
(* grant change.                                                           *)
(*                                                                         *)
(* An invitation that lapses is written by nobody: it is pending in the    *)
(* table and expired to every reader, until a sweep materialises that.     *)
(***************************************************************************)
EXTENDS TenantRoutes, FiniteSets

CONSTANTS
    Principal,     \* the members, and who might become one
    Custom,        \* identifiers of custom roles
    Req,           \* requests; each is served once
    Tables,        \* the route tables that might be shipped
    Asked,         \* bound: the calls that are made
    Handled,       \* the routes a handler is registered for
    InitialRole,   \* InitialRole[p]: the stored role of p at first
    InitialAssigned, \* InitialAssigned[p]: the custom roles p holds at first
    InitialContent, \* InitialContent[c]: the permissions of c at first
    Definable,     \* bound: what a custom role may be made to hold
    Invitation,    \* identifiers of invitations, a set of numbers
    InitialInvitations, \* the invitations there are at first
    Lifetime,      \* how long an invitation is open
    SweepLimit,    \* TENANT_INVITATION_LAPSE_SWEEP_LIMIT
    PageSize,      \* of the walk through the invitations
    MaxTime,       \* bound: the last instant
    MaxChanges,    \* bound: how often a role or its contents change
    MaxFaults      \* bound: how many calls fail

VARIABLES
    table,       \* the registered table
    stored,      \* stored[p]: the role column of p's membership, or "none"
    assigned,    \* assigned[p]: the custom roles p holds besides
    contents,    \* contents[c]: the permissions of custom role c, or Undefined,
                 \* if there is none or it is retired
    invitations, \* invitations[i]: the row of i, or NoInvitation
    req,         \* req[q]: the request q
    trail,       \* audit_event: <<q, outcome>>
    seen,        \* seen[q]: what held at some time while q was served
    walk,        \* a client's walk through the list of invitations
    now,         \* the clock
    changes,     \* how often a role or its contents changed
    faults       \* how many calls have failed

memberVars == <<stored, assigned, contents, changes>>
vars == <<table, memberVars, invitations, req, trail, seen, walk, now, faults>>

-----------------------------------------------------------------------------
INVITE == "tenant.invitations.create"
LIST == "tenant.invitations.list"

\* Nobody is invited to own the Organization.
Offered == MembershipRole \ {"owner"}
Offer == [role : Offered, custom : SUBSET Custom]

\* A role column may hold a role this build does not know.
Stored == MembershipRole \cup {"none", "unknown"}
Undefined == {"undefined"}
Time == 0 .. MaxTime

Row == [status : {"pending", "expired"}, address : BOOLEAN, created : Time,
        expires : Nat, offer : Offer, by : Req \cup {"earlier"}]
NoInvitation == [status |-> "none"]
Start == -1

\* by is "nobody" for a request without a session; query holds the names of
\* its parameters, body those of its fields; id is what a challenge is asked
\* for; offer is what an invitation offers.
Call == [by : Principal \cup {"nobody"}, method : {"GET", "POST", "PATCH"},
         path : Seq(STRING), query : Seq(Name), body : SUBSET Name,
         id : STRING, offer : Offer]

ASSUME AdminAssumption ==
    /\ "owner" \in MembershipRole
    /\ {"none", "unknown"} \cap MembershipRole = {}
    /\ "nobody" \notin Principal
    /\ "earlier" \notin Req
    /\ "undefined" \notin Permission
    /\ \A t \in Tables : WellFormed(t)
    /\ Asked \subseteq Call /\ Asked # {}
    /\ InitialRole \in [Principal -> Stored]
    /\ Definable \subseteq SUBSET Permission
    /\ InitialAssigned \in [Principal -> SUBSET Custom]
    /\ InitialContent \in [Custom -> Definable \cup {Undefined}]
    /\ Invitation \subseteq Nat /\ IsFiniteSet(Invitation)
    /\ InitialInvitations \in [Invitation -> Row \cup {NoInvitation}]
    /\ \A i \in Invitation :
          InitialInvitations[i] # NoInvitation =>
             /\ InitialInvitations[i].status = "pending"
             /\ InitialInvitations[i].address
             /\ InitialInvitations[i].by = "earlier"
    /\ Lifetime \in Nat \ {0}
    /\ SweepLimit \in Nat \ {0}
    /\ PageSize \in Nat \ {0}
    /\ MaxTime \in Nat /\ MaxChanges \in Nat /\ MaxFaults \in Nat

Phase == {"idle", "session", "authority", "charge", "authorize", "gate",
          "handle", "ceiling", "roles", "reserve", "sweep", "insert",
          "record", "done"}

Outcome == {"none", "ok", "denied", "failed"}

\* Why a caller is refused is not told apart; that the store could not be
\* reached is.
Answer == {"none", "ok", "refused", "unavailable"}

\* route: its place in the table; role, held, left: the caller's role, the
\* permissions read for the ceiling, and the custom roles still to be read;
\* at: the instant the handler took from the clock.
Idle == [phase |-> "idle", call |-> CHOOSE c \in Asked : TRUE, route |-> 0,
         role |-> "none", held |-> {}, left |-> {}, at |-> 0,
         charged |-> FALSE, confirmed |-> FALSE, effected |-> FALSE,
         outcome |-> "none", answer |-> "none"]

Fault == faults < MaxFaults /\ faults' = faults + 1

GoesTo(q, phase) == req' = [req EXCEPT ![q].phase = phase]

\* Refused before anything can be recorded; what it was is of no interest.
Refused(q, code) ==
    /\ req' = [req EXCEPT ![q] = [Idle EXCEPT !.phase = "done", !.answer = code]]
    /\ seen' = [seen EXCEPT ![q] = {}]

\* The outcome is decided: the record is next.
Decided(r, outcome, code) ==
    [r EXCEPT !.phase = "record", !.role = "none", !.held = {}, !.left = {},
              !.at = 0, !.outcome = outcome, !.answer = code]

Ends(q, outcome, code) ==
    req' = [req EXCEPT ![q] = Decided(@, outcome, code)]

Route(r) == table.routes[r.route]

\* What a role grants, none for an unknown one: all that the dispatch asks for.
Held(role) == IF role \in MembershipRole THEN Grants[role] ELSE {}

\* heldPermissions: all that a member holds, by its role and by its custom roles
\* together, if they are defined; nothing, if it is no member.
Effective(role, custom, defined) ==
    IF role = "none" THEN {}
    ELSE Held(role) \cup UNION ({defined[c] : c \in custom} \ {Undefined})

HeldBy(p) == IF p \in Principal THEN Effective(stored[p], assigned[p], contents) ELSE {}

\* What holds of p at one moment, were these the members and the custom roles.
MomentIn(member, given, defined, p) ==
    [granted |-> IF p \in Principal THEN Held(member[p]) ELSE {},
     held |-> IF p \in Principal THEN Effective(member[p], given[p], defined) ELSE {},
     contents |-> defined]

Moment(p) == MomentIn(stored, assigned, contents, p)

Serving(q) == req[q].phase \notin {"idle", "done"}

-----------------------------------------------------------------------------
\* dispatchTenantAdminRoute, up to the handler.

\* matchTenantAdminRoute, parseQuery and parsePreAuthBody: no session has been
\* looked at.
Ask(q) ==
    /\ req[q].phase = "idle"
    /\ \E c \in Asked :
          LET reached == Matching(table, c.method, c.path)
              fits == {k \in reached : /\ QueryAccepted(table.routes[k], c.query)
                                       /\ c.body \subseteq table.routes[k].fields}
          IN  \/ /\ fits = {}
                 /\ Refused(q, "refused")
              \/ \E k \in fits :
                    /\ req' = [req EXCEPT ![q] =
                          [Idle EXCEPT !.phase = "session", !.call = c, !.route = k]]
                    /\ seen' = [seen EXCEPT ![q] = {Moment(c.by)}]
    /\ UNCHANGED <<table, memberVars, invitations, trail, walk, now, faults>>

\* readSessionId, authenticateTenantPrincipal.
Authenticate(q) ==
    /\ req[q].phase = "session"
    /\ IF req[q].call.by \in Principal
       THEN GoesTo(q, "authority") /\ UNCHANGED seen
       ELSE Refused(q, "refused")
    /\ UNCHANGED <<table, memberVars, invitations, trail, walk, now, faults>>

\* resolve: who has no membership, or one of an unknown role, may not; nor may
\* anybody whose Organization is suspended, or who is an operator.
Resolve(q) ==
    /\ req[q].phase = "authority"
    /\ LET role == stored[req[q].call.by]
       IN  \/ /\ role \in MembershipRole
              /\ req' = [req EXCEPT ![q] = [@ EXCEPT !.role = role,
                            !.phase = IF Route(req[q]).audited THEN "charge"
                                      ELSE "authorize"]]
              /\ UNCHANGED seen
           \/ /\ role \notin MembershipRole
              /\ Refused(q, "refused")
    /\ UNCHANGED <<table, memberVars, invitations, trail, walk, now, faults>>

NotResolved(q) ==
    /\ req[q].phase \in {"session", "authority"}
    /\ \E code \in {"refused", "unavailable"} : Refused(q, code)
    /\ UNCHANGED <<table, memberVars, invitations, trail, walk, now, faults>>

\* audit.reserve.
Charged(q) ==
    /\ req[q].phase = "charge"
    /\ req' = [req EXCEPT ![q] = [@ EXCEPT !.phase = "authorize", !.charged = TRUE]]
    /\ UNCHANGED <<table, memberVars, invitations, trail, seen, walk, now, faults>>

NotCharged(q) ==
    /\ req[q].phase = "charge"
    /\ \E code \in {"refused", "unavailable"} : Refused(q, code)
    /\ UNCHANGED <<table, memberVars, invitations, trail, walk, now, faults>>

\* What this request needs: its route says, or the operation that the body
\* names; nothing if there is none of that name.
Needs(r) ==
    IF Route(r).permission.kind = "all-of" THEN {Route(r).permission.needs}
    ELSE IF r.call.id \in Confirmable(table)
    THEN {table.confirmable[r.call.id]} ELSE {}

\* An operation nobody knows is refused after the charge, without a record.
Authorize(q) ==
    /\ req[q].phase = "authorize"
    /\ \/ Needs(req[q]) = {} /\ Refused(q, "refused")
       \/ \E needs \in Needs(req[q]) :
             /\ IF Allowed(needs, Grants[req[q].role])
                THEN GoesTo(q, IF IsConfirmationGated(Route(req[q])) THEN "gate" ELSE "handle")
                ELSE Ends(q, "denied", "refused")
             /\ UNCHANGED seen
    /\ UNCHANGED <<table, memberVars, invitations, trail, walk, now, faults>>

\* confirmations.enforce: a confirmation was taken.
Confirmed(q) ==
    /\ req[q].phase = "gate"
    /\ req' = [req EXCEPT ![q] = [@ EXCEPT !.phase = "handle", !.confirmed = TRUE]]
    /\ UNCHANGED <<table, memberVars, invitations, trail, seen, walk, now, faults>>

\* It was not, or no gate was composed.
NotConfirmed(q) ==
    /\ req[q].phase = "gate"
    /\ \/ \E code \in {"refused", "unavailable"} : Ends(q, "denied", code)
       \/ Ends(q, "failed", "unavailable")
    /\ UNCHANGED <<table, memberVars, invitations, trail, seen, walk, now, faults>>

-----------------------------------------------------------------------------
\* The handlers.

\* No handler is registered; or it throws, or fails before it does anything.
NotHandled(q) ==
    /\ req[q].phase = "handle"
    /\ IF Route(req[q]).id \in Handled
       THEN \E code \in {"refused", "unavailable"} : Ends(q, "failed", code)
       ELSE Ends(q, "failed", "unavailable")
    /\ UNCHANGED <<table, memberVars, invitations, trail, seen, walk, now, faults>>

\* Any other operation than an invitation: it is done, whatever the handler
\* goes on to say about it.
Handle(q) ==
    /\ req[q].phase = "handle"
    /\ Route(req[q]).id \in Handled \ {INVITE}
    /\ \E said \in {<<"ok", "ok">>, <<"failed", "unavailable">>} :
          req' = [req EXCEPT ![q] =
                     [Decided(@, said[1], said[2]) EXCEPT !.effected = TRUE]]
    /\ UNCHANGED <<table, memberVars, invitations, trail, seen, walk, now, faults>>

\* The handler of an invitation takes the time once.
Invite(q) ==
    /\ req[q].phase = "handle"
    /\ Route(req[q]).id = INVITE /\ INVITE \in Handled
    /\ req' = [req EXCEPT ![q] = [@ EXCEPT !.phase = "ceiling", !.at = now]]
    /\ UNCHANGED <<table, memberVars, invitations, trail, seen, walk, now, faults>>

\* clearGrantCeiling: what the inviter holds is read once, by one answer of the
\* port, and the offered membership role has to lie within it.
ReadHeld(q) ==
    /\ req[q].phase = "ceiling"
    /\ LET held == HeldBy(req[q].call.by)
           offer == req[q].call.offer
       IN  IF Grants[offer.role] \subseteq held
           THEN req' = [req EXCEPT ![q] = [@ EXCEPT !.held = held, !.left = offer.custom,
                            !.phase = IF offer.custom = {} THEN "reserve" ELSE "roles"]]
           ELSE Ends(q, "failed", "refused")
    /\ UNCHANGED <<table, memberVars, invitations, trail, seen, walk, now, faults>>

\* Mutant: a custom role that is not there is taken for one that gives nothing.
MissingIsEmpty(r, permissions) ==
    permissions = Undefined \/ permissions \subseteq r.held

\* A custom role has to exist, and to lie within what was read.
WithinReach(r, permissions) ==
    permissions # Undefined /\ permissions \subseteq r.held

ReadCustomRole(q) ==
    /\ req[q].phase = "roles"
    /\ \E c \in req[q].left :
          IF WithinReach(req[q], contents[c])
          THEN req' = [req EXCEPT ![q] = [@ EXCEPT !.left = req[q].left \ {c},
                            !.phase = IF req[q].left = {c} THEN "reserve" ELSE "roles"]]
          ELSE Ends(q, "failed", "refused")
    /\ UNCHANGED <<table, memberVars, invitations, trail, seen, walk, now, faults>>

\* admission.reserve, for the sweep and for the insert.
Reserved(q) ==
    /\ req[q].phase = "reserve"
    /\ GoesTo(q, "sweep")
    /\ UNCHANGED <<table, memberVars, invitations, trail, seen, walk, now, faults>>

NotReserved(q) ==
    /\ req[q].phase = "reserve"
    /\ Ends(q, "failed", "refused")
    /\ UNCHANGED <<table, memberVars, invitations, trail, seen, walk, now, faults>>

\* A read or a statement of the handler fails, and nothing was written.
CallFails(q) ==
    /\ req[q].phase \in {"ceiling", "roles", "reserve", "sweep", "insert"}
    /\ Fault
    /\ Ends(q, "failed", "unavailable")
    /\ UNCHANGED <<table, memberVars, invitations, trail, seen, walk, now>>

Exists(i) == invitations[i] # NoInvitation

\* Mutant: an invitation lapses one instant early.
LapsedEarly(row, t) == row.status = "pending" /\ row.expires <= t + 1

\* The rows the sweep selects.
Lapsed(row, t) == row.status = "pending" /\ row.expires <= t

LapsedAt(t) == {i \in Invitation : Exists(i) /\ Lapsed(invitations[i], t)}

\* What the UPDATE makes of a row; the table's CHECK lets nothing but a pending
\* one keep an address.
Swept(row) == [row EXCEPT !.status = "expired", !.address = FALSE]

\* sweepLapsed: as many as the limit allows, whichever the table finds first.
\* Its answer may be lost.
Sweep(q) ==
    /\ req[q].phase = "sweep"
    /\ \E some \in SUBSET LapsedAt(req[q].at) :
          /\ \/ Cardinality(some) = SweepLimit
             \/ Cardinality(some) < SweepLimit /\ some = LapsedAt(req[q].at)
          /\ invitations' = [i \in Invitation |->
                IF i \in some THEN Swept(invitations[i]) ELSE invitations[i]]
    /\ \/ GoesTo(q, "insert") /\ UNCHANGED faults
       \/ Fault /\ Ends(q, "failed", "unavailable")
    /\ UNCHANGED <<table, memberVars, trail, seen, walk, now>>

\* createInvitation: the row and its custom roles are one batch, under an
\* identifier drawn at random.
Insert(q) ==
    /\ req[q].phase = "insert"
    /\ \E i \in Invitation :
          /\ ~ Exists(i)
          /\ invitations' = [invitations EXCEPT ![i] =
                [status |-> "pending", address |-> TRUE, created |-> req[q].at,
                 expires |-> req[q].at + Lifetime, offer |-> req[q].call.offer,
                 by |-> q]]
    /\ \E said \in {<<"ok", "ok">>, <<"failed", "unavailable">>} :
          /\ req' = [req EXCEPT ![q] =
                        [Decided(@, said[1], said[2]) EXCEPT !.effected = TRUE]]
          /\ IF said[1] = "ok" THEN UNCHANGED faults ELSE Fault
    /\ UNCHANGED <<table, memberVars, trail, seen, walk, now>>

-----------------------------------------------------------------------------
\* The records: recordThen.

\* A route that is not audited is answered at once.
Unrecorded(q) ==
    /\ req[q].phase = "record" /\ ~ Route(req[q]).audited
    /\ GoesTo(q, "done")
    /\ UNCHANGED <<table, memberVars, invitations, trail, seen, walk, now, faults>>

Recorded(q) ==
    /\ req[q].phase = "record" /\ Route(req[q]).audited
    /\ trail' = trail \cup {<<q, req[q].outcome>>}
    /\ GoesTo(q, "done")
    /\ UNCHANGED <<table, memberVars, invitations, seen, walk, now, faults>>

\* Mutant: whatever becomes of the record, the answer is given.
AnswerUnrecorded(r) == [r EXCEPT !.phase = "done"]

\* A record that fails takes the answer with it.
Unanswered(r) == [r EXCEPT !.phase = "done", !.answer = "unavailable"]

\* The record fails, or its answer is lost: so does the request.
NotRecorded(q) ==
    /\ req[q].phase = "record" /\ Route(req[q]).audited
    /\ Fault
    /\ \E written \in BOOLEAN :
          trail' = IF written THEN trail \cup {<<q, req[q].outcome>>} ELSE trail
    /\ req' = [req EXCEPT ![q] = Unanswered(@)]
    /\ UNCHANGED <<table, memberVars, invitations, seen, walk, now>>

-----------------------------------------------------------------------------
\* The members and the custom roles, which others change meanwhile.

\* The requests that are being served have seen this moment too.
SeenBy(member, given, defined) ==
    [q \in Req |->
        IF ~ Serving(q) THEN seen[q]
        ELSE seen[q] \cup {MomentIn(member, given, defined, req[q].call.by)}]

\* clearOwnerImmunity: nobody acts on the owner, on somebody who is no member,
\* or on a role this build does not know.
Actable(p) == stored[p] \in Offered

\* assignRole, removeMembership: ports whose receipts are the ceiling's and the
\* owner's.  Who is removed leaves the custom roles behind.
AssignRole(p) ==
    /\ changes < MaxChanges
    /\ Actable(p)
    /\ \E role \in (Offered \cup {"none"}) \ {stored[p]} :
          /\ stored' = [stored EXCEPT ![p] = role]
          /\ assigned' = IF role = "none" THEN [assigned EXCEPT ![p] = {}] ELSE assigned
          /\ seen' = SeenBy(stored', assigned', contents)
    /\ changes' = changes + 1
    /\ UNCHANGED <<table, contents, invitations, req, trail, walk, now, faults>>

\* A member is given custom roles, or they are taken away; none that is retired
\* is given.
AssignCustomRoles(p) ==
    /\ changes < MaxChanges
    /\ stored[p] # "none"
    /\ \E custom \in (SUBSET Custom) \ {assigned[p]} :
          /\ \A c \in custom \ assigned[p] : contents[c] # Undefined
          /\ assigned' = [assigned EXCEPT ![p] = custom]
          /\ seen' = SeenBy(stored, assigned', contents)
    /\ changes' = changes + 1
    /\ UNCHANGED <<table, stored, contents, invitations, req, trail, walk, now, faults>>

\* A custom role is replaced whole, or retired.
ReplaceCustomRole(c) ==
    /\ changes < MaxChanges
    /\ \E permissions \in (Definable \cup {Undefined}) \ {contents[c]} :
          /\ contents' = [contents EXCEPT ![c] = permissions]
          /\ seen' = SeenBy(stored, assigned, contents')
    /\ changes' = changes + 1
    /\ UNCHANGED <<table, stored, assigned, invitations, req, trail, walk, now, faults>>

-----------------------------------------------------------------------------
\* A client's walk through the invitations, a page a request; its dispatch is
\* like any other's and changes nothing, so its statement is the step.

\* Mutant: what was created in the same instant is taken to be listed.
FollowsByTime(i, j) == invitations[i].created < invitations[j].created

\* The order of the list: created_at descending, then the identifier.
Follows(i, j) ==
    \/ invitations[i].created < invitations[j].created
    \/ invitations[i].created = invitations[j].created /\ i > j

Listed == {i \in Invitation : Exists(i)}

\* listInvitations: the first of the rows that follow the cursor.
Page(cursor) ==
    LET after == {i \in Listed : cursor = Start \/ Follows(i, cursor)}
    IN  {i \in after : Cardinality({j \in after \ {i} : ~ Follows(j, i)}) < PageSize}

OpenWalk ==
    /\ walk.phase = "idle"
    /\ \E r \in Routes(table) : r.id = LIST
    /\ walk' = [walk EXCEPT !.phase = "open", !.first = Listed]
    /\ UNCHANGED <<table, memberVars, invitations, req, trail, seen, now, faults>>

\* The cursor is the last row of the page; there is none when nothing follows.
NextPage ==
    /\ walk.phase = "open"
    /\ LET page == Page(walk.cursor)
           last == {i \in page : \A j \in page \ {i} : Follows(i, j)}
           more == \E i \in Listed \ page :
                      /\ walk.cursor = Start \/ Follows(i, walk.cursor)
           shown == [walk EXCEPT !.twice = @ \cup (walk.shown \cap page),
                                 !.shown = @ \cup page]
       IN  walk' = IF more /\ last # {}
                   THEN [shown EXCEPT !.cursor = CHOOSE i \in last : TRUE]
                   ELSE [shown EXCEPT !.phase = "over"]
    /\ UNCHANGED <<table, memberVars, invitations, req, trail, seen, now, faults>>

-----------------------------------------------------------------------------
Tick ==
    /\ now < MaxTime
    /\ now' = now + 1
    /\ UNCHANGED <<table, memberVars, invitations, req, trail, seen, walk, faults>>

\* A table that fails a check is never served.
Init ==
    /\ table \in {t \in Tables : Registered(t)}
    /\ stored = InitialRole /\ assigned = InitialAssigned /\ contents = InitialContent
    /\ invitations = InitialInvitations
    /\ req = [q \in Req |-> Idle]
    /\ trail = {}
    /\ seen = [q \in Req |-> {}]
    /\ walk = [phase |-> "idle", cursor |-> Start, first |-> {}, shown |-> {},
               twice |-> {}]
    /\ now = 0 /\ changes = 0 /\ faults = 0

Dispatch(q) ==
    \/ Ask(q) \/ Authenticate(q) \/ Resolve(q) \/ NotResolved(q)
    \/ Charged(q) \/ NotCharged(q) \/ Authorize(q)
    \/ Confirmed(q) \/ NotConfirmed(q)

Handler(q) ==
    \/ NotHandled(q) \/ Handle(q) \/ Invite(q) \/ ReadHeld(q)
    \/ ReadCustomRole(q) \/ Reserved(q) \/ NotReserved(q) \/ CallFails(q)
    \/ Sweep(q) \/ Insert(q)

Record(q) == Unrecorded(q) \/ Recorded(q) \/ NotRecorded(q)

\* Everything has been answered.
Finished ==
    /\ \A q \in Req : req[q].phase = "done"
    /\ UNCHANGED vars

Next ==
    \/ \E q \in Req : Dispatch(q) \/ Handler(q) \/ Record(q)
    \/ \E p \in Principal : AssignRole(p) \/ AssignCustomRoles(p)
    \/ \E c \in Custom : ReplaceCustomRole(c)
    \/ OpenWalk \/ NextPage \/ Tick
    \/ Finished

Spec == Init /\ [][Next]_vars

-----------------------------------------------------------------------------
\* Properties.

Request ==
    [phase : Phase, call : Asked, route : Nat, role : Stored,
     held : SUBSET Permission, left : SUBSET Custom, at : Time,
     charged : BOOLEAN, confirmed : BOOLEAN, effected : BOOLEAN,
     outcome : Outcome, answer : Answer]

\* Every variable stays in its range: requests, rows and roles are what the
\* code's types say (TenantAdminRouteRequest, InvitationRecord).
TypeOK ==
    /\ table \in Tables
    /\ stored \in [Principal -> Stored]
    /\ assigned \in [Principal -> SUBSET Custom]
    /\ contents \in [Custom -> Definable \cup {Undefined}]
    /\ invitations \in [Invitation -> Row \cup {NoInvitation}]
    /\ req \in [Req -> Request]
    /\ trail \subseteq Req \X Outcome
    /\ seen \in [Req -> SUBSET [granted : SUBSET Permission, held : SUBSET Permission,
                                contents : [Custom -> Definable \cup {Undefined}]]]
    /\ now \in Time /\ changes \in 0 .. MaxChanges /\ faults \in 0 .. MaxFaults

\* Every table that is registered is served as it is written, though each check
\* looks at one thing and some tables fail one only: a literal path reaches the
\* route that declares it, one role can pass each route, and a critical route
\* can have its confirmation (the assertions of tenant-admin-routes.ts, against
\* matchTenantAdminRoute and dispatchTenantAdminRoute).
RegisteredIsServed == Serves(table)

\* Whatever a request did, its caller was entitled to it at one moment while it
\* was served: the whole of one conjunction of the route, within the envelope,
\* granted by its role at once, however roles changed between the reads; and a critical one
\* was confirmed, an audited one charged before (dispatchTenantAdminRoute).
EffectIsEntitled ==
    \A q \in Req : req[q].effected =>
        /\ \E s \in seen[q], needs \in Needs(req[q]) : needs \subseteq s.granted \cap Envelope
        /\ IsConfirmationGated(Route(req[q])) => req[q].confirmed
        /\ Route(req[q]).audited => req[q].charged

\* No invitation offers more than its inviter held at one moment of its request,
\* by its role and its custom roles together, though the custom roles on offer
\* are read one by one later, while others replace them, those that the inviter
\* holds among them, and while the inviter is given other roles: each of them
\* was defined and lay within that (clearGrantCeiling).
OfferWithinReach ==
    \A i \in Invitation : Exists(i) /\ invitations[i].by \in Req =>
        LET row == invitations[i]
            moments == seen[row.by]
        IN  \E s \in moments :
              /\ Grants[row.offer.role] \subseteq s.held
              /\ \A c \in row.offer.custom : \E t \in moments :
                    t.contents[c] # Undefined /\ t.contents[c] \subseteq s.held

\* Of an audited route nothing that was decided is told before the trail holds
\* it, be it a success, a refusal or a failure; and where the trail says it
\* succeeded, the caller was told so or nothing (recordThen: a record that fails
\* takes the answer with it, and one whose answer is lost too).
AnsweredAsRecorded ==
    \A q \in Req :
        req[q].phase = "done" /\ req[q].route # 0 /\ Route(req[q]).audited =>
            /\ <<q, "ok">> \in trail => req[q].answer \in {"ok", "unavailable"}
            /\ req[q].answer # "unavailable" /\ req[q].outcome # "none" =>
                  <<q, req[q].outcome>> \in trail

\* A client that walks the list to its end has been shown every invitation there
\* was when it began, and none twice, whatever was created or swept meanwhile
\* and however many share one instant (listInvitations).
WalkIsWhole ==
    /\ walk.twice = {}
    /\ walk.phase = "over" => walk.first \subseteq walk.shown

\* effectiveInvitationStatus: what a reader is told of an invitation at t.
StatusAt(row, t) ==
    IF row # NoInvitation /\ row.status = "pending" /\ row.expires <= t
    THEN "expired" ELSE row.status

\* The invitations end by the clock alone, at the instant that was fixed when
\* they were made, though no row says so until a sweep passes, and that sweep
\* goes by the time its request read earlier; and an address is forgotten only
\* after that (effectiveInvitationStatus, sweepLapsed, createInvitation).
Lives == INSTANCE InvitationLives WITH
    Never <- -1,
    ends <- [i \in Invitation |-> IF Exists(i) THEN invitations[i].expires ELSE -1],
    life <- [i \in Invitation |-> StatusAt(invitations[i], now)],
    address <- [i \in Invitation |-> Exists(i) /\ invitations[i].address]

ImplementsLives == Lives!Spec
=============================================================================
