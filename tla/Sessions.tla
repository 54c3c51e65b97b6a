------------------------------ MODULE Sessions ------------------------------
(***************************************************************************)
(* Sessions of the control plane, and the reset of a credential.           *)
(*                                                                         *)
(* A login verifies a key, reads the principal, reserves row writes and    *)
(* inserts a session.  A request that presents a session has it resolved:  *)
(* the session row, the principal, the membership and the Organization are *)
(* read one after the other.  A session is turned to an Organization by a  *)
(* selection, and ended by a logout.  An operator's reset of a credential  *)
(* lists the live sessions of its target, reserves, and in one batch       *)
(* replaces the verifier and deletes the sessions it has listed; then it   *)
(* leaves a record with every Organization of the target.                  *)
(*                                                                         *)
(* Principals, memberships, Organizations and operators may be changed by  *)
(* others between any two of these steps.                                  *)
(***************************************************************************)
EXTENDS Integers, Sequences, FiniteSets

CONSTANTS
    Principal,
    Org,
    First,           \* the sessions there are at first
    Req,             \* requests; each is served once
    Asked,           \* bound: the calls that are made
    InitialSessions, \* the session table to begin with
    InitialMembers,  \* the membership table to begin with
    Lifetime,        \* the lifetime of a session
    LastTime,        \* bound: the clock runs over 0..LastTime
    MaxRevoked,      \* MAX_REVOKED_SESSIONS
    MaxChanges,      \* bound: how often a principal, membership, ... changes
    MaxFaults        \* bound: how many calls fail

\* A login opens the session of its own name, a reset gives the key of its own
\* name: both are generated for the request.
Sid == First \cup Req
Key == {"first"} \cup Req
Time == 0 .. LastTime
Expiry == 0 .. LastTime + Lifetime

\* An absent row is "unopened" before and "ended" after it was stored; no
\* statement can tell one from the other.  key: history, what opened it.
Session == [state : {"unopened", "stored", "ended"}, by : Principal,
            org : Org \cup {"none"}, expires : Expiry, key : Key]

MembershipStatus == {"none", "active", "suspended"}

\* What a request may ask.
Call ==
    [kind : {"login"}, target : Principal, key : Key]
        \cup [kind : {"resolve", "principal", "enterable", "logout"}, sid : Sid]
        \cup [kind : {"select"}, sid : Sid, org : Org]
        \cup [kind : {"reset"}, target : Principal]

ASSUME SessionsAssumption ==
    /\ First \cap Req = {} /\ "first" \notin Req
    /\ "none" \notin Org
    /\ Principal # {}
    /\ Asked \subseteq Call
    /\ Lifetime \in Nat \ {0}
    /\ InitialSessions \in [Sid -> Session]
    /\ \A s \in Sid : InitialSessions[s].state =
                        (IF s \in First THEN "stored" ELSE "unopened")
    /\ \A s \in First : /\ InitialSessions[s].expires <= Lifetime
                        /\ InitialSessions[s].key = "first"
    /\ InitialMembers \in [Principal -> [Org -> MembershipStatus]]
    /\ LastTime \in Nat
    /\ MaxRevoked \in Nat \ {0}
    /\ MaxChanges \in Nat
    /\ MaxFaults \in Nat

VARIABLES
    clock,
    sessions,      \* sessions[s]: the row of session s
    keys,          \* keys[p]: the verifiers of p, the last one being stored
    principals,    \* the principals that are active
    operators,     \* the rows of platform_operator
    members,       \* members[p][o]: the membership of p in o
    organizations, \* the Organizations that are active
    told,          \* audit_event of the tenants: <<o, q>>, o learned of reset q
    req,           \* req[q]: the request q
    missing,       \* history: missing[q], what was never so since q began
    changes, faults

standing == <<principals, operators, members, organizations>>
vars == <<clock, sessions, keys, standing, told, req, missing, changes, faults>>

-----------------------------------------------------------------------------
\* Requests.

Phase == {"idle", "verify", "session", "principal", "membership",
          "organization", "memberships", "find", "operator", "credential",
          "list", "reserve", "insert", "update", "delete", "batch", "inform",
          "tell", "done"}

Answer == {"none", "issued", "refused", "authenticated", "not_selected",
           "principal", "enterable", "selected", "cleared", "reset",
           "unauthenticated", "not_found", "forbidden", "quota_exceeded",
           "unavailable"}

\* who, org: the principal and Organization in question; at: the clock reading
\* of a reset; expires: of the session to insert; set: the sessions a reset
\* listed, or the Organizations it has yet to tell or a listing answered;
\* known, excused: history, the sessions there were when a reset listed, and
\* those it may leave; took: history, the write was made; hindered: history, a
\* logout whose result was not ok.
Idle == [phase |-> "idle", call |-> [kind |-> "none"],
         who |-> CHOOSE p \in Principal : TRUE, org |-> "none", at |-> 0,
         expires |-> 0, set |-> {}, known |-> {}, excused |-> {},
         took |-> FALSE, hindered |-> FALSE, answer |-> "none"]

Kind(q) == req[q].call.kind

Goto(q, r) == req' = [req EXCEPT ![q] = r]

Stored(s) == sessions[s].state = "stored"
Live(s) == Stored(s) /\ sessions[s].expires > clock
Of(p) == {s \in Sid : Stored(s) /\ sessions[s].by = p}
Enrolled(p) == {o \in Org : members[p][o] # "none"}
Verifier(p) == keys[p][Len(keys[p])]

\* A principal that is an operator and also holds a membership is refused.
InBothTables(p) == p \in operators /\ Enrolled(p) # {}

Fault == faults < MaxFaults /\ faults' = faults + 1

\* History: what a request may rely on, as <<name, Organization>>.

Fact == ({"live", "key", "active", "apart", "tenant"} \X {"none"})
            \cup ({"member", "enrolled", "open"} \X Org)

\* Whose session, or credential, a call is about.
Subject(c) ==
    IF c.kind \in {"login", "reset"} THEN c.target ELSE sessions[c.sid].by

\* What the answer to call c may rely on.
Relevant(c) ==
    CASE c.kind = "login"     -> {"key", "active", "apart"} \X {"none"}
      [] c.kind = "principal" -> {"live", "active"} \X {"none"}
      [] c.kind = "enterable" -> (({"live", "active", "apart"} \X {"none"})
                                    \cup ({"member"} \X Org))
      [] c.kind = "select"    -> (({"live", "active", "apart"} \X {"none"})
                                    \cup ({"member", "open"} \X {c.org}))
      [] c.kind = "resolve"   -> (({"live", "active", "apart"} \X {"none"})
                                    \cup ({"member", "open"} \X Org))
      [] c.kind = "reset"     -> {<<"tenant", "none">>} \cup ({"enrolled"} \X Org)
      [] OTHER                -> {}

\* Whether it is so now of what call c is about.
IsSo(c, name, o) ==
    LET p == Subject(c) IN
    CASE name = "live"     -> Live(c.sid)
      [] name = "key"      -> Verifier(p) = c.key
      [] name = "active"   -> p \in principals
      [] name = "apart"    -> ~ InBothTables(p)
      [] name = "tenant"   -> p \notin operators
      [] name = "member"   -> members[p][o] = "active"
      [] name = "enrolled" -> o \in Enrolled(p)
      [] name = "open"     -> o \in organizations

NotSo(c) == {f \in Relevant(c) : ~ IsSo(c, f[1], f[2])}

\* missing[q] is what has not been so in any state since q began.
MissingNext ==
    missing' = [q \in Req |->
        IF req'[q].phase \in {"idle", "done"} THEN {}
        ELSE IF req[q].phase = "idle" THEN NotSo(req[q].call)'
        ELSE IF missing[q] = {} THEN {}
        ELSE missing[q] \cap NotSo(req[q].call)']

\* The answer of a request, which then holds only what it is judged by.
Answered(r, answer) ==
    [r EXCEPT !.phase = "done", !.answer = answer, !.at = 0, !.expires = 0]

\* The result of a logout is discarded: its caller is told one thing always.
Refused(r, code) ==
    CASE r.call.kind = "logout" -> [Answered(r, "cleared") EXCEPT !.hindered = TRUE]
      [] r.call.kind = "login"  ->
            Answered(r, IF code = "unauthenticated" THEN "refused" ELSE "unavailable")
      [] OTHER -> Answered(r, code)

\* A client presents a session it was given, or a key it knows.
Given(c) ==
    /\ c.kind \notin {"login", "reset"} /\ c.sid \in Req
          => req[c.sid].answer = "issued"
    /\ c.kind = "login" /\ c.key # "first" => Kind(c.key) = "reset"

EntryPhase == [login |-> "verify", resolve |-> "session", principal |-> "session",
               enterable |-> "session", select |-> "session", logout |-> "find",
               reset |-> "operator"]

Ask(q) ==
    /\ req[q].phase = "idle"
    /\ \E c \in Asked :
          /\ Given(c)
          /\ Goto(q, [Idle EXCEPT !.phase = EntryPhase[c.kind], !.call = c,
                                  !.at = IF c.kind = "reset" THEN clock ELSE 0])
    /\ UNCHANGED <<clock, sessions, keys, standing, told, changes, faults>>
    /\ MissingNext

-----------------------------------------------------------------------------
\* What is read.

\* verify: one read of the credential row.
Verify(q) ==
    /\ req[q].phase = "verify"
    /\ LET r == req[q] IN
       Goto(q, IF Verifier(r.call.target) = r.call.key
               THEN [r EXCEPT !.phase = "principal", !.who = r.call.target]
               ELSE Answered(r, "refused"))
    /\ UNCHANGED <<clock, sessions, keys, standing, told, changes, faults>>
    /\ MissingNext

\* liveSessionUnrefused, its first read.
FindSession(q) ==
    /\ req[q].phase = "session"
    /\ LET r == req[q] IN
       Goto(q, IF ~ Live(r.call.sid) THEN Refused(r, "unauthenticated")
               ELSE [r EXCEPT !.phase = "principal",
                              !.who = sessions[r.call.sid].by,
                              !.org = IF r.call.kind = "select" THEN r.call.org
                                      ELSE sessions[r.call.sid].org])
    /\ UNCHANGED <<clock, sessions, keys, standing, told, changes, faults>>
    /\ MissingNext

\* Mutant: a principal in both tables is let in.
AdmittedInBoth(r) == r.who \in principals

\* Only resolvePrincipalId leaves the two tables to its caller.
AdmittedPrincipal(r) ==
    r.who \in principals /\ (r.call.kind # "principal" => ~ InBothTables(r.who))

\* What follows the principal.
Onward(r) ==
    CASE r.call.kind = "login"     -> [r EXCEPT !.phase = "reserve"]
      [] r.call.kind = "principal" -> Answered(r, "principal")
      [] r.call.kind = "enterable" -> [r EXCEPT !.phase = "memberships"]
      [] r.call.kind = "resolve" /\ r.org = "none" -> Answered(r, "not_selected")
      [] OTHER -> [r EXCEPT !.phase = "membership"]

FindPrincipal(q) ==
    /\ req[q].phase = "principal"
    /\ LET r == req[q] IN
       Goto(q, IF AdmittedPrincipal(r) THEN Onward(r)
               ELSE Refused(r, "unauthenticated"))
    /\ UNCHANGED <<clock, sessions, keys, standing, told, changes, faults>>
    /\ MissingNext

\* findMembershipWithOrganization: the membership first ...
FindMembership(q) ==
    /\ req[q].phase = "membership"
    /\ LET r == req[q] IN
       Goto(q, IF members[r.who][r.org] = "active"
               THEN [r EXCEPT !.phase = "organization"]
               ELSE Answered(r, IF r.call.kind = "resolve"
                                THEN "not_selected" ELSE "not_found"))
    /\ UNCHANGED <<clock, sessions, keys, standing, told, changes, faults>>
    /\ MissingNext

\* ... and then its Organization.
FindOrganization(q) ==
    /\ req[q].phase = "organization"
    /\ LET r == req[q] IN
       Goto(q, IF r.org \notin organizations THEN Answered(r, "unavailable")
               ELSE IF r.call.kind = "resolve" THEN Answered(r, "authenticated")
               ELSE [r EXCEPT !.phase = "reserve"])
    /\ UNCHANGED <<clock, sessions, keys, standing, told, changes, faults>>
    /\ MissingNext

\* listEnterableOrganizations: the active memberships, whatever became of
\* their Organizations.
ListEnterable(q) ==
    /\ req[q].phase = "memberships"
    /\ LET r == req[q] IN
       Goto(q, [Answered(r, "enterable") EXCEPT
                  !.set = {o \in Org : members[r.who][o] = "active"}])
    /\ UNCHANGED <<clock, sessions, keys, standing, told, changes, faults>>
    /\ MissingNext

\* Mutant: only a session that still authenticates can be ended.
FindLiveToRevoke(r) == Live(r.call.sid) /\ sessions[r.call.sid].by \in principals

\* revokeSession reads the row itself, expired or not, whoever it belongs to.
FindToRevoke(r) == Stored(r.call.sid)

FindForLogout(q) ==
    /\ req[q].phase = "find"
    /\ LET r == req[q] IN
       Goto(q, IF FindToRevoke(r)
               THEN [r EXCEPT !.phase = "reserve", !.who = sessions[r.call.sid].by]
               ELSE Answered(r, "cleared"))
    /\ UNCHANGED <<clock, sessions, keys, standing, told, changes, faults>>
    /\ MissingNext

\* The target of a reset must not be an operator ...
FindOperator(q) ==
    /\ req[q].phase = "operator"
    /\ LET r == req[q] IN
       Goto(q, IF r.call.target \in operators THEN Refused(r, "forbidden")
               ELSE [r EXCEPT !.phase = "credential", !.who = r.call.target])
    /\ UNCHANGED <<clock, sessions, keys, standing, told, changes, faults>>
    /\ MissingNext

\* ... and the identifier that is submitted must be its own.
FindCredential(q) ==
    /\ req[q].phase = "credential"
    /\ \/ Goto(q, [req[q] EXCEPT !.phase = "list"])
       \/ Goto(q, Refused(req[q], "not_found"))
    /\ UNCHANGED <<clock, sessions, keys, standing, told, changes, faults>>
    /\ MissingNext

\* The sessions of p that had not expired when the reset began.
LiveAt(p, at) == {s \in Of(p) : sessions[s].expires > at}

\* listLiveSessionIds: the oldest ones, up to the cap.  The lifetime is the
\* same for all, so the order of creation is that of expiry.
ListLive(q) ==
    /\ req[q].phase = "list"
    /\ LET r == req[q]
           all == LiveAt(r.who, r.at) IN
       \E listed \in SUBSET all :
          /\ listed = all \/ Cardinality(listed) = MaxRevoked
          /\ Cardinality(listed) <= MaxRevoked
          /\ \A s \in listed, t \in all \ listed :
                sessions[s].expires <= sessions[t].expires
          /\ Goto(q, [r EXCEPT !.phase = "reserve", !.set = listed,
                               !.known = Of(r.who), !.excused = all \ listed])
    /\ UNCHANGED <<clock, sessions, keys, standing, told, changes, faults>>
    /\ MissingNext

-----------------------------------------------------------------------------
\* What is written.

WritePhase(r) ==
    CASE r.call.kind = "login"  -> "insert"
      [] r.call.kind = "select" -> "update"
      [] r.call.kind = "logout" -> "delete"
      [] r.call.kind = "reset"  -> "batch"

\* The expiry of a new session is counted from the clock as it is read once the
\* row writes are granted.
ExpiryOf(r) == IF r.call.kind = "login" THEN clock + Lifetime ELSE 0

\* The row writes are granted, or deferred.
Reserve(q) ==
    /\ req[q].phase = "reserve"
    /\ LET r == req[q] IN
       \/ Goto(q, [r EXCEPT !.phase = WritePhase(r), !.expires = ExpiryOf(r)])
       \/ Goto(q, Refused(r, "quota_exceeded"))
    /\ UNCHANGED <<clock, sessions, keys, standing, told, changes, faults>>
    /\ MissingNext

\* A write was made; its answer may be lost.
Wrote(q, answer) ==
    LET r == [req[q] EXCEPT !.took = TRUE] IN
    \/ Goto(q, Answered(r, answer)) /\ UNCHANGED faults
    \/ Goto(q, Refused(r, "unavailable")) /\ Fault

\* createSession.
Insert(q) ==
    /\ req[q].phase = "insert"
    /\ LET r == req[q] IN
       sessions' = [sessions EXCEPT ![q] =
          [state |-> "stored", by |-> r.who, org |-> "none",
           expires |-> r.expires, key |-> r.call.key]]
    /\ Wrote(q, "issued")
    /\ UNCHANGED <<clock, keys, standing, told, changes>>
    /\ MissingNext

\* Mutant: the row is written back as it was read.
UpdatedWhole(row, o) == [row EXCEPT !.state = "stored", !.org = o]

\* An update finds its row or changes nothing.
Updated(row, o) == IF row.state = "stored" THEN [row EXCEPT !.org = o] ELSE row

\* setSessionActiveOrganization: it is not told whether the row was there.
Update(q) ==
    /\ req[q].phase = "update"
    /\ LET r == req[q] IN
       sessions' = [sessions EXCEPT ![r.call.sid] = Updated(@, r.org)]
    /\ Wrote(q, "selected")
    /\ UNCHANGED <<clock, keys, standing, told, changes>>
    /\ MissingNext

\* The rows of a set are deleted; those that are gone already stay so.
Deleted(gone) ==
    [s \in Sid |-> IF s \in gone /\ Stored(s)
                   THEN [sessions[s] EXCEPT !.state = "ended"] ELSE sessions[s]]

\* deleteSession.
Delete(q) ==
    /\ req[q].phase = "delete"
    /\ sessions' = Deleted({req[q].call.sid})
    /\ Wrote(q, "cleared")
    /\ UNCHANGED <<clock, keys, standing, told, changes>>
    /\ MissingNext

\* The logins of p that are past the verification of their key.
Verified(p) ==
    {l \in Req : /\ req[l].call.kind = "login" /\ req[l].who = p
                 /\ req[l].phase \in {"principal", "reserve", "insert"}}

\* Mutants: nothing that was listed is deleted; all sessions are, whosever.
ResetDeletesNone(r) == {}
ResetDeletesAll(r) == {s \in Sid : Stored(s)}

\* The sessions a reset deletes: those it listed.
ResetDeletes(r) == r.set

\* resetCredential: verifier and sessions in one batch.  What the listing had
\* not seen is left: sessions inserted since, and those of logins on their way.
Replace(q) ==
    /\ req[q].phase = "batch"
    /\ LET r == req[q]
           late == Of(r.who) \ r.known
           batch == [r EXCEPT !.took = TRUE, !.known = {},
                              !.excused = @ \cup Verified(r.who) \cup late] IN
       /\ sessions' = Deleted(ResetDeletes(r))
       /\ keys' = [keys EXCEPT ![r.who] = Append(@, q)]
       /\ \/ Goto(q, [batch EXCEPT !.phase = "inform", !.set = {}])
             /\ UNCHANGED faults
          \/ Goto(q, Refused(batch, "unavailable")) /\ Fault
    /\ UNCHANGED <<clock, standing, told, changes>>
    /\ MissingNext

\* listMembershipsForPrincipal: from here on nothing fails the reset.
Inform(q) ==
    /\ req[q].phase = "inform"
    /\ LET r == req[q] IN
       \/ /\ Goto(q, [r EXCEPT !.phase = "tell", !.set = Enrolled(r.who)])
          /\ UNCHANGED faults
       \/ Goto(q, Answered(r, "reset")) /\ Fault
    /\ UNCHANGED <<clock, sessions, keys, standing, told, changes>>
    /\ MissingNext

\* recordInOrganization: the record is written, or refused by the tenant's
\* budget or a failure, and the next Organization follows.
Tell(q) ==
    /\ req[q].phase = "tell" /\ req[q].set # {}
    /\ \E o \in req[q].set :
          /\ Goto(q, [req[q] EXCEPT !.set = @ \ {o}])
          /\ told' \in {told, told \cup {<<o, q>>}}
    /\ UNCHANGED <<clock, sessions, keys, standing, changes, faults>>
    /\ MissingNext

ResetDone(q) ==
    /\ req[q].phase = "tell" /\ req[q].set = {}
    /\ Goto(q, Answered(req[q], "reset"))
    /\ UNCHANGED <<clock, sessions, keys, standing, told, changes, faults>>
    /\ MissingNext

\* A call fails before it took effect.
CallFails(q) ==
    /\ req[q].phase \notin {"idle", "inform", "tell", "done"}
    /\ Fault
    /\ Goto(q, Refused(req[q], "unavailable"))
    /\ UNCHANGED <<clock, sessions, keys, standing, told, changes>>
    /\ MissingNext

-----------------------------------------------------------------------------
\* What others change: the status of principals, memberships, Organizations,
\* and the table of operators.

Toggle(set, x) == IF x \in set THEN set \ {x} ELSE set \cup {x}

Administer ==
    /\ changes < MaxChanges
    /\ changes' = changes + 1
    /\ \/ /\ \E p \in Principal : principals' = Toggle(principals, p)
          /\ UNCHANGED <<operators, members, organizations>>
       \/ /\ \E p \in Principal : operators' = Toggle(operators, p)
          /\ UNCHANGED <<principals, members, organizations>>
       \/ /\ \E p \in Principal, o \in Org, status \in MembershipStatus :
                members' = [members EXCEPT ![p][o] = status]
          /\ UNCHANGED <<principals, operators, organizations>>
       \/ /\ \E o \in Org : organizations' = Toggle(organizations, o)
          /\ UNCHANGED <<principals, operators, members>>
    /\ UNCHANGED <<clock, sessions, keys, told, req, faults>>
    /\ MissingNext

Tick ==
    /\ clock < LastTime
    /\ clock' = clock + 1
    /\ UNCHANGED <<sessions, keys, standing, told, req, changes, faults>>
    /\ MissingNext

-----------------------------------------------------------------------------
Init ==
    /\ clock = 0
    /\ sessions = InitialSessions
    /\ keys = [p \in Principal |-> <<"first">>]
    /\ principals = Principal
    /\ operators = {}
    /\ members = InitialMembers
    /\ organizations = Org
    /\ told = {}
    /\ req = [q \in Req |-> Idle]
    /\ missing = [q \in Req |-> {}]
    /\ changes = 0 /\ faults = 0

Step(q) ==
    \/ Ask(q) \/ Verify(q) \/ FindSession(q) \/ FindPrincipal(q)
    \/ FindMembership(q) \/ FindOrganization(q) \/ ListEnterable(q)
    \/ FindForLogout(q) \/ FindOperator(q) \/ FindCredential(q) \/ ListLive(q)
    \/ Reserve(q) \/ Insert(q) \/ Update(q) \/ Delete(q) \/ Replace(q)
    \/ Inform(q) \/ Tell(q) \/ ResetDone(q) \/ CallFails(q)

Next == Tick \/ Administer \/ \E q \in Req : Step(q)

Spec == Init /\ [][Next]_vars

-----------------------------------------------------------------------------
\* Properties.

Request == [phase : Phase, call : Call \cup {[kind |-> "none"]},
            who : Principal, org : Org \cup {"none"}, at : Time, expires : Expiry,
            set : SUBSET (Sid \cup Org), known : SUBSET Sid,
            excused : SUBSET Sid, took : BOOLEAN, hindered : BOOLEAN,
            answer : Answer]

\* Everything has its type.
TypeOK ==
    /\ clock \in Time
    /\ sessions \in [Sid -> Session]
    /\ keys \in [Principal -> Seq(Key)]
    /\ principals \subseteq Principal
    /\ operators \subseteq Principal
    /\ members \in [Principal -> [Org -> MembershipStatus]]
    /\ organizations \subseteq Org
    /\ told \subseteq Org \X Req
    /\ req \in [Req -> Request]
    /\ missing \in [Req -> SUBSET Fact]
    /\ changes \in Nat
    /\ faults \in Nat

\* What the answer of r says to be so.
Relied(r) ==
    LET person == {<<"live", "none">>, <<"active", "none">>, <<"apart", "none">>}
        place == {<<"member", r.org>>, <<"open", r.org>>} IN
    CASE r.answer \in {"authenticated", "selected"} -> person \cup place
      [] r.answer = "not_selected" -> person
      [] r.answer = "principal"    -> {<<"live", "none">>, <<"active", "none">>}
      [] r.answer = "enterable"    -> person \cup ({"member"} \X r.set)
      [] r.answer = "issued"       ->
            {<<"key", "none">>, <<"active", "none">>, <<"apart", "none">>}
      [] r.answer = "reset"        -> {<<"tenant", "none">>}
      [] OTHER -> {}

RelyStep ==
    \A q \in Req :
        /\ (req[q].phase # "done" /\ req'[q].phase = "done") =>
              Relied(req'[q]) \cap missing[q] = {}
        /\ \A o \in Org : <<o, q>> \in told' \ told =>
              <<"enrolled", o>> \notin missing[q]

\* Nobody is authenticated, logged in, turned to an Organization, shown or
\* told one, or reset, on something that was not so at any moment since the
\* request began: what was withdrawn before it, and stayed withdrawn, counts,
\* however the reads of other things went (liveSession, validateHint, resolve,
\* issueSession, reset).
AnswersWereTrue == [][RelyStep]_vars

\* After a reset a live session of its target was opened with the new key, or
\* a newer one; or it is beyond the cap of the listing; or its login had
\* verified the old key and overlapped the reset.  No other session survives,
\* and the old key opens none (reset, listLiveSessionIds, resetCredential).
ResetEndsOldKeys ==
    \A q \in Req : (Kind(q) = "reset" /\ req[q].took) =>
        LET p == req[q].who IN
        \A s \in Of(p) :
            \/ ~ Live(s)
            \/ s \in req[q].excused
            \/ \E i, j \in DOMAIN keys[p] :
                  i <= j /\ keys[p][i] = q /\ keys[p][j] = sessions[s].key

\* A session that was logged out is gone, be it expired, its principal
\* suspended or in both tables, unless its logout was deferred or failed; and
\* a selection on its way does not bring it back (revokeSession).
LogoutEnds ==
    \A q \in Req :
        (req[q].answer = "cleared" /\ ~ req[q].hindered) => ~ Stored(req[q].call.sid)

\* The session table, without the requests and the keys, keeps the promise of
\* SessionLives: a row is opened once, for one principal and for no longer than
\* a lifetime, stays its principal's, and ends for good (createSession,
\* setSessionActiveOrganization, deleteSession, resetCredential).
Lives == INSTANCE SessionLives WITH
    life <- [s \in Sid |-> [state |-> sessions[s].state, by |-> sessions[s].by,
                            org |-> sessions[s].org,
                            expires |-> sessions[s].expires]]

ImplementsLives == Lives!Spec
=============================================================================
