-------------------------- MODULE TenantAdminProofs --------------------------
(* What a tenant administration request may do and what its trail says, for  *)
(* any route tables, roles, members, calls and number of requests.           *)
EXTENDS TenantAdmin, FiniteSetTheorems, TLAPS

\* The phases a request passes, from the last to the first: each set holds those
\* from some check on.
Writing == {"reserve", "sweep", "insert"}
Offering == {"roles"} \cup Writing
Working == {"handle", "ceiling"} \cup Offering
Passed == {"gate"} \cup Working
Judged == {"charge", "authorize"} \cup Passed
Ended == {"record", "done"}

\* What one request would have to be entitled to, at one of the moments.
Entitled(r, moments) ==
    \E s \in moments, needs \in Needs(r) : needs \subseteq s.granted \cap Envelope

\* Custom role c was once defined and within held.
Lay(c, held, moments) ==
    \E t \in moments : t.contents[c] # Undefined /\ t.contents[c] \subseteq held

\* An offer that lies within what was held at one of the moments.
Within(offer, moments) ==
    \E s \in moments :
        /\ Grants[offer.role] \subseteq s.held
        /\ \A c \in offer.custom : Lay(c, s.held, moments)

\* The role a request goes by was its caller's while it was served.
RoleSound(r, moments) ==
    r.phase \in Judged =>
        /\ r.role \in MembershipRole
        /\ \E s \in moments : s.granted = Grants[r.role]

\* The checks behind it were passed.
ChecksSound(r) ==
    /\ r.phase = "authority" => r.call.by \in Principal
    /\ r.phase \in Passed => \E needs \in Needs(r) : Allowed(needs, Grants[r.role])
    /\ (r.phase \in Passed \cup {"authorize"} /\ Route(r).audited) => r.charged
    /\ (r.phase \in Working /\ IsConfirmationGated(Route(r))) => r.confirmed

\* What was done, was done by one that passed them all.
EffectSound(r, moments) ==
    r.effected => /\ r.phase \in Ended
                  /\ Entitled(r, moments)
                  /\ IsConfirmationGated(Route(r)) => r.confirmed
                  /\ Route(r).audited => r.charged

\* What was read for the ceiling, and what is still to be compared with it.
OfferSound(r, moments) ==
    /\ r.phase \in Offering =>
          /\ \E s \in moments : /\ s.held = r.held
                                /\ Grants[r.call.offer.role] \subseteq s.held
          /\ \A c \in r.call.offer.custom \ r.left : Lay(c, r.held, moments)
    /\ r.phase \in Writing => r.left = {}

Sound(r, moments) ==
    /\ RoleSound(r, moments) /\ ChecksSound(r)
    /\ EffectSound(r, moments) /\ OfferSound(r, moments)

\* The present is one of the moments.
Present(r, moments) ==
    r.phase \notin {"idle", "done"} => Moment(r.call.by) \in moments

\* What trail t holds of request q, being r.
Traced(q, r, t) ==
    /\ r.phase \notin Ended => r.outcome = "none"
    /\ \A o \in Outcome : <<q, o>> \in t => r.phase = "done" /\ r.outcome = o
    /\ r.phase \in Ended => (r.outcome = "ok" => r.answer \in {"ok", "unavailable"})
    /\ (r.phase = "done" /\ r.route # 0 /\ Route(r).audited) =>
          (r.answer # "unavailable" /\ r.outcome # "none" => <<q, r.outcome>> \in t)

\* An invitation by a request: that request has done its work.
Backed(row) ==
    (row # NoInvitation /\ row.by \in Req) =>
        /\ req[row.by].phase \in Ended
        /\ Within(row.offer, seen[row.by])

IInv ==
    /\ TypeOK
    /\ \A q \in Req : Sound(req[q], seen[q])
    /\ \A q \in Req : Present(req[q], seen[q])
    /\ \A q \in Req : Traced(q, req[q], trail)
    /\ \A i \in Invitation : Backed(invitations[i])

-----------------------------------------------------------------------------
\* The moments there can be.
Moments == [granted : SUBSET Permission, held : SUBSET Permission,
            contents : [Custom -> Definable \cup {Undefined}]]

LEMMA HeldType == \A role \in Stored : Held(role) \subseteq Permission
  BY AdminAssumption, RoutesAssumption DEF Held

\* What a member holds, with the custom roles that are defined.
LEMMA EffectiveType ==
    ASSUME NEW role \in Stored, NEW custom \in SUBSET Custom,
           NEW defined \in [Custom -> Definable \cup {Undefined}]
    PROVE  Effective(role, custom, defined) \subseteq Permission
  <1>1. \A c \in custom : defined[c] # Undefined => defined[c] \subseteq Permission
    BY AdminAssumption
  <1>2. QED
    BY <1>1, HeldType DEF Effective

LEMMA MomentInType ==
    ASSUME NEW member \in [Principal -> Stored],
           NEW given \in [Principal -> SUBSET Custom],
           NEW defined \in [Custom -> Definable \cup {Undefined}], NEW p
    PROVE  MomentIn(member, given, defined, p) \in Moments
  <1>1. CASE p \in Principal
    <2>1. member[p] \in Stored /\ given[p] \in SUBSET Custom
      BY <1>1
    <2>2. Held(member[p]) \subseteq Permission
      BY <2>1, HeldType
    <2>3. Effective(member[p], given[p], defined) \subseteq Permission
      BY <2>1, EffectiveType
    <2>4. QED
      BY <1>1, <2>2, <2>3 DEF MomentIn, Moments
  <1>2. CASE p \notin Principal
    BY <1>2 DEF MomentIn, Moments
  <1>3. QED
    BY <1>1, <1>2

LEMMA MomentType ==
    ASSUME TypeOK, NEW p
    PROVE  Moment(p) \in Moments
  BY MomentInType DEF Moment, TypeOK

LEMMA IdleType ==
    /\ Idle \in Request /\ Idle.phase = "idle" /\ Idle.outcome = "none"
    /\ ~ Idle.effected /\ Idle.route = 0
  <1>1. (CHOOSE c \in Asked : TRUE) \in Asked
    BY AdminAssumption
  <1>2. 0 \in Time /\ 0 \in Nat
    BY AdminAssumption DEF Time
  <1>3. QED
    BY <1>1, <1>2 DEF Idle, Request, Phase, Stored, Outcome, Answer

\* A request that was refused before its outcome was decided.
Shut(code) == [Idle EXCEPT !.phase = "done", !.answer = code]

LEMMA ShutLemma ==
    ASSUME NEW code \in {"refused", "unavailable"}, NEW q
    PROVE  /\ Shut(code) \in Request
           /\ Sound(Shut(code), {}) /\ Present(Shut(code), {})
           /\ \A t : (\A o \in Outcome : <<q, o>> \notin t) => Traced(q, Shut(code), t)
  <1> DEFINE y == Shut(code)
  <1>1. y \in Request /\ y.phase = "done" /\ y.outcome = "none" /\ ~ y.effected
        /\ y.answer = code /\ y.route = 0
    BY IdleType DEF Shut, Request, Phase, Answer
  <1> HIDE DEF y
  <1>2. Sound(y, {})
    BY <1>1 DEF Sound, RoleSound, ChecksSound, EffectSound, OfferSound, Judged,
                Passed, Working, Offering, Writing
  <1>3. Present(y, {})
    BY <1>1 DEF Present
  <1>4. ASSUME NEW t, \A o \in Outcome : <<q, o>> \notin t
        PROVE  Traced(q, y, t)
    BY <1>1, <1>4 DEF Traced, Ended
  <1>5. QED
    BY <1>1, <1>2, <1>3, <1>4 DEF y

LEMMA DecidedLemma ==
    ASSUME NEW r \in Request, NEW outcome \in Outcome, NEW code \in Answer
    PROVE  LET x == Decided(r, outcome, code) IN
           /\ x \in Request /\ x.phase = "record"
           /\ x.outcome = outcome /\ x.answer = code
           /\ x.call = r.call /\ x.route = r.route /\ x.charged = r.charged
           /\ x.confirmed = r.confirmed /\ x.effected = r.effected
  <1>1. "none" \in Stored /\ 0 \in Time
    BY AdminAssumption DEF Stored, Time
  <1>2. QED
    BY <1>1 DEF Decided, Request, Phase

LEMMA SameNeeds ==
    ASSUME NEW r, NEW x, x.call = r.call, x.route = r.route
    PROVE  Route(x) = Route(r) /\ Needs(x) = Needs(r)
  BY DEF Route, Needs

\* More moments take nothing away.
LEMMA MoreMoments ==
    ASSUME NEW r, NEW m, NEW n, m \subseteq n, Sound(r, m)
    PROVE  Sound(r, n)
  BY DEF Sound, RoleSound, ChecksSound, EffectSound, OfferSound, Entitled, Lay

LEMMA MoreWithin ==
    ASSUME NEW offer, NEW m, NEW n, m \subseteq n, Within(offer, m)
    PROVE  Within(offer, n)
  BY DEF Within, Lay

\* The table stays, so what is said of a request stays true of it.
LEMMA TableStays ==
    ASSUME UNCHANGED table, NEW r, NEW m
    PROVE  /\ Sound(r, m) => Sound(r, m)'
           /\ \A q, t : Traced(q, r, t) => Traced(q, r, t)'
           /\ Within(r, m) => Within(r, m)'
  <1>1. Route(r)' = Route(r) /\ Needs(r)' = Needs(r)
    BY DEF Route, Needs
  <1>2. Sound(r, m) => Sound(r, m)'
    BY <1>1 DEF Sound, RoleSound, ChecksSound, EffectSound, OfferSound, Entitled, Lay
  <1>3. \A q, t : Traced(q, r, t) => Traced(q, r, t)'
    BY <1>1 DEF Traced
  <1>4. QED
    BY <1>2, <1>3 DEF Within, Lay

-----------------------------------------------------------------------------
\* Request q becomes y, having seen the moments m; members and roles stay.
Becomes(q, y, m) ==
    /\ req' = [req EXCEPT ![q] = y]
    /\ seen' = [seen EXCEPT ![q] = m]
    /\ UNCHANGED <<table, memberVars>>

\* The rows are what they were, but for one that is made and one that is swept.
RowsKept ==
    \A i \in Invitation : invitations[i] # NoInvitation =>
        /\ invitations'[i] # NoInvitation
        /\ invitations'[i].by = invitations[i].by
        /\ invitations'[i].offer = invitations[i].offer

RowsMadeBy(q, offer) ==
    \A i \in Invitation :
        invitations[i] = NoInvitation /\ invitations'[i] # NoInvitation =>
            invitations'[i].by = q /\ invitations'[i].offer = offer

\* The step of one request.
LEMMA StepLemma ==
    ASSUME IInv, NEW q \in Req, NEW y \in Request, NEW m \in SUBSET Moments,
           Becomes(q, y, m),
           Sound(y, m), Present(y, m), Traced(q, y, trail'),
           \A p \in Req \ {q}, o \in Outcome : <<p, o>> \in trail' <=> <<p, o>> \in trail,
           trail' \subseteq Req \X Outcome,
           invitations' \in [Invitation -> Row \cup {NoInvitation}],
           RowsKept, RowsMadeBy(q, y.call.offer),
           req[q].phase \in Ended => y.phase \in Ended /\ seen[q] \subseteq m,
           \A i \in Invitation :
              invitations[i] = NoInvitation /\ invitations'[i] # NoInvitation =>
                  y.phase \in Ended /\ Within(y.call.offer, m),
           now' \in Time, faults' \in 0 .. MaxFaults
    PROVE  IInv'
  <1>1. req \in [Req -> Request] /\ seen \in [Req -> SUBSET Moments]
    BY DEF IInv, TypeOK, Moments
  <1>2. /\ req' \in [Req -> Request] /\ seen' \in [Req -> SUBSET Moments]
        /\ req'[q] = y /\ seen'[q] = m
        /\ \A p \in Req \ {q} : req'[p] = req[p] /\ seen'[p] = seen[p]
    BY <1>1 DEF Becomes
  <1>3. TypeOK'
    BY <1>2 DEF IInv, TypeOK, Moments, Becomes, memberVars
  <1>4. /\ UNCHANGED table /\ UNCHANGED stored
        /\ UNCHANGED assigned /\ UNCHANGED contents
    BY DEF Becomes, memberVars
  <1>5. ASSUME NEW p \in Req PROVE Sound(req[p], seen[p])'
    <2>0. PICK n : n = seen'[p]
      OBVIOUS
    <2>1. PICK x \in Request : x = req'[p] /\ n = seen'[p]
      BY <1>2, <2>0
    <2>2. Sound(x, n)
      BY <2>1, <1>2 DEF IInv
    <2>3. Sound(x, n)'
      BY <2>2, <1>4, TableStays
    <2>4. QED
      BY <2>1, <2>3
  <1>6. ASSUME NEW p \in Req PROVE Present(req[p], seen[p])'
    <2>1. Present(req'[p], seen'[p])
      BY <1>2 DEF IInv
    <2>2. QED
      BY <2>1, <1>4 DEF Present, Moment, MomentIn
  <1>7. ASSUME NEW p \in Req PROVE Traced(p, req[p], trail)'
    <2>1. PICK x \in Request : x = req'[p]
      BY <1>2
    <2>2. Traced(p, x, trail')
      <3>1. CASE p = q
        BY <3>1, <2>1, <1>2
      <3>2. CASE p # q
        <4>1. Traced(p, x, trail)
          BY <3>2, <2>1, <1>2 DEF IInv
        <4>2. x.outcome \in Outcome
          BY DEF Request
        <4>3. QED
          BY <3>2, <4>1, <4>2 DEF Traced
      <3>3. QED
        BY <3>1, <3>2
    <2>3. Route(x)' = Route(x)
      BY <1>4 DEF Route
    <2>4. Traced(p, x, trail)'
      BY <2>2, <2>3 DEF Traced
    <2>5. QED
      BY <2>1, <2>4
  <1>8. ASSUME NEW i \in Invitation PROVE Backed(invitations[i])'
    <2> SUFFICES ASSUME invitations'[i] # NoInvitation, invitations'[i].by \in Req
                 PROVE  /\ req'[invitations'[i].by].phase \in Ended
                        /\ Within(invitations'[i].offer, seen'[invitations'[i].by])
      BY DEF Backed, Within, Lay
    <2>1. CASE invitations[i] = NoInvitation
      <3>1. invitations'[i].by = q /\ invitations'[i].offer = y.call.offer
        BY <2>1 DEF RowsMadeBy
      <3>2. y.phase \in Ended
        BY <2>1
      <3>3. QED
        BY <2>1, <3>1, <3>2, <1>2
    <2>2. CASE invitations[i] # NoInvitation
      <3>1. PICK p \in Req : p = invitations[i].by
        BY <2>2 DEF RowsKept
      <3>2. /\ invitations'[i].by = p
            /\ invitations'[i].offer = invitations[i].offer
        BY <2>2, <3>1 DEF RowsKept
      <3>3. req[p].phase \in Ended /\ Within(invitations[i].offer, seen[p])
        BY <2>2, <3>1 DEF IInv, Backed
      <3>4. req'[p].phase \in Ended /\ seen[p] \subseteq seen'[p]
        BY <3>3, <1>2
      <3>5. QED
        BY <3>2, <3>3, <3>4, MoreWithin
    <2>3. QED
      BY <2>1, <2>2
  <1>9. QED
    BY <1>3, <1>5, <1>6, <1>7, <1>8 DEF IInv

\* The rows stay.
LEMMA SameRows ==
    ASSUME IInv, UNCHANGED invitations, NEW q, NEW offer
    PROVE  /\ invitations' \in [Invitation -> Row \cup {NoInvitation}]
           /\ RowsKept /\ RowsMadeBy(q, offer)
  BY DEF IInv, TypeOK, RowsKept, RowsMadeBy

LEMMA FaultType ==
    ASSUME IInv
    PROVE  /\ now \in Time
           /\ Fault => faults' \in 0 .. MaxFaults
           /\ faults' = faults => faults' \in 0 .. MaxFaults
  <1>1. MaxFaults \in Nat /\ faults \in 0 .. MaxFaults /\ now \in Time
    BY AdminAssumption DEF IInv, TypeOK
  <1>2. QED
    BY <1>1 DEF Fault

\* A request that is served so far, in phase r.phase.
LEMMA ServedLemma ==
    ASSUME IInv, NEW q \in Req
    PROVE  /\ req[q] \in Request /\ seen[q] \in SUBSET Moments
           /\ Sound(req[q], seen[q]) /\ Present(req[q], seen[q])
           /\ Traced(q, req[q], trail)
           /\ trail \subseteq Req \X Outcome
           /\ req[q].phase \notin Ended =>
                 /\ ~ req[q].effected /\ req[q].outcome = "none"
                 /\ \A o \in Outcome : <<q, o>> \notin trail
  <1>1. req \in [Req -> Request] /\ seen \in [Req -> SUBSET Moments]
        /\ trail \subseteq Req \X Outcome
    BY DEF IInv, TypeOK, Moments
  <1>2. /\ Sound(req[q], seen[q]) /\ Present(req[q], seen[q])
        /\ Traced(q, req[q], trail)
    BY DEF IInv
  <1>3. req[q].effected \in BOOLEAN
    BY <1>1 DEF Request
  <1>4. ASSUME req[q].phase \notin Ended
        PROVE  /\ ~ req[q].effected /\ req[q].outcome = "none"
               /\ \A o \in Outcome : <<q, o>> \notin trail
    BY <1>2, <1>3, <1>4 DEF Sound, EffectSound, Traced, Ended
  <1>5. QED
    BY <1>1, <1>2, <1>4

\* It is refused before anything is decided.
LEMMA RefusedStep ==
    ASSUME IInv, NEW q \in Req, NEW code \in {"refused", "unavailable"},
           req[q].phase \notin Ended, Refused(q, code),
           UNCHANGED <<table, memberVars, invitations, trail, now, faults>>
    PROVE  IInv'
  <1> DEFINE y == Shut(code)
  <1>1. y \in Request /\ Sound(y, {}) /\ Present(y, {}) /\ Traced(q, y, trail)
    BY ShutLemma, ServedLemma
  <1>2. Becomes(q, y, {})
    BY DEF Refused, Shut, Becomes
  <1>3. now' \in Time /\ faults' \in 0 .. MaxFaults /\ trail' \subseteq Req \X Outcome
    BY FaultType, ServedLemma
  <1> HIDE DEF y
  <1>4. /\ invitations' \in [Invitation -> Row \cup {NoInvitation}]
        /\ RowsKept /\ RowsMadeBy(q, y.call.offer)
    BY SameRows
  <1>5. {} \in SUBSET Moments
    OBVIOUS
  <1>6. QED
    BY <1>1, <1>2, <1>3, <1>4, <1>5, StepLemma

\* It goes on.
LEMMA AdvanceStep ==
    ASSUME IInv, NEW q \in Req, NEW y \in Request, NEW m \in SUBSET Moments,
           req[q].phase \notin Ended, y.phase \notin Ended, y.outcome = "none",
           Becomes(q, y, m), Sound(y, m), Present(y, m),
           UNCHANGED <<invitations, trail, now, faults>>
    PROVE  IInv'
  <1>1. Traced(q, y, trail)
    BY ServedLemma DEF Traced, Ended
  <1>2. now' \in Time /\ faults' \in 0 .. MaxFaults /\ trail' \subseteq Req \X Outcome
    BY FaultType, ServedLemma
  <1>3. /\ invitations' \in [Invitation -> Row \cup {NoInvitation}]
        /\ RowsKept /\ RowsMadeBy(q, y.call.offer)
    BY SameRows
  <1>4. QED
    BY <1>1, <1>2, <1>3, StepLemma

\* Its outcome is decided, and nothing was done.
LEMMA DecidedSound ==
    ASSUME IInv, NEW q \in Req, NEW outcome \in Outcome, NEW code \in Answer,
           outcome = "ok" => code = "ok", req[q].phase \notin Ended \cup {"idle"}
    PROVE  LET y == Decided(req[q], outcome, code) IN
           /\ y \in Request /\ y.phase = "record" /\ y.call = req[q].call
           /\ Sound(y, seen[q]) /\ Present(y, seen[q]) /\ Traced(q, y, trail)
  <1> DEFINE y == Decided(req[q], outcome, code)
  <1>1. /\ y \in Request /\ y.phase = "record" /\ y.outcome = outcome
        /\ y.answer = code /\ y.call = req[q].call /\ ~ y.effected
    BY ServedLemma, DecidedLemma
  <1> HIDE DEF y
  <1>2. Sound(y, seen[q])
    BY <1>1 DEF Sound, RoleSound, ChecksSound, EffectSound, OfferSound, Judged,
                Passed, Working, Offering, Writing
  <1>3. Present(y, seen[q])
    <2>1. req[q].phase \notin {"idle", "done"}
      BY DEF Ended
    <2>2. Moment(req[q].call.by) \in seen[q]
      BY <2>1, ServedLemma DEF Present
    <2>3. QED
      BY <1>1, <2>2 DEF Present
  <1>4. Traced(q, y, trail)
    BY <1>1, ServedLemma DEF Traced, Ended
  <1>5. QED
    BY <1>1, <1>2, <1>3, <1>4 DEF y

LEMMA EndsStep ==
    ASSUME IInv, NEW q \in Req, NEW outcome \in {"denied", "failed"},
           NEW code \in {"refused", "unavailable"},
           req[q].phase \notin Ended \cup {"idle"}, Ends(q, outcome, code),
           UNCHANGED <<table, memberVars, trail, seen, now>>,
           Fault \/ UNCHANGED faults,
           invitations' \in [Invitation -> Row \cup {NoInvitation}],
           RowsKept, \A i \in Invitation : invitations[i] = NoInvitation =>
                                              invitations'[i] = NoInvitation
    PROVE  IInv'
  <1> DEFINE y == Decided(req[q], outcome, code)
  <1>1. /\ y \in Request /\ y.phase = "record"
        /\ Sound(y, seen[q]) /\ Present(y, seen[q]) /\ Traced(q, y, trail)
    BY DecidedSound DEF Outcome, Answer
  <1>2. Becomes(q, y, seen[q]) /\ seen[q] \in SUBSET Moments
    <2>1. seen \in [Req -> SUBSET Moments]
      BY DEF IInv, TypeOK, Moments
    <2>2. QED
      BY <2>1 DEF Ends, Becomes
  <1>3. now' \in Time /\ faults' \in 0 .. MaxFaults /\ trail' \subseteq Req \X Outcome
    BY FaultType, ServedLemma
  <1> HIDE DEF y
  <1>4. RowsMadeBy(q, y.call.offer)
    BY DEF RowsMadeBy
  <1>5. QED
    BY <1>1, <1>2, <1>3, <1>4, StepLemma

-----------------------------------------------------------------------------
\* The steps of dispatchTenantAdminRoute.

\* A request in phase from goes to phase to, keeping what it holds; seen stays.
LEMMA GoesStep ==
    ASSUME IInv, NEW q \in Req, NEW to \in Phase \ (Ended \cup {"idle"}),
           req[q].phase \notin Ended \cup {"idle"},
           GoesTo(q, to), Sound([req[q] EXCEPT !.phase = to], seen[q]),
           UNCHANGED <<table, memberVars, invitations, trail, seen, now, faults>>
    PROVE  IInv'
  <1> DEFINE y == [req[q] EXCEPT !.phase = to]
  <1>1. req[q] \in Request /\ seen \in [Req -> SUBSET Moments]
    BY DEF IInv, TypeOK, Moments
  <1>2. /\ y \in Request /\ y.phase = to /\ y.call = req[q].call
        /\ y.outcome = req[q].outcome
    BY <1>1 DEF Request
  <1>3. Becomes(q, y, seen[q])
    BY <1>1 DEF GoesTo, Becomes
  <1>4. req[q].outcome = "none" /\ Moment(req[q].call.by) \in seen[q]
    BY ServedLemma DEF Present, Ended
  <1>5. Present(y, seen[q])
    BY <1>2, <1>4 DEF Present
  <1> HIDE DEF y
  <1>6. to \notin Ended
    OBVIOUS
  <1>7. QED
    BY <1>1, <1>2, <1>3, <1>4, <1>5, <1>6, AdvanceStep DEF y

LEMMA AskStep ==
    ASSUME IInv, NEW q \in Req, Ask(q)
    PROVE  IInv'
  <1>1. req[q].phase = "idle" /\ req[q].phase \notin Ended
    BY DEF Ask, Ended
  <1>2. UNCHANGED <<table, memberVars, invitations, trail, now, faults>>
    BY DEF Ask
  <1>3. CASE Refused(q, "refused")
    BY <1>1, <1>2, <1>3, RefusedStep
  <1>4. ASSUME NEW c \in Asked, NEW k \in DOMAIN table.routes,
               req' = [req EXCEPT ![q] =
                          [Idle EXCEPT !.phase = "session", !.call = c, !.route = k]],
               seen' = [seen EXCEPT ![q] = {Moment(c.by)}]
        PROVE  IInv'
    <2> DEFINE y == [Idle EXCEPT !.phase = "session", !.call = c, !.route = k]
    <2>1. k \in Nat
      <3>1. WellFormed(table)
        BY AdminAssumption DEF IInv, TypeOK
      <3>2. QED
        BY <1>4, <3>1 DEF WellFormed
    <2>2. /\ y \in Request /\ y.phase = "session" /\ y.call = c /\ ~ y.effected
          /\ y.outcome = "none"
      BY <2>1, IdleType DEF Request, Phase
    <2> HIDE DEF y
    <2>3. {Moment(c.by)} \in SUBSET Moments
      BY MomentType DEF IInv
    <2>4. Sound(y, {Moment(c.by)}) /\ Present(y, {Moment(c.by)})
      BY <2>2 DEF Sound, RoleSound, ChecksSound, EffectSound, OfferSound, Judged,
                  Passed, Working, Offering, Writing, Present
    <2>5. Becomes(q, y, {Moment(c.by)})
      BY <1>2, <1>4 DEF Becomes, y
    <2>6. y.phase \notin Ended
      BY <2>2 DEF Ended
    <2>7. QED
      BY <1>1, <1>2, <2>2, <2>3, <2>4, <2>5, <2>6, AdvanceStep
  <1>5. QED
    BY <1>3, <1>4 DEF Ask, Matching

LEMMA AuthenticateStep ==
    ASSUME IInv, NEW q \in Req, Authenticate(q)
    PROVE  IInv'
  <1>1. /\ req[q].phase = "session" /\ req[q].phase \notin Ended \cup {"idle"}
        /\ UNCHANGED <<table, memberVars, invitations, trail, now, faults>>
    BY DEF Authenticate, Ended
  <1>2. CASE req[q].call.by \in Principal
    <2> DEFINE y == [req[q] EXCEPT !.phase = "authority"]
    <2>1. /\ y.phase = "authority" /\ y.call = req[q].call
          /\ y.effected = req[q].effected
      BY ServedLemma DEF Request
    <2> HIDE DEF y
    <2>2. ~ y.effected
      BY <1>1, <2>1, ServedLemma
    <2>3. Sound(y, seen[q])
      BY <1>2, <2>1, <2>2 DEF Sound, RoleSound, ChecksSound, EffectSound, OfferSound,
                              Judged, Passed, Working, Offering, Writing
    <2>4. "authority" \in Phase \ (Ended \cup {"idle"})
      BY DEF Phase, Ended
    <2>5. QED
      BY <1>1, <1>2, <2>3, <2>4, GoesStep DEF Authenticate, y
  <1>3. CASE req[q].call.by \notin Principal
    BY <1>1, <1>3, RefusedStep DEF Authenticate
  <1>4. QED
    BY <1>2, <1>3

LEMMA ResolveStep ==
    ASSUME IInv, NEW q \in Req, Resolve(q)
    PROVE  IInv'
  <1> DEFINE role == stored[req[q].call.by]
  <1>1. /\ req[q].phase = "authority" /\ req[q].phase \notin Ended \cup {"idle"}
        /\ UNCHANGED <<table, memberVars, invitations, trail, now, faults>>
    BY DEF Resolve, Ended
  <1>2. CASE Refused(q, "refused")
    BY <1>1, <1>2, RefusedStep
  <1>3. ASSUME role \in MembershipRole, UNCHANGED seen,
               NEW to \in {"charge", "authorize"},
               Route(req[q]).audited => to = "charge",
               req' = [req EXCEPT ![q] = [req[q] EXCEPT !.role = role, !.phase = to]]
        PROVE  IInv'
    <2> DEFINE y == [req[q] EXCEPT !.role = role, !.phase = to]
    <2>1. /\ req[q] \in Request /\ seen[q] \in SUBSET Moments
          /\ Sound(req[q], seen[q]) /\ ~ req[q].effected /\ req[q].outcome = "none"
          /\ Moment(req[q].call.by) \in seen[q] /\ seen \in [Req -> SUBSET Moments]
      BY <1>1, ServedLemma DEF Present, IInv, TypeOK, Moments
    <2>2. req[q].call.by \in Principal
      BY <1>1, <2>1 DEF Sound, ChecksSound
    <2>3. role \in Stored
      BY <1>3 DEF Stored
    <2>4. /\ y \in Request /\ y.phase = to /\ y.call = req[q].call
          /\ y.route = req[q].route /\ y.role = role /\ ~ y.effected
          /\ y.outcome = "none"
      BY <2>1, <2>3 DEF Request, Phase
    <2>5. Moment(req[q].call.by).granted = Grants[role]
      BY <1>3, <2>2 DEF Moment, MomentIn, Held
    <2>6. Becomes(q, y, seen[q])
      BY <1>1, <1>3, <2>1 DEF Becomes
    <2> HIDE DEF y, role
    <2>7. RoleSound(y, seen[q])
      BY <1>3, <2>1, <2>4, <2>5 DEF RoleSound
    <2>8. Route(y) = Route(req[q])
      BY <2>4 DEF Route
    <2>9. Sound(y, seen[q]) /\ Present(y, seen[q])
      BY <1>3, <2>1, <2>4, <2>7, <2>8 DEF Sound, ChecksSound, EffectSound, OfferSound,
                              Passed, Working, Offering, Writing, Present
    <2>10. y.phase \notin Ended
      BY <2>4 DEF Ended
    <2>11. QED
      BY <1>1, <2>1, <2>4, <2>6, <2>9, <2>10, AdvanceStep
  <1>4. QED
    BY <1>2, <1>3 DEF Resolve

LEMMA NotResolvedStep ==
    ASSUME IInv, NEW q \in Req, NotResolved(q) \/ NotCharged(q)
    PROVE  IInv'
  <1>1. req[q].phase \notin Ended
    BY DEF NotResolved, NotCharged, Ended
  <1>2. QED
    BY <1>1, RefusedStep DEF NotResolved, NotCharged

LEMMA ChargedStep ==
    ASSUME IInv, NEW q \in Req, Charged(q)
    PROVE  IInv'
  <1> DEFINE y == [req[q] EXCEPT !.phase = "authorize", !.charged = TRUE]
  <1>1. /\ req[q].phase = "charge" /\ req[q].phase \notin Ended \cup {"idle"}
        /\ UNCHANGED <<table, memberVars, invitations, trail, seen, now, faults>>
    BY DEF Charged, Ended
  <1>2. /\ req[q] \in Request /\ seen[q] \in SUBSET Moments
        /\ Sound(req[q], seen[q]) /\ ~ req[q].effected /\ req[q].outcome = "none"
        /\ Moment(req[q].call.by) \in seen[q] /\ seen \in [Req -> SUBSET Moments]
    BY <1>1, ServedLemma DEF Present, IInv, TypeOK, Moments
  <1>3. /\ y \in Request /\ y.phase = "authorize" /\ y.call = req[q].call
        /\ y.charged /\ y.role = req[q].role /\ ~ y.effected /\ y.outcome = "none"
    BY <1>2 DEF Request, Phase
  <1>4. Becomes(q, y, seen[q])
    BY <1>1, <1>2 DEF Charged, Becomes
  <1> HIDE DEF y
  <1>5. RoleSound(y, seen[q])
    BY <1>1, <1>2, <1>3 DEF Sound, RoleSound, Judged
  <1>6. Sound(y, seen[q]) /\ Present(y, seen[q])
    BY <1>2, <1>3, <1>5 DEF Sound, ChecksSound, EffectSound, OfferSound,
                            Passed, Working, Offering, Writing, Present
  <1>7. y.phase \notin Ended
    BY <1>3 DEF Ended
  <1>8. QED
    BY <1>1, <1>2, <1>3, <1>4, <1>6, <1>7, AdvanceStep

\* Nobody is let through to the gate or the handler but by a conjunction.
LEMMA AuthorizeStep ==
    ASSUME IInv, NEW q \in Req, Authorize(q)
    PROVE  IInv'
  <1>1. /\ req[q].phase = "authorize" /\ req[q].phase \notin Ended \cup {"idle"}
        /\ UNCHANGED <<table, memberVars, invitations, trail, now, faults>>
    BY DEF Authorize, Ended
  <1>2. CASE Refused(q, "refused")
    BY <1>1, <1>2, RefusedStep
  <1>3. CASE Ends(q, "denied", "refused") /\ UNCHANGED seen
    <2>1. /\ invitations' \in [Invitation -> Row \cup {NoInvitation}]
          /\ RowsKept
      BY <1>1, SameRows
    <2>2. QED
      BY <1>1, <1>3, <2>1, EndsStep
  <1>4. ASSUME NEW needs \in Needs(req[q]), Allowed(needs, Grants[req[q].role]),
               UNCHANGED seen,
               GoesTo(q, IF IsConfirmationGated(Route(req[q])) THEN "gate" ELSE "handle")
        PROVE  IInv'
    <2>1. PICK to \in {"gate", "handle"} :
             to = IF IsConfirmationGated(Route(req[q])) THEN "gate" ELSE "handle"
      OBVIOUS
    <2> DEFINE y == [req[q] EXCEPT !.phase = to]
    <2>2. /\ req[q] \in Request /\ Sound(req[q], seen[q]) /\ ~ req[q].effected
      BY <1>1, ServedLemma
    <2>3. /\ y.phase = to /\ y.call = req[q].call /\ y.route = req[q].route
          /\ y.role = req[q].role /\ y.charged = req[q].charged /\ ~ y.effected
      BY <2>2 DEF Request
    <2> HIDE DEF y
    <2>4. Route(y) = Route(req[q]) /\ Needs(y) = Needs(req[q])
      BY <2>3, SameNeeds
    <2>5. RoleSound(y, seen[q])
      BY <1>1, <2>2, <2>3 DEF Sound, RoleSound, Judged, Passed, Working
    <2>6. Route(req[q]).audited => req[q].charged
      BY <1>1, <2>2 DEF Sound, ChecksSound
    <2>7. ChecksSound(y)
      BY <1>4, <2>1, <2>3, <2>4, <2>6 DEF ChecksSound, Working, Offering, Writing
    <2>8. Sound(y, seen[q])
      BY <2>3, <2>5, <2>7 DEF Sound, EffectSound, OfferSound, Offering, Writing
    <2>9. to \in Phase \ (Ended \cup {"idle"}) /\ GoesTo(q, to)
      BY <1>4, <2>1 DEF Phase, Ended
    <2>10. QED
      BY <1>1, <1>4, <2>8, <2>9, GoesStep DEF y
  <1>5. QED
    BY <1>2, <1>3, <1>4 DEF Authorize

LEMMA ConfirmedStep ==
    ASSUME IInv, NEW q \in Req, Confirmed(q)
    PROVE  IInv'
  <1> DEFINE y == [req[q] EXCEPT !.phase = "handle", !.confirmed = TRUE]
  <1>1. /\ req[q].phase = "gate" /\ req[q].phase \notin Ended \cup {"idle"}
        /\ UNCHANGED <<table, memberVars, invitations, trail, seen, now, faults>>
    BY DEF Confirmed, Ended
  <1>2. /\ req[q] \in Request /\ seen[q] \in SUBSET Moments
        /\ Sound(req[q], seen[q]) /\ ~ req[q].effected /\ req[q].outcome = "none"
        /\ Moment(req[q].call.by) \in seen[q] /\ seen \in [Req -> SUBSET Moments]
    BY <1>1, ServedLemma DEF Present, IInv, TypeOK, Moments
  <1>3. /\ y \in Request /\ y.phase = "handle" /\ y.call = req[q].call
        /\ y.charged = req[q].charged /\ y.role = req[q].role /\ y.confirmed
        /\ y.route = req[q].route /\ ~ y.effected /\ y.outcome = "none"
    BY <1>2 DEF Request, Phase
  <1>4. Becomes(q, y, seen[q])
    BY <1>1, <1>2 DEF Confirmed, Becomes
  <1> HIDE DEF y
  <1>5. Route(y) = Route(req[q]) /\ Needs(y) = Needs(req[q])
    BY <1>3, SameNeeds
  <1>6. RoleSound(y, seen[q])
    BY <1>1, <1>2, <1>3 DEF Sound, RoleSound, Judged, Passed, Working
  <1>7. ChecksSound(y)
    BY <1>1, <1>2, <1>3, <1>5 DEF Sound, ChecksSound, Passed, Working
  <1>8. Sound(y, seen[q]) /\ Present(y, seen[q])
    BY <1>2, <1>3, <1>6, <1>7 DEF Sound, EffectSound, OfferSound, Offering, Writing,
                                  Present
  <1>9. y.phase \notin Ended
    BY <1>3 DEF Ended
  <1>10. QED
    BY <1>1, <1>2, <1>3, <1>4, <1>8, <1>9, AdvanceStep

\* Whatever is refused at the gate or fails in a handler is decided only.
LEMMA FailedStep ==
    ASSUME IInv, NEW q \in Req,
           NotConfirmed(q) \/ NotHandled(q) \/ NotReserved(q) \/ CallFails(q)
    PROVE  IInv'
  <1>1. /\ req[q].phase \notin Ended \cup {"idle"}
        /\ UNCHANGED <<table, memberVars, invitations, trail, seen, now>>
        /\ Fault \/ UNCHANGED faults
    BY DEF NotConfirmed, NotHandled, NotReserved, CallFails, Ended
  <1>2. PICK outcome \in {"denied", "failed"}, code \in {"refused", "unavailable"} :
           Ends(q, outcome, code)
    BY DEF NotConfirmed, NotHandled, NotReserved, CallFails
  <1>3. invitations' \in [Invitation -> Row \cup {NoInvitation}] /\ RowsKept
    BY <1>1, SameRows
  <1>4. QED
    BY <1>1, <1>2, <1>3, EndsStep

-----------------------------------------------------------------------------
\* The handlers.

LEMMA SaidLemma ==
    \A said \in {<<"ok", "ok">>, <<"failed", "unavailable">>} :
        /\ said[1] \in {"ok", "failed"} /\ said[2] \in {"ok", "unavailable"}
        /\ said[1] = "ok" => said[2] = "ok"
  <1>1. <<"ok", "ok">>[1] = "ok" /\ <<"ok", "ok">>[2] = "ok"
    OBVIOUS
  <1>2. <<"failed", "unavailable">>[1] = "failed"
        /\ <<"failed", "unavailable">>[2] = "unavailable"
    OBVIOUS
  <1>3. QED
    BY <1>1, <1>2

\* What a request that works has behind it entitles it to its effect.
LEMMA EffectLemma ==
    ASSUME IInv, NEW q \in Req, req[q].phase \in Working,
           NEW outcome \in {"ok", "failed"}, NEW code \in {"ok", "unavailable"},
           outcome = "ok" => code = "ok"
    PROVE  LET y == [Decided(req[q], outcome, code) EXCEPT !.effected = TRUE] IN
           /\ y \in Request /\ y.phase = "record" /\ y.call = req[q].call
           /\ Sound(y, seen[q]) /\ Present(y, seen[q]) /\ Traced(q, y, trail)
  <1>0. outcome \in Outcome /\ code \in Answer /\ req[q] \in Request
    BY ServedLemma DEF Outcome, Answer
  <1>1. PICK d \in Request : d = Decided(req[q], outcome, code)
    BY <1>0, DecidedLemma
  <1> DEFINE y == [d EXCEPT !.effected = TRUE]
  <1>2. req[q].phase \notin Ended \cup {"idle"}
    BY DEF Working, Offering, Writing, Ended
  <1>3. /\ d.phase = "record" /\ d.outcome = outcome /\ d.answer = code
        /\ d.call = req[q].call /\ d.route = req[q].route
        /\ d.charged = req[q].charged /\ d.confirmed = req[q].confirmed
    BY <1>0, <1>1, DecidedLemma
  <1>4. /\ y \in Request /\ y.phase = "record" /\ y.outcome = outcome
        /\ y.answer = code /\ y.call = req[q].call /\ y.route = req[q].route
        /\ y.charged = req[q].charged /\ y.confirmed = req[q].confirmed
    BY <1>3 DEF Request
  <1> HIDE DEF y
  <1>5. Route(y) = Route(req[q]) /\ Needs(y) = Needs(req[q])
    BY <1>4, SameNeeds
  <1>6. PICK s \in seen[q] : s.granted = Grants[req[q].role]
    BY ServedLemma DEF Sound, RoleSound, Judged, Passed
  <1>7. PICK needs \in Needs(req[q]) : Allowed(needs, Grants[req[q].role])
    BY ServedLemma DEF Sound, ChecksSound, Passed
  <1>8. Entitled(y, seen[q])
    BY <1>5, <1>6, <1>7 DEF Entitled, Allowed
  <1>9. /\ IsConfirmationGated(Route(y)) => y.confirmed
        /\ Route(y).audited => y.charged
    BY <1>4, <1>5, ServedLemma DEF Sound, ChecksSound, Passed
  <1>10. Sound(y, seen[q])
    BY <1>4, <1>8, <1>9 DEF Sound, RoleSound, ChecksSound, EffectSound, OfferSound,
            Judged, Passed, Working, Offering, Writing, Ended
  <1>11. Present(y, seen[q])
    <2>1. Moment(req[q].call.by) \in seen[q]
      BY <1>2, ServedLemma DEF Present, Ended
    <2>2. QED
      BY <1>4, <2>1 DEF Present
  <1>12. Traced(q, y, trail)
    <2>1. \A o \in Outcome : <<q, o>> \notin trail
      BY <1>2, ServedLemma
    <2>2. y.outcome = "ok" => y.answer = "ok"
      BY <1>4
    <2>3. QED
      BY <1>4, <2>1, <2>2 DEF Traced, Ended
  <1>13. QED
    BY <1>1, <1>4, <1>10, <1>11, <1>12 DEF y

LEMMA HandleStep ==
    ASSUME IInv, NEW q \in Req, Handle(q)
    PROVE  IInv'
  <1>1. /\ req[q].phase \in Working
        /\ UNCHANGED <<table, memberVars, invitations, trail, seen, now, faults>>
    BY DEF Handle, Working
  <1>2. PICK outcome \in {"ok", "failed"}, code \in {"ok", "unavailable"} :
           /\ outcome = "ok" => code = "ok"
           /\ req' = [req EXCEPT ![q] =
                         [Decided(req[q], outcome, code) EXCEPT !.effected = TRUE]]
    BY SaidLemma DEF Handle
  <1> DEFINE y == [Decided(req[q], outcome, code) EXCEPT !.effected = TRUE]
  <1>3. /\ y \in Request /\ y.phase = "record"
        /\ Sound(y, seen[q]) /\ Present(y, seen[q]) /\ Traced(q, y, trail)
    BY <1>1, <1>2, EffectLemma
  <1>4. Becomes(q, y, seen[q]) /\ seen[q] \in SUBSET Moments
    <2>1. seen \in [Req -> SUBSET Moments]
      BY DEF IInv, TypeOK, Moments
    <2>2. QED
      BY <1>1, <1>2, <2>1 DEF Becomes
  <1> HIDE DEF y
  <1>5. now' \in Time /\ faults' \in 0 .. MaxFaults /\ trail' \subseteq Req \X Outcome
    BY <1>1, FaultType, ServedLemma
  <1>6. /\ invitations' \in [Invitation -> Row \cup {NoInvitation}]
        /\ RowsKept /\ RowsMadeBy(q, y.call.offer)
    BY <1>1, SameRows
  <1>7. y.phase \in Ended
    BY <1>3 DEF Ended
  <1>8. QED
    BY <1>1, <1>3, <1>4, <1>5, <1>6, <1>7, StepLemma

\* A request that works goes on working: the checks stay behind it.
LEMMA WorksSound ==
    ASSUME IInv, NEW q \in Req, NEW y \in Request,
           req[q].phase \in Working, y.phase \in Working,
           y.call = req[q].call, y.route = req[q].route, y.role = req[q].role,
           y.charged = req[q].charged, y.confirmed = req[q].confirmed,
           y.effected = req[q].effected, y.outcome = req[q].outcome,
           OfferSound(y, seen[q])
    PROVE  /\ req[q].phase \notin Ended /\ y.phase \notin Ended /\ y.outcome = "none"
           /\ Sound(y, seen[q]) /\ Present(y, seen[q])
  <1>1. /\ req[q].phase \notin Ended \cup {"idle"} /\ y.phase \notin Ended
        /\ req[q].phase \in Passed /\ req[q].phase \in Judged
        /\ y.phase \in Passed /\ y.phase \in Judged
        /\ y.phase \notin {"authority", "authorize"}
    BY DEF Working, Offering, Writing, Ended, Passed, Judged
  <1>2. /\ Sound(req[q], seen[q]) /\ ~ req[q].effected /\ req[q].outcome = "none"
        /\ Moment(req[q].call.by) \in seen[q]
    BY <1>1, ServedLemma DEF Present, Ended
  <1>3. Route(y) = Route(req[q]) /\ Needs(y) = Needs(req[q])
    BY SameNeeds
  <1>4. RoleSound(y, seen[q]) /\ ChecksSound(y)
    BY <1>1, <1>2, <1>3 DEF Sound, RoleSound, ChecksSound
  <1>5. Sound(y, seen[q]) /\ Present(y, seen[q])
    BY <1>2, <1>4 DEF Sound, EffectSound, Present
  <1>6. QED
    BY <1>1, <1>2, <1>5

LEMMA SeenStays ==
    ASSUME IInv, NEW q \in Req, NEW y, req' = [req EXCEPT ![q] = y],
           UNCHANGED <<table, memberVars, seen>>
    PROVE  Becomes(q, y, seen[q]) /\ seen[q] \in SUBSET Moments
  <1>1. seen \in [Req -> SUBSET Moments]
    BY DEF IInv, TypeOK, Moments
  <1>2. QED
    BY <1>1 DEF Becomes

LEMMA InviteStep ==
    ASSUME IInv, NEW q \in Req, Invite(q)
    PROVE  IInv'
  <1> DEFINE y == [req[q] EXCEPT !.phase = "ceiling", !.at = now]
  <1>1. /\ req[q].phase \in Working
        /\ UNCHANGED <<table, memberVars, invitations, trail, seen, now, faults>>
    BY DEF Invite, Working
  <1>2. req[q] \in Request /\ now \in Time
    BY ServedLemma, FaultType
  <1>3. /\ y \in Request /\ y.phase = "ceiling"
        /\ y.call = req[q].call /\ y.route = req[q].route /\ y.role = req[q].role
        /\ y.charged = req[q].charged /\ y.confirmed = req[q].confirmed
        /\ y.effected = req[q].effected /\ y.outcome = req[q].outcome
    BY <1>2 DEF Request, Phase
  <1>4. req' = [req EXCEPT ![q] = y]
    BY DEF Invite
  <1> HIDE DEF y
  <1>5. y.phase \in Working /\ OfferSound(y, seen[q])
    BY <1>3 DEF Working, OfferSound, Offering, Writing
  <1>6. QED
    BY <1>1, <1>3, <1>4, <1>5, WorksSound, SeenStays, AdvanceStep

\* What is held now is held at one of the moments.
LEMMA ReadHeldStep ==
    ASSUME IInv, NEW q \in Req, ReadHeld(q)
    PROVE  IInv'
  <1> DEFINE held == HeldBy(req[q].call.by)
             offer == req[q].call.offer
  <1>1. /\ req[q].phase = "ceiling" /\ req[q].phase \in Working
        /\ req[q].phase \notin Ended \cup {"idle"}
        /\ UNCHANGED <<table, memberVars, invitations, trail, seen, now, faults>>
    BY DEF ReadHeld, Working, Ended
  <1>2. CASE Ends(q, "failed", "refused")
    <2>1. invitations' \in [Invitation -> Row \cup {NoInvitation}] /\ RowsKept
      BY <1>1, SameRows
    <2>2. QED
      BY <1>1, <1>2, <2>1, EndsStep
  <1>3. ASSUME Grants[offer.role] \subseteq held,
               NEW to \in {"reserve", "roles"}, to = "reserve" => offer.custom = {},
               req' = [req EXCEPT ![q] = [req[q] EXCEPT !.held = held,
                                             !.left = offer.custom, !.phase = to]]
        PROVE  IInv'
    <2> DEFINE y == [req[q] EXCEPT !.held = held, !.left = offer.custom, !.phase = to]
    <2>1. req[q] \in Request /\ Moment(req[q].call.by) \in seen[q]
      BY <1>1, ServedLemma DEF Present, Ended
    <2>2. req[q].call \in Call
      BY <2>1, AdminAssumption DEF Request
    <2>3. offer.custom \subseteq Custom
      BY <2>2 DEF Call, Offer
    <2>4. Moment(req[q].call.by) \in Moments
      BY MomentType DEF IInv
    <2>5. Moment(req[q].call.by).held = held
      BY DEF Moment, MomentIn, HeldBy
    <2>6. held \subseteq Permission
      BY <2>4, <2>5 DEF Moments
    <2> HIDE DEF held
    <2>7. /\ y \in Request /\ y.phase = to /\ y.held = held /\ y.left = offer.custom
          /\ y.call = req[q].call /\ y.route = req[q].route /\ y.role = req[q].role
          /\ y.charged = req[q].charged /\ y.confirmed = req[q].confirmed
          /\ y.effected = req[q].effected /\ y.outcome = req[q].outcome
      BY <2>1, <2>3, <2>6 DEF Request, Phase
    <2>8. req' = [req EXCEPT ![q] = y]
      BY <1>3
    <2> HIDE DEF y
    <2>9. OfferSound(y, seen[q])
      BY <1>3, <2>1, <2>5, <2>7 DEF OfferSound, Writing
    <2>10. y.phase \in Working
      BY <2>7 DEF Working, Offering, Writing
    <2>11. QED
      BY <1>1, <2>7, <2>8, <2>9, <2>10, WorksSound, SeenStays, AdvanceStep
  <1>4. QED
    BY <1>2, <1>3 DEF ReadHeld

\* A custom role that passes lies within it at this moment.
LEMMA ReadCustomRoleStep ==
    ASSUME IInv, NEW q \in Req, ReadCustomRole(q)
    PROVE  IInv'
  <1>1. /\ req[q].phase = "roles" /\ req[q].phase \in Working
        /\ req[q].phase \notin Ended \cup {"idle"}
        /\ UNCHANGED <<table, memberVars, invitations, trail, seen, now, faults>>
    BY DEF ReadCustomRole, Working, Offering, Ended
  <1>2. CASE Ends(q, "failed", "refused")
    <2>1. invitations' \in [Invitation -> Row \cup {NoInvitation}] /\ RowsKept
      BY <1>1, SameRows
    <2>2. QED
      BY <1>1, <1>2, <2>1, EndsStep
  <1>3. ASSUME NEW c \in req[q].left, WithinReach(req[q], contents[c]),
               NEW to \in {"reserve", "roles"}, to = "reserve" => req[q].left = {c},
               req' = [req EXCEPT ![q] = [req[q] EXCEPT !.left = req[q].left \ {c},
                                             !.phase = to]]
        PROVE  IInv'
    <2> DEFINE y == [req[q] EXCEPT !.left = req[q].left \ {c}, !.phase = to]
               present == Moment(req[q].call.by)
    <2>1. /\ req[q] \in Request /\ present \in seen[q]
          /\ OfferSound(req[q], seen[q])
      BY <1>1, ServedLemma DEF Present, Ended, Sound
    <2>2. /\ y \in Request /\ y.phase = to /\ y.held = req[q].held
          /\ y.left = req[q].left \ {c}
          /\ y.call = req[q].call /\ y.route = req[q].route /\ y.role = req[q].role
          /\ y.charged = req[q].charged /\ y.confirmed = req[q].confirmed
          /\ y.effected = req[q].effected /\ y.outcome = req[q].outcome
      BY <2>1 DEF Request, Phase
    <2>3. req' = [req EXCEPT ![q] = y]
      BY <1>3
    <2> HIDE DEF y
    <2>4. present.contents[c] = contents[c]
      BY DEF Moment, MomentIn
    <2>5. Lay(c, req[q].held, seen[q])
      BY <1>3, <2>1, <2>4 DEF Lay, WithinReach
    <2>6. OfferSound(y, seen[q])
      BY <1>1, <1>3, <2>1, <2>2, <2>5 DEF OfferSound, Writing, Offering
    <2>7. y.phase \in Working
      BY <2>2 DEF Working, Offering, Writing
    <2>8. QED
      BY <1>1, <2>2, <2>3, <2>6, <2>7, WorksSound, SeenStays, AdvanceStep
  <1>4. PICK c \in req[q].left :
           /\ WithinReach(req[q], contents[c]) =>
                 req' = [req EXCEPT ![q] = [req[q] EXCEPT !.left = req[q].left \ {c},
                            !.phase = IF req[q].left = {c} THEN "reserve" ELSE "roles"]]
           /\ ~ WithinReach(req[q], contents[c]) => Ends(q, "failed", "refused")
    BY Zenon DEF ReadCustomRole
  <1>5. CASE WithinReach(req[q], contents[c])
    <2>1. PICK to \in {"reserve", "roles"} :
             to = IF req[q].left = {c} THEN "reserve" ELSE "roles"
      OBVIOUS
    <2>2. to = "reserve" => req[q].left = {c}
      BY <2>1
    <2>3. QED
      BY <1>3, <1>4, <1>5, <2>1, <2>2
  <1>6. QED
    BY <1>2, <1>4, <1>5

LEMMA ReservedStep ==
    ASSUME IInv, NEW q \in Req, Reserved(q)
    PROVE  IInv'
  <1> DEFINE y == [req[q] EXCEPT !.phase = "sweep"]
  <1>1. /\ req[q].phase = "reserve" /\ req[q].phase \in Working
        /\ UNCHANGED <<table, memberVars, invitations, trail, seen, now, faults>>
    BY DEF Reserved, Working, Offering, Writing
  <1>2. req[q] \in Request /\ OfferSound(req[q], seen[q])
    BY ServedLemma DEF Sound
  <1>3. /\ y \in Request /\ y.phase = "sweep" /\ y.held = req[q].held
        /\ y.left = req[q].left
        /\ y.call = req[q].call /\ y.route = req[q].route /\ y.role = req[q].role
        /\ y.charged = req[q].charged /\ y.confirmed = req[q].confirmed
        /\ y.effected = req[q].effected /\ y.outcome = req[q].outcome
    BY <1>2 DEF Request, Phase
  <1>4. req' = [req EXCEPT ![q] = y]
    BY DEF Reserved, GoesTo
  <1> HIDE DEF y
  <1>5. y.phase \in Working /\ OfferSound(y, seen[q])
    BY <1>1, <1>2, <1>3 DEF Working, OfferSound, Offering, Writing
  <1>6. QED
    BY <1>1, <1>3, <1>4, <1>5, WorksSound, SeenStays, AdvanceStep

\* The sweep takes the address of rows and nothing else.
LEMMA SweepRows ==
    ASSUME IInv, NEW q \in Req, Sweep(q)
    PROVE  /\ invitations' \in [Invitation -> Row \cup {NoInvitation}]
           /\ RowsKept
           /\ \A i \in Invitation : invitations[i] = NoInvitation =>
                                        invitations'[i] = NoInvitation
  <1>1. invitations \in [Invitation -> Row \cup {NoInvitation}]
    BY DEF IInv, TypeOK
  <1>2. PICK some \in SUBSET LapsedAt(req[q].at) :
           invitations' = [i \in Invitation |->
               IF i \in some THEN Swept(invitations[i]) ELSE invitations[i]]
    BY DEF Sweep
  <1>3. ASSUME NEW i \in some
        PROVE  /\ i \in Invitation /\ invitations[i] \in Row
               /\ invitations[i] # NoInvitation
               /\ Swept(invitations[i]) \in Row
               /\ Swept(invitations[i]).by = invitations[i].by
               /\ Swept(invitations[i]).offer = invitations[i].offer
    <2>1. i \in Invitation /\ invitations[i] # NoInvitation
      BY <1>3 DEF LapsedAt, Exists
    <2>2. invitations[i] \in Row
      BY <1>1, <2>1
    <2>3. PICK row \in Row : row = invitations[i]
      BY <2>2
    <2>4. Swept(row) \in Row /\ Swept(row).by = row.by /\ Swept(row).offer = row.offer
      BY DEF Swept, Row
    <2>5. QED
      BY <2>1, <2>3, <2>4
  <1>4. \A row \in Row : row # NoInvitation
    <2>1. \A row \in Row : row.status # NoInvitation.status
      BY DEF Row, NoInvitation
    <2>2. QED
      BY <2>1
  <1>5. QED
    BY <1>1, <1>2, <1>3, <1>4 DEF RowsKept

LEMMA SweepStep ==
    ASSUME IInv, NEW q \in Req, Sweep(q)
    PROVE  IInv'
  <1>1. /\ req[q].phase = "sweep" /\ req[q].phase \in Working
        /\ req[q].phase \notin Ended \cup {"idle"}
        /\ UNCHANGED <<table, memberVars, trail, seen, now>>
    BY DEF Sweep, Working, Offering, Writing, Ended
  <1>2. CASE Fault /\ Ends(q, "failed", "unavailable")
    BY <1>1, <1>2, SweepRows, EndsStep
  <1>3. CASE GoesTo(q, "insert") /\ UNCHANGED faults
    <2> DEFINE y == [req[q] EXCEPT !.phase = "insert"]
    <2>1. req[q] \in Request /\ OfferSound(req[q], seen[q])
      BY ServedLemma DEF Sound
    <2>2. /\ y \in Request /\ y.phase = "insert" /\ y.held = req[q].held
          /\ y.left = req[q].left
          /\ y.call = req[q].call /\ y.route = req[q].route /\ y.role = req[q].role
          /\ y.charged = req[q].charged /\ y.confirmed = req[q].confirmed
          /\ y.effected = req[q].effected /\ y.outcome = req[q].outcome
      BY <2>1 DEF Request, Phase
    <2>3. req' = [req EXCEPT ![q] = y]
      BY <1>3 DEF GoesTo
    <2> HIDE DEF y
    <2>4. y.phase \in Working /\ OfferSound(y, seen[q])
      BY <1>1, <2>1, <2>2 DEF Working, OfferSound, Offering, Writing
    <2>5. /\ req[q].phase \notin Ended /\ y.phase \notin Ended /\ y.outcome = "none"
          /\ Sound(y, seen[q]) /\ Present(y, seen[q])
      BY <1>1, <2>2, <2>4, WorksSound
    <2>6. Becomes(q, y, seen[q]) /\ seen[q] \in SUBSET Moments
      BY <1>1, <2>3, SeenStays
    <2>7. Traced(q, y, trail)
      BY <2>5, ServedLemma DEF Traced, Ended
    <2>8. now' \in Time /\ faults' \in 0 .. MaxFaults /\ trail' \subseteq Req \X Outcome
      BY <1>1, <1>3, FaultType, ServedLemma
    <2>9. RowsMadeBy(q, y.call.offer)
      BY SweepRows DEF RowsMadeBy
    <2>10. QED
      BY <1>1, <2>2, <2>5, <2>6, <2>7, <2>8, <2>9, SweepRows, StepLemma
  <1>4. QED
    BY <1>2, <1>3 DEF Sweep

\* The row that is made offers what was cleared.
LEMMA InsertStep ==
    ASSUME IInv, NEW q \in Req, Insert(q)
    PROVE  IInv'
  <1>1. /\ req[q].phase = "insert" /\ req[q].phase \in Working
        /\ req[q].phase \in Offering /\ req[q].phase \in Writing
        /\ UNCHANGED <<table, memberVars, trail, seen, now>>
    BY DEF Insert, Working, Offering, Writing
  <1>2. PICK outcome \in {"ok", "failed"}, code \in {"ok", "unavailable"} :
           /\ outcome = "ok" => code = "ok"
           /\ req' = [req EXCEPT ![q] =
                         [Decided(req[q], outcome, code) EXCEPT !.effected = TRUE]]
    BY SaidLemma DEF Insert
  <1>3. Fault \/ UNCHANGED faults
    BY DEF Insert
  <1> DEFINE y == [Decided(req[q], outcome, code) EXCEPT !.effected = TRUE]
  <1>4. /\ y \in Request /\ y.phase = "record" /\ y.call = req[q].call
        /\ Sound(y, seen[q]) /\ Present(y, seen[q]) /\ Traced(q, y, trail)
    BY <1>1, <1>2, EffectLemma
  <1>5. Becomes(q, y, seen[q]) /\ seen[q] \in SUBSET Moments
    BY <1>1, <1>2, SeenStays
  <1> HIDE DEF y
  <1>6. now' \in Time /\ faults' \in 0 .. MaxFaults /\ trail' \subseteq Req \X Outcome
    BY <1>1, <1>3, FaultType, ServedLemma
  <1>7. req[q] \in Request /\ OfferSound(req[q], seen[q])
    BY ServedLemma DEF Sound
  <1>8. req[q].call \in Call /\ req[q].call.offer \in Offer
    BY <1>7, AdminAssumption DEF Request, Call
  <1>9. Within(req[q].call.offer, seen[q])
    BY <1>1, <1>7 DEF OfferSound, Within
  <1> DEFINE row == [status |-> "pending", address |-> TRUE, created |-> req[q].at,
                     expires |-> req[q].at + Lifetime, offer |-> req[q].call.offer,
                     by |-> q]
  <1>10. row \in Row /\ row.by = q /\ row.offer = req[q].call.offer
    <2>1. req[q].at \in Time
      BY <1>7 DEF Request
    <2>2. req[q].at + Lifetime \in Nat
      BY <2>1, AdminAssumption DEF Time
    <2>3. QED
      BY <1>8, <2>1, <2>2 DEF Row
  <1>11. PICK i \in Invitation : /\ invitations[i] = NoInvitation
                                 /\ invitations' = [invitations EXCEPT ![i] = row]
    BY DEF Insert, Exists
  <1> HIDE DEF row
  <1>12. invitations \in [Invitation -> Row \cup {NoInvitation}]
    BY DEF IInv, TypeOK
  <1>13. /\ invitations' \in [Invitation -> Row \cup {NoInvitation}]
         /\ RowsKept /\ RowsMadeBy(q, y.call.offer)
    BY <1>4, <1>10, <1>11, <1>12 DEF RowsKept, RowsMadeBy
  <1>14. y.phase \in Ended /\ Within(y.call.offer, seen[q])
    BY <1>4, <1>9 DEF Ended
  <1>15. QED
    BY <1>1, <1>4, <1>5, <1>6, <1>13, <1>14, StepLemma

-----------------------------------------------------------------------------
\* The records: recordThen.

\* A request whose outcome is decided is done, as y.
LEMMA DoneStep ==
    ASSUME IInv, NEW q \in Req, NEW y \in Request, req[q].phase = "record",
           y.phase = "done", y.call = req[q].call, y.route = req[q].route,
           y.charged = req[q].charged, y.confirmed = req[q].confirmed,
           y.effected = req[q].effected, y.outcome = req[q].outcome,
           y.answer \in {req[q].answer, "unavailable"},
           req' = [req EXCEPT ![q] = y],
           trail' \in {trail, trail \cup {<<q, req[q].outcome>>}},
           Route(req[q]).audited =>
              y.answer = "unavailable" \/ <<q, req[q].outcome>> \in trail',
           UNCHANGED <<table, memberVars, invitations, seen, now>>,
           Fault \/ UNCHANGED faults
    PROVE  IInv'
  <1>1. /\ req[q] \in Request /\ Sound(req[q], seen[q]) /\ Traced(q, req[q], trail)
        /\ trail \subseteq Req \X Outcome
    BY ServedLemma
  <1>2. Route(y) = Route(req[q]) /\ Needs(y) = Needs(req[q])
    BY SameNeeds
  <1>3. Entitled(y, seen[q]) <=> Entitled(req[q], seen[q])
    BY <1>2 DEF Entitled
  <1>4. Sound(y, seen[q]) /\ Present(y, seen[q])
    BY <1>1, <1>2, <1>3 DEF Sound, RoleSound, ChecksSound, EffectSound, OfferSound,
            Judged, Passed, Working, Offering, Writing, Ended, Present
  <1>5. \A o \in Outcome : <<q, o>> \notin trail
    BY <1>1 DEF Traced
  <1>6. Traced(q, y, trail')
    <2>1. req[q].outcome = "ok" => req[q].answer \in {"ok", "unavailable"}
      BY <1>1 DEF Traced, Ended
    <2>2. ASSUME NEW o \in Outcome, <<q, o>> \in trail'
          PROVE  o = req[q].outcome
      BY <1>5, <2>2
    <2>3. QED
      BY <1>2, <2>1, <2>2 DEF Traced, Ended
  <1>7. req[q].outcome \in Outcome
    BY <1>1 DEF Request
  <1>8. /\ trail' \subseteq Req \X Outcome
        /\ \A p \in Req \ {q}, o \in Outcome : <<p, o>> \in trail' <=> <<p, o>> \in trail
    BY <1>1, <1>7
  <1>9. now' \in Time /\ faults' \in 0 .. MaxFaults
    BY FaultType
  <1>10. Becomes(q, y, seen[q]) /\ seen[q] \in SUBSET Moments
    BY SeenStays
  <1>11. /\ invitations' \in [Invitation -> Row \cup {NoInvitation}]
         /\ RowsKept /\ RowsMadeBy(q, y.call.offer)
    BY SameRows
  <1>12. y.phase \in Ended
    BY DEF Ended
  <1>13. QED
    BY <1>4, <1>6, <1>8, <1>9, <1>10, <1>11, <1>12, StepLemma

LEMMA RecordStep ==
    ASSUME IInv, NEW q \in Req, Record(q)
    PROVE  IInv'
  <1>1. req[q] \in Request
    BY ServedLemma
  <1>2. CASE Unrecorded(q) \/ Recorded(q)
    <2> DEFINE y == [req[q] EXCEPT !.phase = "done"]
    <2>1. /\ y \in Request /\ y.phase = "done"
          /\ y.call = req[q].call /\ y.route = req[q].route
          /\ y.charged = req[q].charged /\ y.confirmed = req[q].confirmed
          /\ y.effected = req[q].effected /\ y.outcome = req[q].outcome
          /\ y.answer = req[q].answer
      BY <1>1 DEF Request, Phase
    <2>2. /\ req' = [req EXCEPT ![q] = y] /\ req[q].phase = "record"
          /\ UNCHANGED <<table, memberVars, invitations, seen, now, faults>>
          /\ trail' \in {trail, trail \cup {<<q, req[q].outcome>>}}
          /\ Route(req[q]).audited => <<q, req[q].outcome>> \in trail'
      BY <1>2 DEF Unrecorded, Recorded, GoesTo
    <2> HIDE DEF y
    <2>3. QED
      BY <2>1, <2>2, DoneStep
  <1>3. CASE NotRecorded(q)
    <2> DEFINE y == Unanswered(req[q])
    <2>1. /\ y \in Request /\ y.phase = "done"
          /\ y.call = req[q].call /\ y.route = req[q].route
          /\ y.charged = req[q].charged /\ y.confirmed = req[q].confirmed
          /\ y.effected = req[q].effected /\ y.outcome = req[q].outcome
          /\ y.answer = "unavailable"
      BY <1>1 DEF Request, Phase, Answer, Unanswered
    <2>2. /\ req' = [req EXCEPT ![q] = y] /\ req[q].phase = "record"
          /\ UNCHANGED <<table, memberVars, invitations, seen, now>> /\ Fault
          /\ trail' \in {trail, trail \cup {<<q, req[q].outcome>>}}
      BY <1>3 DEF NotRecorded
    <2> HIDE DEF y
    <2>3. QED
      BY <2>1, <2>2, DoneStep
  <1>4. QED
    BY <1>2, <1>3 DEF Record

-----------------------------------------------------------------------------
\* The members and the custom roles: others change them, and every request that
\* is being served sees it.
LEMMA ChangeStep ==
    ASSUME IInv, NEW member \in [Principal -> Stored],
           NEW given \in [Principal -> SUBSET Custom],
           NEW defined \in [Custom -> Definable \cup {Undefined}],
           stored' = member, assigned' = given, contents' = defined,
           seen' = SeenBy(member, given, defined),
           changes' = changes + 1, changes < MaxChanges,
           UNCHANGED <<table, invitations, req, trail, now, faults>>
    PROVE  IInv'
  <1>1. /\ req \in [Req -> Request] /\ seen \in [Req -> SUBSET Moments]
        /\ changes \in 0 .. MaxChanges /\ MaxChanges \in Nat
    BY AdminAssumption DEF IInv, TypeOK, Moments
  <1> DEFINE next(q) == MomentIn(member, given, defined, req[q].call.by)
  <1>3. ASSUME NEW q \in Req
        PROVE  /\ seen[q] \subseteq seen'[q]
               /\ Serving(q) => next(q) \in seen'[q]
               /\ seen'[q] \subseteq seen[q] \cup {next(q)}
    BY DEF SeenBy
  <1>4. \A q \in Req : next(q) \in Moments
    BY MomentInType
  <1> HIDE DEF next
  <1>5. \A q \in Req : seen'[q] \in SUBSET Moments
    BY <1>1, <1>3, <1>4
  <1>6. seen' \in [Req -> SUBSET Moments]
    <2>1. \A q \in Req : seen'[q] \in SUBSET Moments
      BY <1>5
    <2>2. seen' = [q \in Req |-> seen'[q]]
      BY DEF SeenBy
    <2>3. QED
      BY <2>1, <2>2
  <1>7. TypeOK'
    BY <1>1, <1>6 DEF IInv, TypeOK, Moments
  <1>8. ASSUME NEW q \in Req PROVE Sound(req[q], seen[q])'
    <2>0. PICK n : n = seen'[q]
      OBVIOUS
    <2>1. PICK x \in Request : x = req[q] /\ n = seen'[q]
      BY <1>1, <2>0
    <2>2. Sound(x, n)
      BY <2>1, <1>3, MoreMoments DEF IInv
    <2>3. Sound(x, n)'
      BY <2>2, TableStays
    <2>4. QED
      BY <2>1, <2>3
  <1>9. ASSUME NEW q \in Req PROVE Present(req[q], seen[q])'
    <2>1. Moment(req[q].call.by)' = next(q)
      BY DEF Moment, next
    <2>2. req[q].phase \notin {"idle", "done"} => next(q) \in seen'[q]
      BY <1>3 DEF Serving
    <2>3. QED
      BY <2>1, <2>2 DEF Present
  <1>10. ASSUME NEW q \in Req PROVE Traced(q, req[q], trail)'
    <2>1. PICK x \in Request : x = req[q]
      BY <1>1
    <2>2. Traced(q, x, trail) /\ Route(x)' = Route(x)
      BY <2>1 DEF IInv, Route
    <2>3. Traced(q, x, trail)'
      BY <2>2 DEF Traced
    <2>4. QED
      BY <2>1, <2>3
  <1>11. ASSUME NEW i \in Invitation PROVE Backed(invitations[i])'
    <2> SUFFICES ASSUME invitations[i] # NoInvitation, invitations[i].by \in Req
                 PROVE  /\ req[invitations[i].by].phase \in Ended
                        /\ Within(invitations[i].offer, seen'[invitations[i].by])
      BY DEF Backed, Within, Lay
    <2>1. PICK p \in Req : p = invitations[i].by
      OBVIOUS
    <2>2. req[p].phase \in Ended /\ Within(invitations[i].offer, seen[p])
      BY <2>1 DEF IInv, Backed
    <2>3. QED
      BY <2>1, <2>2, <1>3, MoreWithin
  <1>12. QED
    BY <1>7, <1>8, <1>9, <1>10, <1>11 DEF IInv

LEMMA MembersStep ==
    ASSUME IInv,
           \/ \E p \in Principal : AssignRole(p) \/ AssignCustomRoles(p)
           \/ \E c \in Custom : ReplaceCustomRole(c)
    PROVE  IInv'
  <1>1. /\ stored \in [Principal -> Stored]
        /\ assigned \in [Principal -> SUBSET Custom]
        /\ contents \in [Custom -> Definable \cup {Undefined}]
    BY DEF IInv, TypeOK
  <1>2. ASSUME NEW p \in Principal, AssignRole(p) PROVE IInv'
    <2>1. PICK role \in Offered \cup {"none"} :
             /\ stored' = [stored EXCEPT ![p] = role]
             /\ assigned' = IF role = "none" THEN [assigned EXCEPT ![p] = {}]
                            ELSE assigned
             /\ seen' = SeenBy(stored', assigned', contents)
      BY <1>2 DEF AssignRole
    <2>2. stored' \in [Principal -> Stored] /\ assigned' \in [Principal -> SUBSET Custom]
      BY <1>1, <2>1 DEF Stored, Offered
    <2>3. PICK member \in [Principal -> Stored], given \in [Principal -> SUBSET Custom] :
             member = stored' /\ given = assigned'
      BY <2>2
    <2>4. QED
      BY <1>1, <1>2, <2>1, <2>3, ChangeStep DEF AssignRole
  <1>3. ASSUME NEW p \in Principal, AssignCustomRoles(p) PROVE IInv'
    <2>1. PICK custom \in SUBSET Custom :
             /\ assigned' = [assigned EXCEPT ![p] = custom]
             /\ seen' = SeenBy(stored, assigned', contents)
      BY <1>3 DEF AssignCustomRoles
    <2>2. PICK given \in [Principal -> SUBSET Custom] : given = assigned'
      BY <1>1, <2>1
    <2>3. QED
      BY <1>1, <1>3, <2>1, <2>2, ChangeStep DEF AssignCustomRoles
  <1>4. ASSUME NEW c \in Custom, ReplaceCustomRole(c) PROVE IInv'
    <2>1. PICK permissions \in Definable \cup {Undefined} :
             /\ contents' = [contents EXCEPT ![c] = permissions]
             /\ seen' = SeenBy(stored, assigned, contents')
      BY <1>4 DEF ReplaceCustomRole
    <2>2. PICK defined \in [Custom -> Definable \cup {Undefined}] : defined = contents'
      BY <1>1, <2>1
    <2>3. QED
      BY <1>1, <1>4, <2>1, <2>2, ChangeStep DEF ReplaceCustomRole
  <1>5. QED
    BY <1>2, <1>3, <1>4

-----------------------------------------------------------------------------
\* A step that touches none of this.
LEMMA QuietStep ==
    ASSUME IInv, now' \in Time,
           UNCHANGED <<table, memberVars, invitations, req, trail, seen, faults>>
    PROVE  IInv'
  <1>1. TypeOK'
    BY DEF IInv, TypeOK, memberVars
  <1>2. ASSUME NEW q \in Req
        PROVE  /\ Sound(req[q], seen[q])' /\ Present(req[q], seen[q])'
               /\ Traced(q, req[q], trail)'
    <2>0. PICK n : n = seen[q]
      OBVIOUS
    <2>1. PICK x \in Request : x = req[q] /\ n = seen[q]
      BY <2>0 DEF IInv, TypeOK
    <2>2. Sound(x, n) /\ Present(x, n) /\ Traced(q, x, trail)
      BY <2>1 DEF IInv
    <2>3. Sound(x, n)'
      BY <2>2, TableStays
    <2>4. Present(x, n)'
      BY <2>2 DEF Present, Moment, MomentIn, memberVars
    <2>5. Traced(q, x, trail)'
      BY <2>2 DEF Traced, Route
    <2>6. QED
      BY <2>1, <2>3, <2>4, <2>5
  <1>3. ASSUME NEW i \in Invitation PROVE Backed(invitations[i])'
    BY DEF IInv, Backed, Within, Lay
  <1>4. QED
    BY <1>1, <1>2, <1>3 DEF IInv

LEMMA InitInv == Init => IInv
  <1> SUFFICES ASSUME Init PROVE IInv
    OBVIOUS
  <1>1. TypeOK
    BY AdminAssumption, IdleType DEF Init, TypeOK, Time, Registered
  <1>2. ASSUME NEW q \in Req
        PROVE  /\ Sound(req[q], seen[q]) /\ Present(req[q], seen[q])
               /\ Traced(q, req[q], trail)
    <2>1. req[q] = Idle /\ trail = {}
      BY DEF Init
    <2>2. QED
      BY <2>1, IdleType DEF Sound, RoleSound, ChecksSound, EffectSound, OfferSound,
         Judged, Passed, Working, Offering, Writing, Ended, Present, Traced
  <1>3. ASSUME NEW i \in Invitation PROVE Backed(invitations[i])
    BY AdminAssumption DEF Init, Backed
  <1>4. QED
    BY <1>1, <1>2, <1>3 DEF IInv

LEMMA NextInv == IInv /\ [Next]_vars => IInv'
  <1> SUFFICES ASSUME IInv, [Next]_vars PROVE IInv'
    OBVIOUS
  <1>1. ASSUME NEW q \in Req, Dispatch(q) PROVE IInv'
    BY <1>1, AskStep, AuthenticateStep, ResolveStep, NotResolvedStep, ChargedStep,
       AuthorizeStep, ConfirmedStep, FailedStep DEF Dispatch
  <1>2. ASSUME NEW q \in Req, Handler(q) PROVE IInv'
    BY <1>2, FailedStep, HandleStep, InviteStep, ReadHeldStep, ReadCustomRoleStep,
       ReservedStep, SweepStep, InsertStep DEF Handler
  <1>3. ASSUME NEW q \in Req, Record(q) PROVE IInv'
    BY <1>3, RecordStep
  <1>4. CASE \/ \E p \in Principal : AssignRole(p) \/ AssignCustomRoles(p)
             \/ \E c \in Custom : ReplaceCustomRole(c)
    BY <1>4, MembersStep
  <1>5. CASE OpenWalk \/ NextPage \/ Finished \/ UNCHANGED vars
    <2>1. UNCHANGED <<table, memberVars, invitations, req, trail, seen, now, faults>>
      BY <1>5 DEF OpenWalk, NextPage, Finished, vars
    <2>2. now' \in Time
      BY <2>1, FaultType
    <2>3. QED
      BY <2>1, <2>2, QuietStep
  <1>6. CASE Tick
    <2>1. now' \in Time
      BY <1>6, FaultType, AdminAssumption DEF Tick, Time
    <2>2. QED
      BY <1>6, <2>1, QuietStep DEF Tick
  <1>7. QED
    BY <1>1, <1>2, <1>3, <1>4, <1>5, <1>6 DEF Next

LEMMA InvariantHolds == Spec => []IInv
  <1>1. QED
    BY InitInv, NextInv, PTL DEF Spec

\* Every variable stays in its range (TenantAdminRouteRequest, InvitationRecord).
THEOREM TypesKept == Spec => []TypeOK
  <1>1. IInv => TypeOK
    BY DEF IInv
  <1>2. QED
    BY <1>1, InvariantHolds, PTL

\* Nothing is done but by a caller whose role granted, at one moment of its
\* request, a whole conjunction of its route, with its confirmation and its charge
\* (dispatchTenantAdminRoute).
THEOREM OnlyEntitled == Spec => []EffectIsEntitled
  <1>1. IInv => EffectIsEntitled
    BY DEF IInv, Sound, EffectSound, Entitled, EffectIsEntitled
  <1>2. QED
    BY <1>1, InvariantHolds, PTL

\* No invitation offers more than its inviter held at one moment of its request,
\* by its role and its custom roles together (clearGrantCeiling), however many it
\* offers and however often they, and who holds them, change.
THEOREM OffersWithin == Spec => []OfferWithinReach
  <1>1. IInv => OfferWithinReach
    BY DEF IInv, Backed, Within, Lay, OfferWithinReach, Exists
  <1>2. QED
    BY <1>1, InvariantHolds, PTL

\* What an audited route answers is in the trail before it is told (recordThen).
THEOREM RecordedFirst == Spec => []AnsweredAsRecorded
  <1>1. IInv => AnsweredAsRecorded
    <2> SUFFICES ASSUME IInv, NEW q \in Req, req[q].phase = "done",
                        req[q].route # 0, Route(req[q]).audited
                 PROVE  /\ <<q, "ok">> \in trail => req[q].answer \in {"ok", "unavailable"}
                        /\ req[q].answer # "unavailable" /\ req[q].outcome # "none" =>
                              <<q, req[q].outcome>> \in trail
      BY DEF AnsweredAsRecorded
    <2>1. Traced(q, req[q], trail) /\ "ok" \in Outcome
      BY DEF IInv, Outcome
    <2>2. QED
      BY <2>1 DEF Traced, Ended
  <1>2. QED
    BY <1>1, InvariantHolds, PTL

-----------------------------------------------------------------------------
(* The invitations keep the promise of InvitationLives.                     *)

\* No request reads a later time than it is, and a row that says it is over is
\* over: what a sweep wrote by an older reading of the clock stays true.
Dated ==
    /\ \A q \in Req : req[q].at <= now
    /\ \A i \in Invitation :
          Exists(i) /\ invitations[i].status = "expired" => invitations[i].expires <= now

\* What a step leaves of the rows, when it is not one of those below.
RowsStay == UNCHANGED <<invitations, now>> /\ \A q \in Req : req'[q].at \in {req[q].at, now, 0}

LEMMA RowIsOne == \A row \in Row : row # NoInvitation /\ row.expires \in Nat
  <1>1. \A row \in Row : row.status # NoInvitation.status
    BY DEF Row, NoInvitation
  <1>2. QED
    BY <1>1 DEF Row

LEMMA TimeLemma ==
    ASSUME TypeOK
    PROVE  /\ now \in Nat /\ \A q \in Req : req[q].at \in Nat /\ req[q] \in Request
           /\ Idle.at = 0 /\ req \in [Req -> Request]
  <1>1. Time \subseteq Nat
    BY AdminAssumption DEF Time
  <1>2. QED
    BY <1>1 DEF TypeOK, Request, Idle

\* Only a sweep and an insertion touch a row, and only a tick the clock.
LEMMA DatesStep ==
    ASSUME TypeOK, [Next]_vars
    PROVE  \/ RowsStay
           \/ \E q \in Req : Sweep(q) \/ Insert(q)
           \/ Tick
  <1> USE TimeLemma
  <1>1. ASSUME NEW q \in Req, NEW y, req' = [req EXCEPT ![q] = y],
               y.at \in {req[q].at, now, 0}
        PROVE  \A p \in Req : req'[p].at \in {req[p].at, now, 0}
    BY <1>1
  <1>2. ASSUME NEW q \in Req, NEW code, Refused(q, code)
        PROVE  \A p \in Req : req'[p].at \in {req[p].at, now, 0}
    <2> DEFINE y == [Idle EXCEPT !.phase = "done", !.answer = code]
    <2>1. y.at = 0
      BY DEF Idle
    <2>2. req' = [req EXCEPT ![q] = y]
      BY <1>2 DEF Refused
    <2> HIDE DEF y
    <2>3. QED
      BY <2>1, <2>2, <1>1
  <1>3. ASSUME NEW q \in Req, NEW o, NEW code, Ends(q, o, code)
        PROVE  \A p \in Req : req'[p].at \in {req[p].at, now, 0}
    <2>1. PICK r \in Request : r = req[q]
      OBVIOUS
    <2>2. Decided(r, o, code).at = 0
      BY DEF Decided, Request
    <2>3. req' = [req EXCEPT ![q] = Decided(r, o, code)]
      BY <1>3, <2>1 DEF Ends
    <2>4. QED
      BY <2>2, <2>3, <1>1
  <1>4. ASSUME NEW q \in Req, NEW phase, GoesTo(q, phase)
        PROVE  \A p \in Req : req'[p].at \in {req[p].at, now, 0}
    <2>1. PICK r \in Request : r = req[q]
      OBVIOUS
    <2>2. [r EXCEPT !.phase = phase].at = r.at
      BY DEF Request
    <2>3. req' = [req EXCEPT ![q] = [r EXCEPT !.phase = phase]]
      BY <1>4, <2>1 DEF GoesTo
    <2>4. QED
      BY <2>1, <2>2, <2>3, <1>1
  <1>5. ASSUME NEW q \in Req, Dispatch(q) PROVE RowsStay
    <2>1. UNCHANGED <<invitations, now>>
      BY <1>5 DEF Dispatch, Ask, Authenticate, Resolve, NotResolved, Charged, NotCharged,
                  Authorize, Confirmed, NotConfirmed
    <2>2. PICK r \in Request : r = req[q]
      OBVIOUS
    <2>3. CASE Ask(q)
      <3>1. CASE Refused(q, "refused")
        BY <2>1, <3>1, <1>2 DEF RowsStay
      <3>2. CASE ~ Refused(q, "refused")
        <4>1. PICK c, k : req' = [req EXCEPT ![q] =
                             [Idle EXCEPT !.phase = "session", !.call = c, !.route = k]]
          BY <2>3, <3>2 DEF Ask
        <4> DEFINE y == [Idle EXCEPT !.phase = "session", !.call = c, !.route = k]
        <4>2. y.at = 0
          BY DEF Idle
        <4>3. req' = [req EXCEPT ![q] = y]
          BY <4>1
        <4> HIDE DEF y
        <4>4. QED
          BY <2>1, <4>2, <4>3, <1>1 DEF RowsStay
      <3>3. QED
        BY <3>1, <3>2
    <2>4. CASE Resolve(q)
      <3>1. CASE Refused(q, "refused")
        BY <2>1, <3>1, <1>2 DEF RowsStay
      <3>2. CASE ~ Refused(q, "refused")
        <4>1. PICK role, phase : req' = [req EXCEPT ![q] =
                                           [r EXCEPT !.role = role, !.phase = phase]]
          BY <2>2, <2>4, <3>2 DEF Resolve
        <4> DEFINE y == [r EXCEPT !.role = role, !.phase = phase]
        <4>2. y.at = r.at
          BY DEF Request
        <4>3. req' = [req EXCEPT ![q] = y]
          BY <4>1
        <4> HIDE DEF y
        <4>4. QED
          BY <2>1, <2>2, <4>2, <4>3, <1>1 DEF RowsStay
      <3>3. QED
        BY <3>1, <3>2
    <2>5. CASE Charged(q)
      <3>1. req' = [req EXCEPT ![q] = [r EXCEPT !.phase = "authorize", !.charged = TRUE]]
        BY <2>2, <2>5 DEF Charged
      <3>2. [r EXCEPT !.phase = "authorize", !.charged = TRUE].at = r.at
        BY DEF Request
      <3>3. QED
        BY <2>1, <2>2, <3>1, <3>2, <1>1 DEF RowsStay
    <2>6. CASE Confirmed(q)
      <3>1. req' = [req EXCEPT ![q] = [r EXCEPT !.phase = "handle", !.confirmed = TRUE]]
        BY <2>2, <2>6 DEF Confirmed
      <3>2. [r EXCEPT !.phase = "handle", !.confirmed = TRUE].at = r.at
        BY DEF Request
      <3>3. QED
        BY <2>1, <2>2, <3>1, <3>2, <1>1 DEF RowsStay
    <2>7. CASE \/ Authenticate(q) \/ NotResolved(q) \/ NotCharged(q)
               \/ Authorize(q) \/ NotConfirmed(q)
      <3>1. \/ \E code : Refused(q, code)
            \/ \E phase : GoesTo(q, phase)
            \/ \E o, code : Ends(q, o, code)
        BY <2>7 DEF Authenticate, NotResolved, NotCharged, Authorize, NotConfirmed
      <3>2. QED
        BY <2>1, <3>1, <1>2, <1>3, <1>4 DEF RowsStay
    <2>8. QED
      BY <1>5, <2>3, <2>4, <2>5, <2>6, <2>7 DEF Dispatch
  <1>6. ASSUME NEW q \in Req, Handler(q), ~ Sweep(q), ~ Insert(q) PROVE RowsStay
    <2>1. UNCHANGED <<invitations, now>>
      BY <1>6 DEF Handler, NotHandled, Handle, Invite, ReadHeld, ReadCustomRole, Reserved,
                  NotReserved, CallFails
    <2>2. PICK r \in Request : r = req[q]
      OBVIOUS
    <2>3. CASE Handle(q)
      <3>1. PICK o, c : req' = [req EXCEPT ![q] =
                                  [Decided(r, o, c) EXCEPT !.effected = TRUE]]
        BY <2>2, <2>3 DEF Handle
      <3>2. [Decided(r, o, c) EXCEPT !.effected = TRUE].at = 0
        BY DEF Decided, Request
      <3>3. QED
        BY <2>1, <3>1, <3>2, <1>1 DEF RowsStay
    <2>4. CASE Invite(q)
      <3>1. req' = [req EXCEPT ![q] = [r EXCEPT !.phase = "ceiling", !.at = now]]
        BY <2>2, <2>4 DEF Invite
      <3>2. [r EXCEPT !.phase = "ceiling", !.at = now].at = now
        BY DEF Request
      <3>3. QED
        BY <2>1, <3>1, <3>2, <1>1 DEF RowsStay
    <2>5. CASE ReadHeld(q)
      <3>1. CASE Ends(q, "failed", "refused")
        BY <2>1, <3>1, <1>3 DEF RowsStay
      <3>2. CASE ~ Ends(q, "failed", "refused")
        <4>1. PICK held, left, phase : req' = [req EXCEPT ![q] =
                 [r EXCEPT !.held = held, !.left = left, !.phase = phase]]
          <5>1. req' = [req EXCEPT ![q] = [r EXCEPT !.held = HeldBy(r.call.by),
                   !.left = r.call.offer.custom,
                   !.phase = IF r.call.offer.custom = {} THEN "reserve" ELSE "roles"]]
            BY <2>2, <2>5, <3>2 DEF ReadHeld
          <5>2. QED
            BY <5>1
        <4> DEFINE y == [r EXCEPT !.held = held, !.left = left, !.phase = phase]
        <4>2. y.at = r.at
          BY DEF Request
        <4>3. req' = [req EXCEPT ![q] = y]
          BY <4>1
        <4> HIDE DEF y
        <4>4. QED
          BY <2>1, <2>2, <4>2, <4>3, <1>1 DEF RowsStay
      <3>3. QED
        BY <3>1, <3>2
    <2>6. CASE ReadCustomRole(q)
      <3>1. CASE Ends(q, "failed", "refused")
        BY <2>1, <3>1, <1>3 DEF RowsStay
      <3>2. CASE ~ Ends(q, "failed", "refused")
        <4>1. PICK left, phase : req' = [req EXCEPT ![q] =
                 [r EXCEPT !.left = left, !.phase = phase]]
          BY <2>2, <2>6, <3>2 DEF ReadCustomRole
        <4> DEFINE y == [r EXCEPT !.left = left, !.phase = phase]
        <4>2. y.at = r.at
          BY DEF Request
        <4>3. req' = [req EXCEPT ![q] = y]
          BY <4>1
        <4> HIDE DEF y
        <4>4. QED
          BY <2>1, <2>2, <4>2, <4>3, <1>1 DEF RowsStay
      <3>3. QED
        BY <3>1, <3>2
    <2>7. CASE NotHandled(q) \/ Reserved(q) \/ NotReserved(q) \/ CallFails(q)
      <3>1. \/ \E phase : GoesTo(q, phase)
            \/ \E o, code : Ends(q, o, code)
        BY <2>7 DEF NotHandled, Reserved, NotReserved, CallFails
      <3>2. QED
        BY <2>1, <3>1, <1>3, <1>4 DEF RowsStay
    <2>8. QED
      BY <1>6, <2>3, <2>4, <2>5, <2>6, <2>7 DEF Handler
  <1>7. ASSUME NEW q \in Req, Record(q) PROVE RowsStay
    <2>1. UNCHANGED <<invitations, now>>
      BY <1>7 DEF Record, Unrecorded, Recorded, NotRecorded
    <2>2. PICK r \in Request : r = req[q]
      OBVIOUS
    <2>3. CASE NotRecorded(q)
      <3>1. req' = [req EXCEPT ![q] = Unanswered(r)]
        BY <2>2, <2>3 DEF NotRecorded
      <3>2. Unanswered(r).at = r.at
        BY DEF Request, Unanswered
      <3>3. QED
        BY <2>1, <2>2, <3>1, <3>2, <1>1 DEF RowsStay
    <2>4. CASE Unrecorded(q) \/ Recorded(q)
      <3>1. GoesTo(q, "done")
        BY <2>4 DEF Unrecorded, Recorded
      <3>2. QED
        BY <2>1, <3>1, <1>4 DEF RowsStay
    <2>5. QED
      BY <1>7, <2>3, <2>4 DEF Record
  <1>8. ASSUME UNCHANGED <<invitations, req, now>> PROVE RowsStay
    BY <1>8 DEF RowsStay
  <1>9. CASE \/ \E p \in Principal : AssignRole(p) \/ AssignCustomRoles(p)
             \/ \E c \in Custom : ReplaceCustomRole(c)
             \/ OpenWalk \/ NextPage \/ Finished \/ UNCHANGED vars
    BY <1>8, <1>9 DEF AssignRole, AssignCustomRoles, ReplaceCustomRole, OpenWalk,
                       NextPage, Finished, vars
  <1>10. QED
    BY <1>5, <1>6, <1>7, <1>9 DEF Next

LEMMA SweptClock ==
    ASSUME TypeOK, NEW q \in Req, Sweep(q)
    PROVE  UNCHANGED now /\ \A p \in Req : req'[p].at \in {req[p].at, 0}
  <1>1. PICK r \in Request : r = req[q]
    BY TimeLemma
  <1>2. [r EXCEPT !.phase = "insert"].at = r.at
    BY DEF Request
  <1>3. Decided(r, "failed", "unavailable").at = 0
    BY DEF Request, Decided
  <1>4. \/ req' = [req EXCEPT ![q] = [r EXCEPT !.phase = "insert"]]
        \/ req' = [req EXCEPT ![q] = Decided(r, "failed", "unavailable")]
    BY <1>1 DEF Sweep, GoesTo, Ends
  <1>5. UNCHANGED now
    BY DEF Sweep
  <1>6. QED
    BY <1>1, <1>2, <1>3, <1>4, <1>5, TimeLemma

\* What a sweep leaves of a row: it writes what the clock says already.
LEMMA SweptRows ==
    ASSUME TypeOK, Dated, NEW q \in Req, Sweep(q), NEW i \in Invitation
    PROVE  /\ Exists(i)' = Exists(i)
           /\ \/ invitations'[i] = invitations[i]
              \/ /\ Exists(i) /\ invitations[i].expires <= now
                 /\ invitations[i].status = "pending"
                 /\ invitations'[i].status = "expired"
                 /\ invitations'[i].expires = invitations[i].expires
                 /\ ~ invitations'[i].address
  <1>1. PICK some \in SUBSET LapsedAt(req[q].at) :
           invitations' = [j \in Invitation |->
               IF j \in some THEN Swept(invitations[j]) ELSE invitations[j]]
    BY DEF Sweep
  <1>2. PICK r \in Request : r = req[q] /\ r.at <= now
    BY TimeLemma DEF Dated
  <1>3. CASE i \notin some
    <2>1. invitations'[i] = invitations[i]
      BY <1>1, <1>3
    <2>2. QED
      BY <2>1 DEF Exists
  <1>4. CASE i \in some
    <2>1. invitations[i] # NoInvitation /\ Lapsed(invitations[i], r.at)
      BY <1>2, <1>4 DEF LapsedAt, Exists
    <2>2. PICK row \in Row : row = invitations[i]
      BY <2>1 DEF TypeOK
    <2>3. row.status = "pending" /\ row.expires <= now
      <3>1. row.expires \in Nat /\ r.at \in Nat /\ now \in Nat
        BY <1>2, RowIsOne, TimeLemma
      <3>2. QED
        BY <1>2, <2>1, <2>2, <3>1 DEF Lapsed
    <2>4. invitations'[i] = Swept(row)
      BY <1>1, <1>4, <2>2
    <2>5. /\ Swept(row) \in Row /\ Swept(row).status = "expired"
          /\ Swept(row).expires = row.expires /\ Swept(row).address = FALSE
      BY DEF Swept, Row
    <2>6. QED
      BY <2>1, <2>2, <2>3, <2>4, <2>5, RowIsOne DEF Exists
  <1>5. QED
    BY <1>3, <1>4

\* The row an insertion makes, and the others, which it leaves.
LEMMA InsertedRows ==
    ASSUME TypeOK, NEW q \in Req, Insert(q)
    PROVE  /\ UNCHANGED now /\ \A p \in Req : req'[p].at \in {req[p].at, 0}
           /\ \E i \in Invitation :
                 /\ ~ Exists(i)
                 /\ invitations' = [invitations EXCEPT ![i] = invitations'[i]]
                 /\ invitations'[i].status = "pending" /\ invitations'[i].address = TRUE
                 /\ invitations'[i].expires \in Nat
                 /\ invitations'[i] # NoInvitation
  <1>1. PICK r \in Request : r = req[q] /\ r.at \in Nat
    BY TimeLemma
  <1>2. UNCHANGED now
    BY DEF Insert
  <1>3. \A p \in Req : req'[p].at \in {req[p].at, 0}
    <2>1. PICK o, c : req' = [req EXCEPT ![q] =
                                 [Decided(r, o, c) EXCEPT !.effected = TRUE]]
      BY <1>1 DEF Insert
    <2>2. [Decided(r, o, c) EXCEPT !.effected = TRUE].at = 0
      BY DEF Decided, Request
    <2>3. QED
      BY <2>1, <2>2, TimeLemma
  <1>4. PICK i \in Invitation :
           /\ ~ Exists(i)
           /\ invitations' = [invitations EXCEPT ![i] =
                 [status |-> "pending", address |-> TRUE, created |-> r.at,
                  expires |-> r.at + Lifetime, offer |-> r.call.offer, by |-> q]]
    BY <1>1 DEF Insert
  <1> DEFINE row == [status |-> "pending", address |-> TRUE, created |-> r.at,
                     expires |-> r.at + Lifetime, offer |-> r.call.offer, by |-> q]
  <1>5. /\ row.status = "pending" /\ row.address = TRUE /\ row.expires = r.at + Lifetime
        /\ NoInvitation.status = "none"
    BY DEF NoInvitation
  <1>6. r.at + Lifetime \in Nat
    BY <1>1, AdminAssumption
  <1>7. invitations'[i] = row /\ invitations' = [invitations EXCEPT ![i] = row]
    BY <1>4 DEF TypeOK
  <1> HIDE DEF row
  <1>8. row # NoInvitation
    BY <1>5
  <1>9. QED
    BY <1>2, <1>3, <1>4, <1>5, <1>6, <1>7, <1>8

LEMMA DatedStep ==
    ASSUME TypeOK, TypeOK', Dated, [Next]_vars
    PROVE  Dated'
  <1> USE TimeLemma
  <1>1. ASSUME NEW i \in Invitation, Exists(i)
        PROVE  invitations[i] \in Row /\ invitations[i].expires \in Nat
    BY <1>1, RowIsOne DEF TypeOK, Exists
  <1>2. now \in Nat /\ \A q \in Req : req[q].at \in Nat /\ req[q].at <= now
    BY DEF Dated
  <1>3. CASE RowsStay
    BY <1>2, <1>3 DEF RowsStay, Dated, Exists
  <1>4. CASE Tick
    BY <1>1, <1>2, <1>4 DEF Tick, Dated, Exists
  <1>5. ASSUME NEW q \in Req, Sweep(q) PROVE Dated'
    <2>1. \A p \in Req : req'[p].at <= now'
      BY <1>2, <1>5, SweptClock
    <2>2. ASSUME NEW i \in Invitation, Exists(i)', invitations'[i].status = "expired"
          PROVE  invitations'[i].expires <= now'
      <3>1. UNCHANGED now
        BY <1>5, SweptClock
      <3>2. Exists(i)
        BY <1>5, <2>2, SweptRows
      <3>3. \/ invitations'[i] = invitations[i]
            \/ /\ invitations[i].expires <= now
               /\ invitations'[i].expires = invitations[i].expires
        BY <1>5, SweptRows
      <3>4. QED
        BY <2>2, <3>1, <3>2, <3>3 DEF Dated
    <2>3. QED
      BY <2>1, <2>2 DEF Dated
  <1>6. ASSUME NEW q \in Req, Insert(q) PROVE Dated'
    <2>1. \A p \in Req : req'[p].at <= now'
      <3>1. UNCHANGED now /\ \A p \in Req : req'[p].at \in {req[p].at, 0}
        BY <1>6, InsertedRows
      <3>2. QED
        BY <1>2, <3>1
    <2>2. ASSUME NEW i \in Invitation, Exists(i)', invitations'[i].status = "expired"
          PROVE  invitations'[i].expires <= now'
      <3>1. invitations'[i] = invitations[i] /\ UNCHANGED now
        BY <1>6, <2>2, InsertedRows DEF TypeOK
      <3>2. QED
        BY <2>2, <3>1 DEF Dated, Exists
    <2>3. QED
      BY <2>1, <2>2 DEF Dated
  <1>7. QED
    BY <1>3, <1>4, <1>5, <1>6, DatesStep

\* When an invitation ends, what a reader is told of it and whether its address
\* is kept: what InvitationLives is about.
End(i) == IF Exists(i) THEN invitations[i].expires ELSE -1
Told(i) == StatusAt(invitations[i], now)
Kept(i) == Exists(i) /\ invitations[i].address

LEMMA LivesLemma ==
    ASSUME TypeOK, Dated, NEW i \in Invitation
    PROVE  /\ Exists(i) => /\ End(i) \in Nat
                           /\ Told(i) = IF End(i) <= now THEN "expired" ELSE "pending"
           /\ ~ Exists(i) => End(i) = -1 /\ Told(i) = "none"
           /\ End(i) # -1 <=> Exists(i)
           /\ Kept(i) \in BOOLEAN
  <1>1. CASE Exists(i)
    <2>1. PICK row \in Row : row = invitations[i]
      BY <1>1 DEF TypeOK, Exists
    <2>2. /\ row.expires \in Nat /\ row # NoInvitation
          /\ row.status \in {"pending", "expired"} /\ row.address \in BOOLEAN
          /\ row.status = "expired" => row.expires <= now
      BY <1>1, <2>1, RowIsOne DEF Row, Dated
    <2>3. End(i) = row.expires /\ Told(i) = StatusAt(row, now) /\ Kept(i) = row.address
      BY <1>1, <2>1, <2>2 DEF End, Told, Kept
    <2>4. StatusAt(row, now) = IF row.expires <= now THEN "expired" ELSE "pending"
      BY <2>2 DEF StatusAt
    <2>5. QED
      BY <1>1, <2>2, <2>3, <2>4
  <1>2. CASE ~ Exists(i)
    <2>1. invitations[i] = NoInvitation /\ NoInvitation.status = "none"
      BY <1>2 DEF Exists, NoInvitation
    <2>2. QED
      BY <1>2, <2>1 DEF End, Told, Kept, StatusAt
  <1>3. QED
    BY <1>1, <1>2

\* InvitationLives in these words.
LEMMA LivesNext ==
    ASSUME TypeOK, Dated,
           \/ /\ now' = now
              /\ \A i \in Invitation : End(i)' = End(i) /\ Told(i)' = Told(i)
              /\ \A i \in Invitation : Kept(i)' = Kept(i) \/ (~ Kept(i)' /\ Told(i) = "expired")
           \/ /\ now' = now
              /\ \E i \in Invitation :
                    /\ End(i) = -1 /\ End(i)' \in Nat /\ Kept(i)' = TRUE
                    /\ Told(i)' = IF End(i)' <= now THEN "expired" ELSE "pending"
                    /\ \A j \in Invitation \ {i} :
                          /\ End(j)' = End(j) /\ Told(j)' = Told(j) /\ Kept(j)' = Kept(j)
           \/ /\ now' = now + 1
              /\ \A i \in Invitation :
                    /\ End(i)' = End(i) /\ Kept(i)' = Kept(i)
                    /\ Told(i)' = IF End(i) = -1 THEN "none"
                                  ELSE IF End(i) <= now + 1 THEN "expired" ELSE "pending"
    PROVE  [Lives!Next]_(Lives!vars)
  <1> DEFINE ends == [i \in Invitation |-> End(i)]
             life == [i \in Invitation |-> Told(i)]
             address == [i \in Invitation |-> Kept(i)]
  <1>1. \A i \in Invitation : Kept(i) \in BOOLEAN
    BY LivesLemma
  <1>2. CASE /\ now' = now
             /\ \A i \in Invitation : End(i)' = End(i) /\ Told(i)' = Told(i)
             /\ \A i \in Invitation : Kept(i)' = Kept(i) \/ (~ Kept(i)' /\ Told(i) = "expired")
    <2> DEFINE some == {i \in Invitation : Told(i) = "expired" /\ Kept(i)' # Kept(i)}
    <2>1. \A i \in Invitation : Kept(i)' = (Kept(i) /\ i \notin some)
      BY <1>1, <1>2 DEF Kept
    <2>2. some \in SUBSET {i \in Invitation : life[i] = "expired"}
      OBVIOUS
    <2>3. address' = [i \in Invitation |-> address[i] /\ i \notin some]
      BY <2>1
    <2>4. ends' = ends /\ life' = life
      BY <1>2
    <2>5. Lives!Forget
      BY <1>2, <2>2, <2>3, <2>4 DEF Lives!Forget, End, Told, Kept
    <2>6. QED
      BY <2>5 DEF Lives!Next
  <1>3. CASE /\ now' = now
             /\ \E i \in Invitation :
                    /\ End(i) = -1 /\ End(i)' \in Nat /\ Kept(i)' = TRUE
                    /\ Told(i)' = IF End(i)' <= now THEN "expired" ELSE "pending"
                    /\ \A j \in Invitation \ {i} :
                          /\ End(j)' = End(j) /\ Told(j)' = Told(j) /\ Kept(j)' = Kept(j)
    <2>1. PICK i \in Invitation :
                    /\ End(i) = -1 /\ End(i)' \in Nat /\ Kept(i)' = TRUE
                    /\ Told(i)' = IF End(i)' <= now THEN "expired" ELSE "pending"
                    /\ \A j \in Invitation \ {i} :
                          /\ End(j)' = End(j) /\ Told(j)' = Told(j) /\ Kept(j)' = Kept(j)
      BY <1>3
    <2>2. /\ ends[i] = -1 /\ ends'[i] \in Nat
          /\ ends' = [ends EXCEPT ![i] = ends'[i]]
          /\ life' = [life EXCEPT ![i] = IF ends'[i] <= now THEN "expired" ELSE "pending"]
          /\ address' = [address EXCEPT ![i] = TRUE]
      BY <2>1
    <2>3. Lives!Make(i)
      BY <1>3, <2>2 DEF Lives!Make, Lives!Made, Lives!LifeAt, End, Told, Kept
    <2>4. QED
      BY <2>3 DEF Lives!Next
  <1>4. CASE /\ now' = now + 1
             /\ \A i \in Invitation :
                    /\ End(i)' = End(i) /\ Kept(i)' = Kept(i)
                    /\ Told(i)' = IF End(i) = -1 THEN "none"
                                  ELSE IF End(i) <= now + 1 THEN "expired" ELSE "pending"
    <2>1. /\ ends' = ends /\ address' = address
          /\ life' = [i \in Invitation |->
                IF ends[i] # -1 THEN IF ends[i] <= now + 1 THEN "expired" ELSE "pending"
                ELSE "none"]
      BY <1>4
    <2>2. Lives!Tick
      BY <1>4, <2>1 DEF Lives!Tick, Lives!Made, Lives!LifeAt, End, Told, Kept
    <2>3. QED
      BY <2>2 DEF Lives!Next
  <1>5. QED
    BY <1>2, <1>3, <1>4

LEMMA LivesInit == Init => TypeOK /\ Dated /\ Lives!Init
  <1> SUFFICES ASSUME Init PROVE TypeOK /\ Dated /\ Lives!Init
    OBVIOUS
  <1>1. TypeOK
    BY InitInv DEF IInv
  <1>2. \A q \in Req : req[q].at = 0 /\ now = 0
    BY IdleType DEF Init, Idle
  <1>3. \A i \in Invitation : Exists(i) =>
            invitations[i].status = "pending" /\ invitations[i].address = TRUE
    BY <1>1, AdminAssumption, RowIsOne DEF Init, Exists, TypeOK, Row
  <1>4. Dated
    BY <1>2, <1>3 DEF Dated
  <1>5. /\ now = 0
        /\ [i \in Invitation |-> End(i)] \in [Invitation -> Nat \cup {-1}]
        /\ \A i \in Invitation :
              /\ Told(i) = IF End(i) # -1 THEN IF End(i) <= now THEN "expired" ELSE "pending"
                           ELSE "none"
              /\ Kept(i) = (End(i) # -1)
    <2>1. now = 0
      BY DEF Init
    <2>2. \A i \in Invitation : End(i) \in Nat \cup {-1}
      BY <1>1, <1>4, LivesLemma
    <2>3. ASSUME NEW i \in Invitation
          PROVE  /\ Told(i) = IF End(i) # -1 THEN IF End(i) <= now THEN "expired" ELSE "pending"
                              ELSE "none"
                 /\ Kept(i) = (End(i) # -1)
      <3>1. CASE Exists(i)
        BY <1>1, <1>3, <1>4, <3>1, LivesLemma DEF Kept
      <3>2. CASE ~ Exists(i)
        BY <1>1, <1>4, <3>2, LivesLemma DEF Kept
      <3>3. QED
        BY <3>1, <3>2
    <2>4. QED
      BY <2>1, <2>2, <2>3
  <1>6. Lives!Init
    BY <1>5 DEF Lives!Init, Lives!Made, Lives!LifeAt, End, Told, Kept
  <1>7. QED
    BY <1>1, <1>4, <1>6

\* Every step is one of InvitationLives, or leaves what it speaks of.
LEMMA LivesStep ==
    ASSUME TypeOK, TypeOK', Dated, [Next]_vars
    PROVE  [Lives!Next]_(Lives!vars)
  <1>1. now \in Nat /\ Dated'
    BY TimeLemma, DatedStep
  <1>2. \A i \in Invitation :
           /\ Exists(i) => /\ End(i) \in Nat
                           /\ Told(i) = IF End(i) <= now THEN "expired" ELSE "pending"
           /\ ~ Exists(i) => End(i) = -1 /\ Told(i) = "none"
    BY LivesLemma
  <1>3. ASSUME NEW i \in Invitation
        PROVE  /\ Exists(i)' => /\ End(i)' \in Nat
                                /\ Told(i)' = IF End(i)' <= now' THEN "expired" ELSE "pending"
               /\ ~ Exists(i)' => End(i)' = -1 /\ Told(i)' = "none"
               /\ Kept(i)' \in BOOLEAN
    <2>1. \/ Exists(i)' /\ invitations'[i] \in Row
          \/ ~ Exists(i)' /\ invitations'[i] = NoInvitation
      BY DEF TypeOK, Exists
    <2>2. ASSUME Exists(i)', NEW row \in Row, row = invitations'[i]
          PROVE  /\ End(i)' \in Nat /\ Kept(i)' \in BOOLEAN
                 /\ Told(i)' = IF End(i)' <= now' THEN "expired" ELSE "pending"
      <3>1. /\ row.expires \in Nat /\ row # NoInvitation
            /\ row.status \in {"pending", "expired"} /\ row.address \in BOOLEAN
            /\ row.status = "expired" => row.expires <= now'
        BY <1>1, <2>2, RowIsOne DEF Row, Dated
      <3>2. /\ End(i)' = row.expires /\ Kept(i)' = row.address
            /\ Told(i)' = IF row # NoInvitation /\ row.status = "pending" /\ row.expires <= now'
                          THEN "expired" ELSE row.status
        BY <2>2, <3>1 DEF End, Told, Kept, StatusAt
      <3>3. QED
        BY <3>1, <3>2
    <2>3. CASE ~ Exists(i)' /\ invitations'[i] = NoInvitation
      <3>1. NoInvitation.status = "none"
        BY DEF NoInvitation
      <3>2. QED
        BY <2>3, <3>1 DEF End, Told, Kept, StatusAt
    <2>4. QED
      BY <2>1, <2>2, <2>3
  <1>4. ASSUME NEW i \in Invitation, invitations'[i] = invitations[i]
        PROVE  /\ Exists(i)' = Exists(i) /\ End(i)' = End(i) /\ Kept(i)' = Kept(i)
               /\ now' = now => Told(i)' = Told(i)
    BY <1>4 DEF Exists, End, Kept, Told, StatusAt
  <1>5. CASE RowsStay
    <2>1. /\ now' = now
          /\ \A i \in Invitation : /\ End(i)' = End(i) /\ Told(i)' = Told(i)
                                   /\ Kept(i)' = Kept(i)
      BY <1>4, <1>5 DEF RowsStay
    <2>2. QED
      BY <2>1, LivesNext
  <1>6. CASE Tick
    <2>1. now' = now + 1 /\ UNCHANGED invitations
      BY <1>6 DEF Tick
    <2>2. ASSUME NEW i \in Invitation
          PROVE  /\ End(i)' = End(i) /\ Kept(i)' = Kept(i)
                 /\ Told(i)' = IF End(i) = -1 THEN "none"
                               ELSE IF End(i) <= now + 1 THEN "expired" ELSE "pending"
      <3>1. Exists(i)' = Exists(i) /\ End(i)' = End(i) /\ Kept(i)' = Kept(i)
        BY <1>4, <2>1
      <3>2. End(i) # -1 <=> Exists(i)
        BY LivesLemma
      <3>3. QED
        BY <1>3, <2>1, <3>1, <3>2
    <2>3. QED
      BY <2>1, <2>2, LivesNext
  <1>7. ASSUME NEW q \in Req, Sweep(q) PROVE [Lives!Next]_(Lives!vars)
    <2>1. now' = now
      BY <1>7, SweptClock
    <2>2. ASSUME NEW i \in Invitation
          PROVE  /\ End(i)' = End(i) /\ Told(i)' = Told(i)
                 /\ Kept(i)' = Kept(i) \/ (~ Kept(i)' /\ Told(i) = "expired")
      <3>1. CASE invitations'[i] = invitations[i]
        BY <1>4, <2>1, <3>1
      <3>2. CASE /\ Exists(i) /\ invitations[i].expires <= now
                 /\ invitations'[i].expires = invitations[i].expires
                 /\ ~ invitations'[i].address
        <4>1. Exists(i)'
          BY <1>7, <3>2, SweptRows
        <4>2. End(i)' = End(i) /\ End(i) <= now /\ ~ Kept(i)'
          BY <3>2, <4>1 DEF End, Kept
        <4>3. Told(i) = "expired" /\ Told(i)' = "expired"
          BY <1>2, <1>3, <2>1, <3>2, <4>1, <4>2
        <4>4. QED
          BY <4>2, <4>3
      <3>3. QED
        BY <1>7, <3>1, <3>2, SweptRows
    <2>3. QED
      BY <2>1, <2>2, LivesNext
  <1>8. ASSUME NEW q \in Req, Insert(q) PROVE [Lives!Next]_(Lives!vars)
    <2>1. now' = now
      BY <1>8, InsertedRows
    <2>2. PICK i \in Invitation :
                 /\ ~ Exists(i)
                 /\ invitations' = [invitations EXCEPT ![i] = invitations'[i]]
                 /\ invitations'[i].status = "pending" /\ invitations'[i].address = TRUE
                 /\ invitations'[i].expires \in Nat
                 /\ invitations'[i] # NoInvitation
      BY <1>8, InsertedRows
    <2>3. Exists(i)' /\ Kept(i)' = TRUE
      BY <2>2 DEF Exists, Kept
    <2>4. /\ End(i) = -1 /\ End(i)' \in Nat
          /\ Told(i)' = IF End(i)' <= now THEN "expired" ELSE "pending"
      BY <1>2, <1>3, <2>1, <2>2, <2>3
    <2>5. \A j \in Invitation \ {i} : invitations'[j] = invitations[j]
      <3>1. DOMAIN invitations = Invitation
        BY DEF TypeOK
      <3>2. PICK row : invitations' = [invitations EXCEPT ![i] = row]
        BY <2>2
      <3>3. QED
        BY <3>1, <3>2
    <2>6. \A j \in Invitation \ {i} :
             End(j)' = End(j) /\ Told(j)' = Told(j) /\ Kept(j)' = Kept(j)
      BY <1>4, <2>1, <2>5
    <2>7. QED
      BY <2>1, <2>3, <2>4, <2>6, LivesNext
  <1>9. QED
    BY <1>5, <1>6, <1>7, <1>8, DatesStep

\* The invitations implement InvitationLives for any number of them, of requests
\* and of sweeps: they end by the clock alone, at the instant fixed when they
\* were made, and no address is forgotten before (effectiveInvitationStatus,
\* sweepLapsed, createInvitation).
THEOREM InvitationsKeepTheirLives == Spec => ImplementsLives
  <1>1. TypeOK /\ Dated /\ [Next]_vars /\ TypeOK'
        => [Lives!Next]_(Lives!vars) /\ Dated'
    BY LivesStep, DatedStep
  <1>2. Spec => []TypeOK
    BY TypesKept
  <1>3. QED
    BY <1>1, <1>2, LivesInit, PTL DEF Spec, ImplementsLives, Lives!Spec

-----------------------------------------------------------------------------
\* The tables.

LEMMA SegmentsOf ==
    ASSUME NEW S, NEW path \in Seq(S)
    PROVE  \A i \in DOMAIN path : path[i] \in S
  OBVIOUS

\* Of a table that passes the checks, the routes declared before one without
\* parameters leave its path to it: none of them fits.
LEMMA LiteralIsReached ==
    ASSUME NEW t, WellFormed(t), NoLiteralIsShadowed(t), NEW k \in DOMAIN t.routes,
           PathParameters(t.routes[k].path) = {}
    PROVE  Matching(t, t.routes[k].method,
                    [i \in DOMAIN t.routes[k].path |-> t.routes[k].path[i].text]) = {k}
  <1> DEFINE Segment == [is : {"literal", "parameter"}, text : STRING]
             method == t.routes[k].method
             own == t.routes[k].path
             path == [i \in DOMAIN own |-> own[i].text]
  <1>1. /\ DOMAIN t.routes = 1 .. Len(t.routes) /\ Len(t.routes) \in Nat
        /\ \A j \in DOMAIN t.routes : t.routes[j].path \in Seq(Segment)
    BY DEF WellFormed, Routes
  <1>2. /\ own \in Seq(Segment)
        /\ \A i \in DOMAIN own : own[i] \in Segment /\ own[i].is = "literal"
    <2>1. own \in Seq(Segment)
      BY <1>1
    <2>2. \A i \in DOMAIN own : own[i] \in Segment
      BY <2>1, SegmentsOf
    <2>3. \A i \in DOMAIN own : own[i].is # "parameter"
      BY DEF PathParameters
    <2>4. QED
      BY <2>1, <2>2, <2>3
  <1>3. /\ DOMAIN path = DOMAIN own /\ Len(path) = Len(own)
        /\ \A i \in DOMAIN own : path[i] = own[i].text
    <2>1. Len(own) \in Nat /\ DOMAIN own = 1 .. Len(own)
      BY <1>2
    <2>2. path \in Seq(STRING) /\ Len(path) = Len(own)
      <3>1. path = [i \in 1 .. Len(own) |-> own[i].text]
        BY <2>1
      <3>2. \A i \in 1 .. Len(own) : own[i].text \in STRING
        BY <1>2, <2>1
      <3>3. QED
        BY <2>1, <3>1, <3>2
    <2>3. QED
      BY <2>1, <2>2
  <1>4. Fits(t.routes[k], method, path)
    BY <1>2, <1>3 DEF Fits
  <1>5. ASSUME NEW j \in 1 .. k - 1, Fits(t.routes[j], method, path) PROVE FALSE
    <2>1. j \in DOMAIN t.routes
      BY <1>1
    <2> DEFINE other == t.routes[j].path
    <2>2. other \in Seq(Segment)
      BY <1>1, <2>1
    <2>3. t.routes[j].method = method /\ Len(other) = Len(own) /\ DOMAIN other = DOMAIN own
      <3>1. t.routes[j].method = method /\ Len(other) = Len(path)
        BY <1>5 DEF Fits
      <3>2. QED
        BY <1>2, <1>3, <2>2, <3>1
    <2>4. ASSUME NEW i \in DOMAIN other
          PROVE  IF other[i].is = "parameter" THEN own[i].is = "literal"
                 ELSE other[i] = own[i]
      <3>1. other[i] \in Segment /\ own[i] \in Segment /\ own[i].is = "literal"
        BY <1>2, <2>2, <2>3, SegmentsOf
      <3>2. other[i].is # "parameter" => other[i].text = own[i].text
        BY <1>3, <1>5, <2>3 DEF Fits
      <3>3. other[i].is # "parameter" => other[i] = own[i]
        BY <3>1, <3>2
      <3>4. QED
        BY <3>1, <3>3
    <2>5. Shadows(other, own)
      BY <2>3, <2>4 DEF Shadows
    <2>6. QED
      BY <2>3, <2>5 DEF NoLiteralIsShadowed
  <1>6. k \in Matching(t, method, path)
    BY <1>4, <1>5 DEF Matching
  <1>7. ASSUME NEW l \in Matching(t, method, path) PROVE l = k
    <2>1. l \in DOMAIN t.routes /\ Fits(t.routes[l], method, path)
          /\ \A j \in 1 .. l - 1 : ~ Fits(t.routes[j], method, path)
      BY DEF Matching
    <2>2. l \in Nat \ {0} /\ k \in Nat \ {0}
      BY <1>1, <2>1
    <2>3. CASE l < k
      <3>1. l \in 1 .. k - 1
        BY <2>2, <2>3
      <3>2. QED
        BY <1>5, <2>1, <3>1
    <2>4. CASE k < l
      <3>1. k \in 1 .. l - 1
        BY <2>2, <2>4
      <3>2. QED
        BY <1>4, <2>1, <3>1
    <2>5. QED
      BY <2>2, <2>3, <2>4
  <1>8. QED
    BY <1>6, <1>7

\* Each check looks at one thing; a table that passes them all is served.
LEMMA ChecksSuffice ==
    ASSUME NEW t, WellFormed(t), Registered(t)
    PROVE  Serves(t)
  <1> SUFFICES ASSUME NEW k \in DOMAIN t.routes
               PROVE  LET route == t.routes[k]
                      IN  /\ PathParameters(route.path) = {} =>
                                Matching(t, route.method,
                                   [i \in DOMAIN route.path |-> route.path[i].text]) = {k}
                          /\ \A needs \in Conjunctions(t, route) :
                                \E role \in MembershipRole : Allowed(needs, Grants[role])
                          /\ IsConfirmationGated(route) =>
                                /\ route.parameters = {}
                                /\ \E r \in Routes(t) :
                                      r.id = CHALLENGE /\ t.confirmable[route.id]
                                                             \in Conjunctions(t, r)
    BY DEF Serves
  <1> DEFINE route == t.routes[k]
  <1>1. route \in Routes(t)
    BY DEF Routes
  <1>2. PathParameters(route.path) = {} =>
           Matching(t, route.method,
                    [i \in DOMAIN route.path |-> route.path[i].text]) = {k}
    BY LiteralIsReached DEF Registered
  <1>3. ASSUME NEW needs \in Conjunctions(t, route)
        PROVE  \E role \in MembershipRole : Allowed(needs, Grants[role])
    <2>1. PICK role \in MembershipRole : needs \subseteq Grants[role]
      BY <1>1 DEF Registered, ConjunctionsAreSatisfiable
    <2>2. needs \subseteq Permission
      BY <1>1 DEF WellFormed, Conjunctions
    <2>3. needs \subseteq Envelope
      BY <1>1, <2>2 DEF Registered, PermissionsAreReachable
    <2>4. QED
      BY <2>1, <2>3 DEF Allowed
  <1>4. ASSUME IsConfirmationGated(route)
        PROVE  /\ route.parameters = {}
               /\ \E r \in Routes(t) :
                     r.id = CHALLENGE /\ t.confirmable[route.id] \in Conjunctions(t, r)
    <2>1. route.parameters = {}
      BY <1>1, <1>4 DEF Registered, GatedReadNoQuery
    <2>2. route.id \in Confirmable(t)
      BY <1>1, <1>4 DEF Registered, ConfirmationsAreObtainable
    <2>3. PICK r \in Routes(t) : r.id = CHALLENGE
      BY <2>2 DEF Registered, ConfirmationsAreObtainable
    <2>4. r.permission.kind # "all-of"
      BY <2>3 DEF WellFormed, FromBody
    <2>5. t.confirmable[route.id] \in Conjunctions(t, r)
      BY <2>2, <2>4 DEF Conjunctions
    <2>6. QED
      BY <2>1, <2>3, <2>5
  <1>5. QED
    BY <1>2, <1>3, <1>4

\* No step changes the registered table.
LEMMA TableIsKept == [Next]_vars => table' = table
  <1>1. ASSUME NEW q \in Req, Dispatch(q) PROVE table' = table
    BY <1>1 DEF Dispatch, Ask, Authenticate, Resolve, NotResolved, Charged, NotCharged,
       Authorize, Confirmed, NotConfirmed
  <1>2. ASSUME NEW q \in Req, Handler(q) PROVE table' = table
    BY <1>2 DEF Handler, NotHandled, Handle, Invite, ReadHeld, ReadCustomRole, Reserved,
       NotReserved, CallFails, Sweep, Insert
  <1>3. ASSUME NEW q \in Req, Record(q) PROVE table' = table
    BY <1>3 DEF Record, Unrecorded, Recorded, NotRecorded
  <1>4. ASSUME NEW p \in Principal, AssignRole(p) \/ AssignCustomRoles(p)
        PROVE  table' = table
    BY <1>4 DEF AssignRole, AssignCustomRoles
  <1>5. ASSUME NEW c \in Custom, ReplaceCustomRole(c) PROVE table' = table
    BY <1>5 DEF ReplaceCustomRole
  <1>6. OpenWalk \/ NextPage \/ Tick \/ Finished \/ UNCHANGED vars => table' = table
    BY DEF OpenWalk, NextPage, Tick, Finished, vars
  <1>7. QED
    BY <1>1, <1>2, <1>3, <1>4, <1>5, <1>6 DEF Next

\* Whatever table the module loads with is served as it is written: its checks,
\* each of one thing, are enough for the matching, the authorisation and the
\* confirmation to go together (matchTenantAdminRoute, authorize, the challenge
\* route).
THEOREM RegisteredServes == Spec => []RegisteredIsServed
  <1>1. Init => table \in Tables /\ Registered(table)
    BY DEF Init
  <1>2. IInv /\ Registered(table) /\ [Next]_vars => Registered(table)'
    <2>1. [Next]_vars => table' = table
      BY TableIsKept
    <2>2. table' = table => (Registered(table) <=> Registered(table)')
      BY DEF Registered, NamesNoOrganization, ReadsAreBounded, MutationsAreAudited,
         PermissionsAreReachable, ConjunctionsAreSatisfiable,
         ConfirmationsAreObtainable, GatedReadNoQuery, NoLiteralIsShadowed,
         UnderTheBasePath
    <2>3. QED
      BY <2>1, <2>2
  <1>3. IInv /\ Registered(table) => RegisteredIsServed
    <2> SUFFICES ASSUME IInv, Registered(table) PROVE Serves(table)
      BY DEF RegisteredIsServed
    <2>1. WellFormed(table)
      BY AdminAssumption DEF IInv, TypeOK
    <2>2. QED
      BY <2>1, ChecksSuffice
  <1>4. QED
    BY <1>1, <1>2, <1>3, InvariantHolds, PTL DEF Spec

-----------------------------------------------------------------------------
\* The walk through the invitations.

\* A finite set that a relation orders totally has a last element.
LEMMA LastOf ==
    ASSUME NEW A, IsFiniteSet(A), A # {}, NEW R,
           \A x \in A : <<x, x>> \notin R,
           \A x, y, z \in A : <<x, y>> \in R /\ <<y, z>> \in R => <<x, z>> \in R,
           \A x, y \in A : x # y => <<x, y>> \in R \/ <<y, x>> \in R
    PROVE  \E x \in A : \A y \in A \ {x} : <<y, x>> \in R
  <1> DEFINE Beyond == [x \in A |-> {y \in A : <<x, y>> \in R}]
             T == {Beyond[x] : x \in A}
  <1>0. \A x \in A : Beyond[x] = {y \in A : <<x, y>> \in R}
    OBVIOUS
  <1> HIDE DEF Beyond
  <1>1. T \subseteq FiniteSubsetsOf(A) /\ T # {}
    <2>1. ASSUME NEW x \in A PROVE Beyond[x] \in FiniteSubsetsOf(A)
      <3>1. Beyond[x] \in SUBSET A
        BY <1>0
      <3>2. QED
        BY <3>1, FS_Subset DEF FiniteSubsetsOf
    <2>2. QED
      BY <2>1
  <1>2. \E U \in T : \A V \in T : <<V, U>> \notin StrictSubsetOrdering(A)
    BY <1>1, FS_StrictSubsetOrderingWellFounded, WFMin
  <1>3. PICK x \in A : \A V \in T : <<V, Beyond[x]>> \notin StrictSubsetOrdering(A)
    BY <1>2
  <1>4. ASSUME NEW y \in A \ {x} PROVE <<y, x>> \in R
    <2>1. SUFFICES ASSUME <<x, y>> \in R PROVE FALSE
      BY <1>4
    <2>2. /\ x \in A /\ y \in A
          /\ Beyond[x] = {z \in A : <<x, z>> \in R}
          /\ Beyond[y] = {z \in A : <<y, z>> \in R}
      BY <1>0, <1>4
    <2>3. /\ Beyond[y] \in T /\ Beyond[y] \in SUBSET A /\ Beyond[x] \in SUBSET A
          /\ y \in Beyond[x] /\ y \notin Beyond[y]
      BY <2>1, <2>2
    <2>4. <<Beyond[y], Beyond[x]>> \in StrictSubsetOrdering(A)
      <3>1. Beyond[y] \subseteq Beyond[x]
        BY <2>1, <2>2
      <3>2. QED
        BY <2>3, <3>1 DEF StrictSubsetOrdering
    <2>5. QED
      BY <1>3, <2>3, <2>4
  <1>5. QED
    BY <1>4

\* A page is a beginning of what is left: nothing is before it, and it has a
\* last row unless nothing is left.
LEMMA PageLemma ==
    ASSUME IInv, NEW cursor \in Invitation \cup {Start}
    PROVE  LET after == {i \in Listed : cursor = Start \/ Follows(i, cursor)}
           IN  /\ Page(cursor) \subseteq after
               /\ after # {} => Page(cursor) # {}
               /\ \A i \in Page(cursor), j \in after \ Page(cursor) : Follows(j, i)
               /\ Page(cursor) # {} =>
                     \E i \in Page(cursor) : \A j \in Page(cursor) \ {i} : Follows(i, j)
  <1> DEFINE after == {i \in Listed : cursor = Start \/ Follows(i, cursor)}
             Ahead(i) == {j \in after \ {i} : ~ Follows(j, i)}
             page == {i \in after : Cardinality(Ahead(i)) < PageSize}
             R == {ij \in after \X after : Follows(ij[2], ij[1])}
             Q == {ij \in after \X after : Follows(ij[1], ij[2])}
  <1>1. /\ IsFiniteSet(after) /\ after \subseteq Invitation /\ after \subseteq Nat
        /\ \A i \in after : invitations[i].created \in Nat
    <2>1. /\ Invitation \subseteq Nat /\ IsFiniteSet(Invitation)
          /\ invitations \in [Invitation -> Row \cup {NoInvitation}]
      BY AdminAssumption DEF IInv, TypeOK
    <2>2. after \subseteq Invitation /\ \A i \in after : invitations[i] \in Row
      BY <2>1 DEF Listed, Exists
    <2>3. \A i \in after : invitations[i].created \in Nat
      BY <2>2, AdminAssumption DEF Row, Time
    <2>4. QED
      BY <2>1, <2>2, <2>3, FS_Subset
  <1>2. PageSize \in Nat \ {0}
    BY AdminAssumption
  <1>3. Page(cursor) = page
    BY DEF Page
  <1>4. /\ \A i \in after : ~ Follows(i, i)
        /\ \A i, j, l \in after : Follows(i, j) /\ Follows(j, l) => Follows(i, l)
        /\ \A i, j \in after : i # j => Follows(i, j) \/ Follows(j, i)
        /\ \A i, j \in after : Follows(i, j) => ~ Follows(j, i)
    BY <1>1 DEF Follows
  <1> HIDE DEF after
  <1>5. \A i \in after : IsFiniteSet(Ahead(i)) /\ Cardinality(Ahead(i)) \in Nat
    BY <1>1, FS_Subset, FS_CardinalityType
  <1>6. ASSUME after # {} PROVE page # {}
    <2>1. \E i \in after : \A j \in after \ {i} : <<j, i>> \in Q
      <3>1. /\ \A x \in after : <<x, x>> \notin Q
            /\ \A x, y, z \in after : <<x, y>> \in Q /\ <<y, z>> \in Q => <<x, z>> \in Q
            /\ \A x, y \in after : x # y => <<x, y>> \in Q \/ <<y, x>> \in Q
        BY <1>4
      <3>2. IsFiniteSet(after) /\ after # {}
        BY <1>1, <1>6
      <3> HIDE DEF Q, page
      <3>3. QED
        BY <3>1, <3>2, LastOf
    <2>2. PICK i \in after : \A j \in after \ {i} : Follows(j, i)
      BY <2>1
    <2>3. Ahead(i) = {}
      BY <2>2
    <2>4. i \in page
      BY <1>2, <2>3, FS_EmptySet
    <2>5. QED
      BY <2>4
  <1>7. ASSUME NEW i \in page, NEW j \in after \ page PROVE Follows(j, i)
    <2>1. SUFFICES ASSUME ~ Follows(j, i) PROVE FALSE
      OBVIOUS
    <2>2. i # j /\ Follows(i, j) /\ i \in after
      BY <1>4, <1>7, <2>1
    <2>3. Ahead(j) \subseteq Ahead(i)
      BY <1>4, <1>7, <2>2
    <2>4. Cardinality(Ahead(j)) <= Cardinality(Ahead(i))
      BY <1>5, <2>2, <2>3, FS_Subset
    <2>5. Cardinality(Ahead(i)) < PageSize
      BY <1>7
    <2>6. Cardinality(Ahead(j)) < PageSize
      BY <1>2, <1>5, <1>7, <2>2, <2>4, <2>5
    <2>7. QED
      BY <1>7, <2>6
  <1>8. ASSUME page # {}
        PROVE  \E i \in page : \A j \in page \ {i} : Follows(i, j)
    <2>1. IsFiniteSet(page) /\ page \subseteq after
      BY <1>1, FS_Subset
    <2>2. \E i \in page : \A j \in page \ {i} : <<j, i>> \in R
      <3>1. /\ \A x \in after : <<x, x>> \notin R
            /\ \A x, y, z \in after : <<x, y>> \in R /\ <<y, z>> \in R => <<x, z>> \in R
            /\ \A x, y \in after : x # y => <<x, y>> \in R \/ <<y, x>> \in R
        BY <1>4
      <3> HIDE DEF R, page
      <3>2. /\ \A x \in page : <<x, x>> \notin R
            /\ \A x, y, z \in page : <<x, y>> \in R /\ <<y, z>> \in R => <<x, z>> \in R
            /\ \A x, y \in page : x # y => <<x, y>> \in R \/ <<y, x>> \in R
        BY <2>1, <3>1
      <3>3. QED
        BY <1>8, <2>1, <3>2, LastOf
    <2>3. QED
      BY <2>2
  <1>9. page \subseteq after
    OBVIOUS
  <1>10. QED
    BY <1>3, <1>6, <1>7, <1>8, <1>9 DEF after

\* No step takes a row of the table away, or dates it anew.
LEMMA RowsRemain ==
    ASSUME IInv, [Next]_vars, NEW i \in Invitation, Exists(i)
    PROVE  Exists(i)' /\ invitations'[i].created = invitations[i].created
  <1>1. invitations \in [Invitation -> Row \cup {NoInvitation}] /\ invitations[i] \in Row
    BY DEF IInv, TypeOK, Exists
  <1>2. ASSUME NEW q \in Req, Sweep(q)
        PROVE  Exists(i)' /\ invitations'[i].created = invitations[i].created
    <2>1. PICK some : invitations' = [j \in Invitation |->
                 IF j \in some THEN Swept(invitations[j]) ELSE invitations[j]]
      BY <1>2 DEF Sweep
    <2>2. invitations'[i] \in {Swept(invitations[i]), invitations[i]}
      BY <2>1
    <2>3. Swept(invitations[i]) \in Row
          /\ Swept(invitations[i]).created = invitations[i].created
      BY <1>1 DEF Swept, Row
    <2>4. QED
      BY <1>1, <2>2, <2>3, RowIsOne DEF Exists
  <1>3. ASSUME NEW q \in Req, Insert(q)
        PROVE  Exists(i)' /\ invitations'[i].created = invitations[i].created
    <2>1. PICK j \in Invitation :
             /\ ~ Exists(j)
             /\ invitations' = [invitations EXCEPT ![j] =
                   [status |-> "pending", address |-> TRUE, created |-> req[q].at,
                    expires |-> req[q].at + Lifetime, offer |-> req[q].call.offer,
                    by |-> q]]
      BY <1>3 DEF Insert
    <2>2. j # i
      BY <2>1
    <2>3. invitations'[i] = invitations[i]
      BY <1>1, <2>1, <2>2
    <2>4. QED
      BY <2>3 DEF Exists
  <1>4. CASE UNCHANGED invitations
    BY <1>4 DEF Exists
  <1>5. ASSUME NEW q \in Req, Dispatch(q) \/ Record(q) PROVE UNCHANGED invitations
    BY <1>5 DEF Dispatch, Ask, Authenticate, Resolve, NotResolved, Charged, NotCharged,
       Authorize, Confirmed, NotConfirmed, Record, Unrecorded, Recorded, NotRecorded
  <1>6. ASSUME NEW q \in Req, Handler(q), ~ Sweep(q), ~ Insert(q) PROVE UNCHANGED invitations
    BY <1>6 DEF Handler, NotHandled, Handle, Invite, ReadHeld, ReadCustomRole, Reserved,
       NotReserved, CallFails
  <1>7. ASSUME \/ \E p \in Principal : AssignRole(p) \/ AssignCustomRoles(p)
               \/ \E c \in Custom : ReplaceCustomRole(c)
               \/ OpenWalk \/ NextPage \/ Tick \/ Finished \/ UNCHANGED vars
        PROVE  UNCHANGED invitations
    BY <1>7 DEF AssignRole, AssignCustomRoles, ReplaceCustomRole, OpenWalk, NextPage,
                Tick, Finished, vars
  <1>8. QED
    BY <1>2, <1>3, <1>4, <1>5, <1>6, <1>7 DEF Next

\* Only the client's own steps move the walk.
LEMMA WalkIsKept == [Next]_vars => walk' = walk \/ OpenWalk \/ NextPage
  <1>1. ASSUME NEW q \in Req, Dispatch(q) PROVE walk' = walk
    BY <1>1 DEF Dispatch, Ask, Authenticate, Resolve, NotResolved, Charged, NotCharged,
       Authorize, Confirmed, NotConfirmed
  <1>2. ASSUME NEW q \in Req, Handler(q) PROVE walk' = walk
    BY <1>2 DEF Handler, NotHandled, Handle, Invite, ReadHeld, ReadCustomRole, Reserved,
       NotReserved, CallFails, Sweep, Insert
  <1>3. ASSUME NEW q \in Req, Record(q) PROVE walk' = walk
    BY <1>3 DEF Record, Unrecorded, Recorded, NotRecorded
  <1>4. ASSUME \/ \E p \in Principal : AssignRole(p) \/ AssignCustomRoles(p)
               \/ \E c \in Custom : ReplaceCustomRole(c)
               \/ Tick \/ Finished \/ UNCHANGED vars
        PROVE  walk' = walk
    BY <1>4 DEF AssignRole, AssignCustomRoles, ReplaceCustomRole, Tick, Finished, vars
  <1>5. QED
    BY <1>1, <1>2, <1>3, <1>4 DEF Next

Walk == [phase : {"idle", "open", "over"}, cursor : Invitation \cup {Start},
         first : SUBSET Invitation, shown : SUBSET Invitation,
         twice : SUBSET Invitation]

\* What was shown ends with the cursor; what there was at first and was not yet
\* shown follows it.
Walked ==
    /\ walk \in Walk
    /\ walk.twice = {}
    /\ walk.phase = "over" => walk.first \subseteq walk.shown
    /\ walk.phase = "idle" => walk.cursor = Start /\ walk.shown = {}
    /\ walk.phase = "open" =>
          /\ walk.cursor = Start => walk.shown = {}
          /\ walk.cursor # Start => Exists(walk.cursor)
          /\ \A i \in walk.shown : /\ Exists(i)
                                   /\ i = walk.cursor \/ Follows(walk.cursor, i)
          /\ \A i \in walk.first : /\ Exists(i)
                                   /\ \/ i \in walk.shown
                                      \/ walk.cursor = Start \/ Follows(i, walk.cursor)

LEMMA WalkedStep ==
    ASSUME IInv, Walked, [Next]_vars
    PROVE  Walked'
  <1>1. CASE walk' = walk
    <2>1. Walked' \/ walk.phase # "open"
      <3> SUFFICES ASSUME walk.phase = "open" PROVE Walked'
        OBVIOUS
      <3>1. PICK c : c = walk.cursor /\ c = walk'.cursor /\ (c # Start => c \in Invitation)
        BY <1>1 DEF Walked, Walk
      <3>2. walk.shown \subseteq Invitation /\ walk.first \subseteq Invitation
        BY DEF Walked, Walk
      <3>3. c # Start => /\ invitations'[c] # NoInvitation
                         /\ invitations'[c].created = invitations[c].created
        <4>1. c # Start => c \in Invitation /\ Exists(c)
          BY <3>1 DEF Walked
        <4>2. QED
          BY <4>1, RowsRemain DEF Exists
      <3>4. \A i \in walk.shown \cup walk.first :
               Exists(i)' /\ invitations'[i].created = invitations[i].created
        BY <3>2, RowsRemain DEF Walked
      <3>5. ASSUME NEW i \in walk.shown
            PROVE  Exists(i)' /\ (i = c \/ Follows(c, i)')
        <4>1. Exists(i)' /\ invitations'[i].created = invitations[i].created
          BY <3>4
        <4>2. (i = c \/ Follows(c, i)) /\ c # Start
          BY <3>1 DEF Walked
        <4>3. QED
          BY <3>3, <4>1, <4>2 DEF Follows
      <3>6. ASSUME NEW i \in walk.first
            PROVE  /\ Exists(i)'
                   /\ i \in walk.shown \/ c = Start \/ Follows(i, c)'
        <4>1. Exists(i)' /\ invitations'[i].created = invitations[i].created
          BY <3>4
        <4>2. i \in walk.shown \/ c = Start \/ Follows(i, c)
          BY <3>1 DEF Walked
        <4>3. QED
          BY <3>3, <4>1, <4>2 DEF Follows
      <3>7. \A i \in walk'.shown :
               Exists(i)' /\ (i = walk'.cursor \/ Follows(walk.cursor, i)')
        BY <1>1, <3>1, <3>5
      <3>8. \A i \in walk'.first :
               /\ Exists(i)'
               /\ i \in walk'.shown \/ walk'.cursor = Start \/ Follows(i, walk.cursor)'
        BY <1>1, <3>1, <3>6
      <3>9. walk'.cursor # Start => Exists(walk.cursor)'
        BY <3>1, <3>3 DEF Exists
      <3>10. QED
        BY <1>1, <3>7, <3>8, <3>9 DEF Walked, Walk
    <2>2. walk.phase # "open" => Walked'
      BY <1>1 DEF Walked, Walk
    <2>3. QED
      BY <2>1, <2>2
  <1>2. CASE OpenWalk
    <2>1. /\ walk.phase = "idle" /\ UNCHANGED invitations
          /\ walk' = [walk EXCEPT !.phase = "open", !.first = Listed]
      BY <1>2 DEF OpenWalk
    <2>2. Listed \subseteq Invitation /\ walk \in Walk
      BY DEF Listed, Walked
    <2>3. /\ walk'.phase = "open" /\ walk'.first = Listed /\ walk'.cursor = walk.cursor
          /\ walk'.shown = walk.shown /\ walk'.twice = walk.twice /\ walk' \in Walk
      BY <2>1, <2>2 DEF Walk
    <2>4. walk.cursor = Start /\ walk.shown = {} /\ walk.twice = {}
      BY <2>1 DEF Walked
    <2>5. \A i \in Listed : Exists(i)'
      BY <2>1 DEF Listed, Exists
    <2>6. QED
      BY <2>3, <2>4, <2>5 DEF Walked
  <1>3. CASE NextPage
    <2> DEFINE cursor == walk.cursor
               page == Page(cursor)
               after == {i \in Listed : cursor = Start \/ Follows(i, cursor)}
               last == {i \in page : \A j \in page \ {i} : Follows(i, j)}
               more == \E i \in Listed \ page :
                          /\ walk.cursor = Start \/ Follows(i, walk.cursor)
               shown == [walk EXCEPT !.twice = @ \cup (walk.shown \cap page),
                                     !.shown = @ \cup page]
    <2>1. /\ walk.phase = "open" /\ UNCHANGED invitations
          /\ walk' = IF more /\ last # {}
                     THEN [shown EXCEPT !.cursor = CHOOSE i \in last : TRUE]
                     ELSE [shown EXCEPT !.phase = "over"]
      BY <1>3 DEF NextPage
    <2>2. /\ walk \in Walk /\ walk.twice = {} /\ cursor \in Invitation \cup {Start}
          /\ cursor = Start => walk.shown = {}
          /\ cursor # Start => Exists(cursor)
          /\ \A i \in walk.shown : /\ Exists(i)
                                   /\ i = cursor \/ Follows(cursor, i)
          /\ \A i \in walk.first : /\ Exists(i)
                                   /\ \/ i \in walk.shown
                                      \/ cursor = Start \/ Follows(i, cursor)
      BY <2>1 DEF Walked, Walk
    <2>3. /\ page \subseteq after
          /\ after # {} => page # {}
          /\ \A i \in page, j \in after \ page : Follows(j, i)
          /\ page # {} => last # {}
      BY <2>2, PageLemma
    <2>4. page \subseteq Listed /\ Listed \subseteq Invitation
      BY <2>3 DEF Listed
    <2>5. Invitation \subseteq Nat /\ Start \notin Nat
      BY AdminAssumption DEF Start
    <2>6. \A i \in Listed : invitations[i].created \in Nat
      <3>1. invitations \in [Invitation -> Row \cup {NoInvitation}]
        BY DEF IInv, TypeOK
      <3>2. \A i \in Listed : invitations[i] \in Row
        BY <3>1 DEF Listed, Exists
      <3>3. QED
        BY <3>2, AdminAssumption DEF Row, Time
    <2>7. walk.shown \subseteq Listed /\ walk.first \subseteq Listed
      BY <2>2 DEF Walk, Listed
    <2>8. cursor # Start => cursor \in Listed
      BY <2>2 DEF Listed
    <2>9. /\ \A i \in Listed : ~ Follows(i, i)
          /\ \A i, j, l \in Listed : Follows(i, j) /\ Follows(j, l) => Follows(i, l)
          /\ \A i, j \in Listed : Follows(i, j) => ~ Follows(j, i)
      <3>1. \A i \in Listed : i \in Nat /\ invitations[i].created \in Nat
        BY <2>4, <2>5, <2>6
      <3> HIDE DEF page, after, more, shown, last
      <3>2. QED
        BY <3>1 DEF Follows
    <2>10. walk.shown \cap page = {}
      <3> SUFFICES ASSUME NEW i \in walk.shown, i \in page PROVE FALSE
        OBVIOUS
      <3>1. cursor # Start /\ Follows(i, cursor) /\ i \in Listed
        BY <2>2, <2>3, <2>7
      <3>2. i = cursor \/ Follows(cursor, i)
        BY <2>2
      <3>3. QED
        BY <2>8, <2>9, <3>1, <3>2
    <2>11. /\ walk' \in Walk /\ walk'.twice = {} /\ walk'.first = walk.first
           /\ walk'.shown = walk.shown \cup page
           /\ IF more /\ last # {}
              THEN walk'.phase = "open" /\ walk'.cursor \in last
              ELSE walk'.phase = "over"
      <3>1. /\ shown \in Walk /\ shown.twice = {} /\ shown.first = walk.first
            /\ shown.shown = walk.shown \cup page /\ shown.phase = "open"
        BY <2>1, <2>2, <2>4, <2>10 DEF Walk
      <3>2. last \subseteq Invitation
        BY <2>4
      <3> HIDE DEF shown, last, more
      <3>3. CASE more /\ last # {}
        <4>1. PICK next \in last : next = CHOOSE i \in last : TRUE
          BY <3>3
        <4>2. walk' = [shown EXCEPT !.cursor = next]
          BY <2>1, <3>3, <4>1
        <4>3. QED
          BY <3>1, <3>2, <3>3, <4>2 DEF Walk
      <3>4. CASE ~ (more /\ last # {})
        <4>1. walk' = [shown EXCEPT !.phase = "over"]
          BY <2>1, <3>4
        <4>2. QED
          BY <3>1, <3>4, <4>1 DEF Walk
      <3>5. QED
        BY <3>3, <3>4
    <2>12. \A i \in walk.first : i \in walk.shown \/ i \in after
      BY <2>2, <2>7
    <2>13. CASE more /\ last # {}
      <3>1. PICK next \in last : walk'.cursor = next
        BY <2>11, <2>13
      <3>2. next \in page /\ next \in Listed /\ \A j \in page \ {next} : Follows(next, j)
        BY <2>4, <3>1
      <3>3. next # Start /\ Exists(next)
        BY <2>4, <2>5, <3>2 DEF Listed
      <3>4. ASSUME NEW i \in walk.shown \cup page
            PROVE  Exists(i) /\ (i = next \/ Follows(next, i))
        <4>1. i \in Listed
          BY <2>4, <2>7
        <4>2. CASE i \in page
          BY <3>2, <4>1, <4>2 DEF Listed
        <4>3. CASE i \in walk.shown
          <5>1. cursor # Start /\ (i = cursor \/ Follows(cursor, i))
            BY <2>2, <4>3
          <5>2. Follows(next, cursor)
            BY <2>3, <3>2, <5>1
          <5>3. QED
            BY <2>8, <2>9, <3>2, <4>1, <5>1, <5>2 DEF Listed
        <4>4. QED
          BY <4>2, <4>3
      <3>5. ASSUME NEW i \in walk.first
            PROVE  Exists(i) /\ (i \in walk.shown \cup page \/ Follows(i, next))
        BY <2>2, <2>3, <2>12, <3>2
      <3>6. /\ \A i \in Listed : Exists(i)'
            /\ \A i, j \in Listed : Follows(i, j) => Follows(i, j)'
        BY <2>1 DEF Listed, Exists, Follows
      <3>7. /\ walk'.phase = "open" /\ walk'.cursor = next
            /\ walk'.shown = walk.shown \cup page /\ walk'.first = walk.first
        BY <2>11, <2>13, <3>1
      <3>8. \A i \in walk'.shown :
               Exists(i)' /\ (i = walk'.cursor \/ Follows(walk.cursor, i)')
        BY <2>4, <2>7, <3>2, <3>4, <3>6, <3>7
      <3>9. \A i \in walk'.first :
               Exists(i)' /\ (i \in walk'.shown \/ Follows(i, walk.cursor)')
        BY <2>7, <3>2, <3>5, <3>6, <3>7
      <3>10. Exists(walk.cursor)'
        BY <3>2, <3>6, <3>7
      <3>11. QED
        BY <2>11, <3>3, <3>7, <3>8, <3>9, <3>10 DEF Walked
    <2>14. CASE ~ (more /\ last # {})
      <3>1. after \subseteq page
        <4>1. CASE ~ more
          BY <4>1
        <4>2. CASE last = {}
          BY <2>3, <4>2
        <4>3. QED
          BY <2>14, <4>1, <4>2
      <3>2. walk.first \subseteq walk.shown \cup page
        BY <2>12, <3>1
      <3>3. walk'.phase = "over"
        BY <2>11, <2>14
      <3>4. QED
        BY <2>11, <3>2, <3>3 DEF Walked
    <2>15. QED
      BY <2>13, <2>14
  <1>4. QED
    BY <1>1, <1>2, <1>3, WalkIsKept

\* For any invitations, page size and number of requests: a client that walks
\* the list to its end has been shown every invitation there was when it began,
\* and none twice, whatever was created or swept meanwhile and however many
\* share one instant (listInvitations).
THEOREM WalksAreWhole == Spec => []WalkIsWhole
  <1>1. Init => Walked
    <2> SUFFICES ASSUME Init PROVE Walked
      OBVIOUS
    <2>1. walk = [phase |-> "idle", cursor |-> Start, first |-> {}, shown |-> {},
                  twice |-> {}]
      BY DEF Init
    <2>2. QED
      BY <2>1 DEF Walked, Walk
  <1>2. IInv /\ Walked /\ [Next]_vars => Walked'
    BY WalkedStep
  <1>3. Walked => WalkIsWhole
    BY DEF Walked, WalkIsWhole
  <1>4. QED
    BY <1>1, <1>2, <1>3, InvariantHolds, PTL DEF Spec
=============================================================================
