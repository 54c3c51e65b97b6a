--------------------------- MODULE SessionsProofs ---------------------------
(* Logout and reset end what they say they end, for any principals,          *)
(* Organizations, sessions, calls and number of requests.                    *)
EXTENDS Sessions, TLAPS

\* The phases through which a call of each kind goes.
RightPhase(r) ==
    LET kind == r.call.kind IN
    /\ r.phase = "idle" => kind = "none"
    /\ r.phase \in {"verify", "insert"} => kind = "login"
    /\ r.phase = "session" => kind \in {"resolve", "principal", "enterable", "select"}
    /\ r.phase = "principal" =>
          kind \in {"login", "resolve", "principal", "enterable", "select"}
    /\ r.phase \in {"membership", "organization"} => kind \in {"resolve", "select"}
    /\ r.phase = "memberships" => kind = "enterable"
    /\ r.phase \in {"find", "delete"} => kind = "logout"
    /\ r.phase \in {"operator", "credential", "list", "batch", "inform", "tell"} =>
          kind = "reset"
    /\ r.phase = "reserve" => kind \in {"login", "select", "logout", "reset"}
    /\ r.phase = "update" => kind = "select"
    /\ r.phase = "tell" => r.set \subseteq Org

TypeInv == TypeOK /\ \A q \in Req : RightPhase(req[q])

\* A reset that was made, and a login that has verified the key of p.
Taken(x) == x.call.kind = "reset" /\ x.took
Going(x, p) == /\ x.call.kind = "login" /\ x.who = p
               /\ x.phase \in {"principal", "reserve", "insert"}

\* Key k was given to p by q, or after it.
Newer(p, q, k) ==
    \E i, j \in DOMAIN keys[p] : i <= j /\ keys[p][i] = q /\ keys[p][j] = k

\* What a reset in state x has listed and what it knew of.
Listed(x) ==
    \A s \in x.known :
       /\ sessions[s].state # "unopened"
       /\ s \in x.set \cup x.excused \/ sessions[s].expires <= x.at

\* What is known of request q, being x.
Sound(q, x) ==
    /\ x.phase \in {"inform", "tell"} => x.took
    /\ Taken(x) => x.phase \in {"inform", "tell", "done"}
    /\ x.answer # "none" => x.phase = "done"
    /\ x.answer = "cleared" => /\ x.call.kind = "logout"
                               /\ x.hindered \/ ~ Stored(x.call.sid)
    /\ (x.call.kind = "logout" /\ x.call.sid \in Req) =>
          req[x.call.sid].phase = "done"
    /\ (x.call.kind = "reset" /\ x.phase \notin {"idle", "inform", "tell", "done"}) =>
          x.at <= clock
    /\ (x.call.kind = "reset" /\ x.phase \in {"reserve", "batch"}) => Listed(x)
    /\ Taken(x) => \E i \in DOMAIN keys[x.who] : keys[x.who][i] = q

EachSound == \A q \in Req : Sound(q, req[q])

\* A login in state x that verified its key after reset q, or else is excused.
Passes(l, x, q) ==
    (Taken(req[q]) /\ Going(x, req[q].who)) =>
        l \in req[q].excused \/ Newer(req[q].who, q, x.call.key)

OnTheWay == \A q, l \in Req : Passes(l, req[l], q)

\* Only a login that is done has opened its session.
OpenedWhenDone ==
    \A l \in Req : sessions[l].state # "unopened" => req[l].phase = "done"

IInv == TypeInv /\ EachSound /\ OnTheWay /\ OpenedWhenDone /\ ResetEndsOldKeys

-----------------------------------------------------------------------------
\* What a call holds, by its kind.
LEMMA CallLemma ==
    ASSUME NEW c \in Call
    PROVE  /\ c.kind \in {"login", "resolve", "principal", "enterable", "logout",
                          "select", "reset"}
           /\ c.kind \in {"login", "reset"} => c.target \in Principal
           /\ c.kind = "login" => c.key \in Key
           /\ c.kind \in {"resolve", "principal", "enterable", "logout", "select"} =>
                 c.sid \in Sid
           /\ c.kind = "select" => c.org \in Org
  BY DEF Call

LEMMA RequestCall ==
    ASSUME NEW r \in Request, r.call.kind # "none"
    PROVE  r.call \in Call
  BY DEF Request

LEMMA RelevantLemma ==
    ASSUME NEW c \in Call
    PROVE  Relevant(c) \subseteq Fact
  <1>1. c.kind = "select" => c.org \in Org
    BY CallLemma
  <1>2. QED
    BY <1>1 DEF Relevant, Fact

LEMMA IdleType == Idle \in Request /\ RightPhase(Idle)
  <1>1. (CHOOSE p \in Principal : TRUE) \in Principal
    BY SessionsAssumption
  <1>2. 0 \in Time /\ 0 \in Expiry
    BY SessionsAssumption DEF Time, Expiry
  <1>3. QED
    BY <1>1, <1>2 DEF Idle, Request, Phase, Answer, RightPhase

\* A request that is answered keeps its call and its history.
LEMMA AnsweredLemma ==
    ASSUME NEW r \in Request, NEW answer \in Answer
    PROVE  LET x == Answered(r, answer) IN
           /\ x \in Request /\ RightPhase(x)
           /\ x.phase = "done" /\ x.answer = answer /\ x.call = r.call
           /\ x.who = r.who /\ x.took = r.took /\ x.excused = r.excused
           /\ x.hindered = r.hindered /\ x.org = r.org /\ x.set = r.set
  <1>1. 0 \in Time /\ 0 \in Expiry
    BY SessionsAssumption DEF Time, Expiry
  <1>2. QED
    BY <1>1 DEF Answered, Request, Phase, RightPhase

\* The codes with which a request is refused.
Code == {"unauthenticated", "not_found", "forbidden", "quota_exceeded", "unavailable"}

LEMMA RefusedLemma ==
    ASSUME NEW r \in Request, NEW code \in Code
    PROVE  LET x == Refused(r, code) IN
           /\ x \in Request /\ RightPhase(x)
           /\ x.phase = "done" /\ x.answer \in Answer \ {"none", "issued"}
           /\ x.answer = "cleared" => x.call.kind = "logout" /\ x.hindered
           /\ x.call = r.call /\ x.who = r.who /\ x.took = r.took
           /\ x.excused = r.excused
  <1>1. CASE r.call.kind = "logout"
    <2> DEFINE a == Answered(r, "cleared")
    <2>1. a \in Request /\ a.phase = "done" /\ a.answer = "cleared" /\ a.call = r.call
          /\ a.who = r.who /\ a.took = r.took /\ a.excused = r.excused
      BY AnsweredLemma DEF Answer
    <2>2. Refused(r, code) = [a EXCEPT !.hindered = TRUE]
      BY <1>1 DEF Refused
    <2> HIDE DEF a
    <2>3. [a EXCEPT !.hindered = TRUE] \in Request
      BY <2>1 DEF Request
    <2>4. QED
      BY <1>1, <2>1, <2>2, <2>3 DEF Request, RightPhase, Answer
  <1>2. CASE r.call.kind # "logout"
    <2>1. PICK answer \in {"refused", "unavailable", code} :
             Refused(r, code) = Answered(r, answer)
      BY <1>2 DEF Refused
    <2>2. answer \in Answer \ {"none", "issued", "cleared"}
      BY <2>1 DEF Answer, Code
    <2>3. QED
      BY <2>1, <2>2, AnsweredLemma
  <1>3. QED
    BY <1>1, <1>2

-----------------------------------------------------------------------------
\* Request q becomes y, and what it misses is recorded.
LEMMA BecomesType ==
    ASSUME TypeInv, NEW q \in Req, NEW y \in Request, RightPhase(y),
           req' = [req EXCEPT ![q] = y], MissingNext
    PROVE  /\ req' \in [Req -> Request] /\ missing' \in [Req -> SUBSET Fact]
           /\ \A p \in Req : RightPhase(req'[p])
  <1>1. req' \in [Req -> Request] /\ \A p \in Req : RightPhase(req'[p])
    BY DEF TypeInv, TypeOK
  <1>2. ASSUME NEW p \in Req, req'[p].phase \notin {"idle", "done"}
        PROVE  NotSo(req[p].call)' \subseteq Fact
    <2>1. req'[p] \in Request /\ RightPhase(req'[p])
      BY <1>1
    <2>2. req'[p].phase \in Phase
      BY <2>1 DEF Request
    <2>3. req'[p].call.kind # "none"
      BY <1>2, <2>1, <2>2 DEF RightPhase, Phase
    <2>4. Relevant(req'[p].call) \subseteq Fact
      BY <2>1, <2>3, RequestCall, RelevantLemma
    <2>5. QED
      BY <2>4 DEF NotSo
  <1>3. missing \in [Req -> SUBSET Fact]
    BY DEF TypeInv, TypeOK
  <1> DEFINE next(p) ==
        IF req'[p].phase \in {"idle", "done"} THEN {}
        ELSE IF req[p].phase = "idle" THEN NotSo(req[p].call)'
        ELSE IF missing[p] = {} THEN {}
        ELSE missing[p] \cap NotSo(req[p].call)'
  <1>4. \A p \in Req : next(p) \in SUBSET Fact
    BY <1>2, <1>3
  <1>5. missing' = [p \in Req |-> next(p)]
    BY DEF MissingNext
  <1> HIDE DEF next
  <1>6. missing' \in [Req -> SUBSET Fact]
    BY <1>4, <1>5
  <1>7. QED
    BY <1>1, <1>6

\* So a step of one request that leaves the tables alone keeps the types.
LEMMA ReadType ==
    ASSUME TypeInv, NEW q \in Req, NEW y \in Request, RightPhase(y),
           req' = [req EXCEPT ![q] = y], MissingNext, faults' \in Nat,
           told' \subseteq Org \X Req,
           UNCHANGED <<clock, sessions, keys, standing, changes>>
    PROVE  TypeInv'
  <1>1. /\ req' \in [Req -> Request] /\ missing' \in [Req -> SUBSET Fact]
        /\ \A p \in Req : RightPhase(req'[p])
    BY BecomesType
  <1>2. TypeOK'
    BY <1>1 DEF TypeInv, TypeOK, standing
  <1>3. QED
    BY <1>1, <1>2 DEF TypeInv

LEMMA FaultType ==
    ASSUME TypeInv
    PROVE  Fault \/ UNCHANGED faults => faults' \in Nat
  BY DEF TypeInv, TypeOK, Fault

-----------------------------------------------------------------------------
\* What every step does to sessions, keys and the clock, where the requests
\* in set busy take it: rows stay what they are but for their Organization and
\* their end, and keys are only added.
Evolves(busy) ==
    /\ clock <= clock' /\ clock' \in Time
    /\ \A s \in Sid : sessions[s].state # "unopened" =>
          /\ sessions'[s].state # "unopened"
          /\ sessions'[s].by = sessions[s].by
          /\ sessions'[s].expires = sessions[s].expires
          /\ sessions'[s].key = sessions[s].key
    /\ \A s \in Sid : sessions'[s].state = "stored" =>
          sessions[s].state = "stored" \/ s \in busy
    /\ \A s \in Sid \ busy : sessions[s].state = "unopened" =>
          sessions'[s].state = "unopened"
    /\ \A p \in Principal : \A i \in DOMAIN keys[p] :
          i \in DOMAIN keys'[p] /\ keys'[p][i] = keys[p][i]

LEMMA StillEvolves ==
    ASSUME TypeInv, clock <= clock', clock' \in Time, UNCHANGED <<sessions, keys>>
    PROVE  Evolves({})
  BY DEF Evolves

\* What is sound stays so, where only requests in busy move.
LEMMA SoundStays ==
    ASSUME IInv, NEW busy \in SUBSET Req, Evolves(busy),
           \A b \in busy : req[b].phase # "done",
           \A l \in Req \ busy : req'[l] = req[l],
           NEW p \in Req, NEW x \in Request, Sound(p, x)
    PROVE  Sound(p, x)'
  <1>1. x.answer = "cleared" => x.hindered \/ ~ Stored(x.call.sid)'
    <2> SUFFICES ASSUME x.answer = "cleared", ~ x.hindered, Stored(x.call.sid)'
                 PROVE  FALSE
      OBVIOUS
    <2>1. x.call.kind = "logout" /\ ~ Stored(x.call.sid)
      BY DEF Sound
    <2>2. x.call.sid \in Sid
      BY <2>1, RequestCall, CallLemma
    <2>3. x.call.sid \in busy
      BY <2>1, <2>2 DEF Evolves, Stored
    <2>4. req[x.call.sid].phase = "done"
      BY <2>1, <2>3 DEF Sound
    <2>5. QED
      BY <2>3, <2>4
  <1>2. (x.call.kind = "logout" /\ x.call.sid \in Req) =>
          req'[x.call.sid].phase = "done"
    BY DEF Sound
  <1>3. (x.call.kind = "reset" /\ x.phase \notin {"idle", "inform", "tell", "done"}) =>
          x.at <= clock'
    <2>1. x.at \in Int /\ clock \in Int /\ clock' \in Int
      BY DEF Evolves, IInv, TypeInv, TypeOK, Request, Time
    <2>2. QED
      BY <2>1 DEF Sound, Evolves
  <1>4. ASSUME x.call.kind = "reset", x.phase \in {"reserve", "batch"},
               NEW s \in x.known
        PROVE  /\ sessions'[s].state # "unopened"
               /\ \/ s \in x.set \cup x.excused
                  \/ sessions'[s].expires <= x.at
    <2>1. s \in Sid
      BY DEF Request
    <2>2. QED
      BY <1>4, <2>1 DEF Sound, Evolves, Listed
  <1>5. Taken(x) => \E i \in DOMAIN keys'[x.who] : keys'[x.who][i] = p
    <2>1. x.who \in Principal
      BY DEF Request
    <2>2. QED
      BY <2>1 DEF Sound, Evolves
  <1>6. /\ x.phase \in {"inform", "tell"} => x.took
        /\ Taken(x) => x.phase \in {"inform", "tell", "done"}
        /\ x.answer # "none" => x.phase = "done"
        /\ x.answer = "cleared" => x.call.kind = "logout"
    BY DEF Sound
  <1>7. QED
    BY <1>1, <1>2, <1>3, <1>4, <1>5, <1>6 DEF Sound, Taken, Stored, Listed

\* So does what a reset q of p that was made has ended.
LEMMA EndedStays ==
    ASSUME IInv, NEW busy, Evolves(busy), NEW q \in Req, Taken(req[q]),
           NEW p \in Principal, req[q].who = p,
           NEW s \in Sid, Stored(s), Stored(s)', sessions'[s].by = p
    PROVE  ~ Live(s)' \/ s \in req[q].excused \/ Newer(p, q, sessions[s].key)'
  <1>1. /\ sessions'[s].by = sessions[s].by
        /\ sessions'[s].expires = sessions[s].expires
        /\ sessions'[s].key = sessions[s].key
    BY DEF Evolves, Stored
  <1>2. s \in Of(p)
    BY <1>1 DEF Of
  <1>3. ~ Live(s) \/ s \in req[q].excused \/ Newer(p, q, sessions[s].key)
    BY <1>2 DEF IInv, ResetEndsOldKeys, Taken, Kind, Newer
  <1>5. CASE ~ Live(s)
    <2>1. sessions[s].expires \in Int /\ clock \in Int /\ clock' \in Int
      BY DEF Evolves, IInv, TypeInv, TypeOK, Session, Time, Expiry
    <2>2. QED
      BY <1>1, <1>5, <2>1 DEF Live, Stored, Evolves
  <1>6. CASE Newer(p, q, sessions[s].key)
    <2>1. Newer(p, q, sessions[s].key)'
      BY <1>1, <1>6 DEF Newer, Evolves
    <2>2. QED
      BY <2>1
  <1>7. QED
    BY <1>3, <1>5, <1>6

\* What the resets that were made excuse or precede, they do still.
LEMMA PassesStays ==
    ASSUME IInv, NEW busy, Evolves(busy), NEW q \in Req, NEW l, NEW x,
           Passes(l, x, q),
           Taken(req'[q]) => /\ Taken(req[q]) /\ req'[q].who = req[q].who
                             /\ req'[q].excused = req[q].excused
    PROVE  Passes(l, x, q)'
  <1> SUFFICES ASSUME Taken(req'[q]), Going(x, req'[q].who)
               PROVE  \/ l \in req'[q].excused
                      \/ Newer(req[q].who, q, x.call.key)'
    BY DEF Passes
  <1> DEFINE p == req[q].who
  <1>1. p \in Principal
    BY DEF IInv, TypeInv, TypeOK, Request
  <1>2. /\ Taken(req[q]) /\ req'[q].who = p /\ Going(x, p)
        /\ req'[q].excused = req[q].excused
    OBVIOUS
  <1>3. l \in req[q].excused \/ Newer(p, q, x.call.key)
    BY <1>2 DEF Passes
  <1>4. CASE Newer(p, q, x.call.key)
    <2>1. \E i, j \in DOMAIN keys[p] :
             i <= j /\ keys[p][i] = q /\ keys[p][j] = x.call.key
      BY <1>4 DEF Newer
    <2> HIDE DEF p
    <2>2. \E i, j \in DOMAIN keys'[p] :
             i <= j /\ keys'[p][i] = q /\ keys'[p][j] = x.call.key
      BY <1>1, <2>1 DEF Evolves
    <2>3. QED
      BY <1>2, <2>2 DEF Newer
  <1>5. QED
    BY <1>2, <1>3, <1>4

\* The invariant after request q, and no other, became y.
LEMMA Becomes ==
    ASSUME IInv, TypeInv', NEW q \in Req, NEW y \in Request,
           req' = [req EXCEPT ![q] = y], req[q].phase # "done", Evolves({q}),
           Sound(q, y)',
           \A r \in Req \ {q} : Passes(q, y, r)',
           \A l \in Req \ {q} : Passes(l, req[l], q)',
           Taken(y) => \A s \in Of(y.who)' :
               ~ Live(s)' \/ s \in y.excused \/ Newer(y.who, q, sessions[s].key)',
           \A r \in Req \ {q} :
               (Taken(req[r]) /\ ~ Stored(q) /\ Stored(q)'
                  /\ sessions'[q].by = req[r].who) =>
                     \/ q \in req[r].excused
                     \/ Newer(req[r].who, r, sessions[q].key)',
           sessions'[q].state # "unopened" => y.phase = "done"
    PROVE  IInv'
  <1>1. /\ req'[q] = y
        /\ \A r \in Req \ {q} : req'[r] = req[r] /\ req[r] \in Request
    BY DEF IInv, TypeInv, TypeOK
  <1>2. EachSound'
    <2> SUFFICES ASSUME NEW r \in Req PROVE Sound(r, req[r])'
      BY DEF EachSound
    <2>1. CASE r = q
      BY <1>1, <2>1
    <2>2. CASE r # q
      <3>1. PICK x \in Request : x = req[r]
        BY <1>1, <2>2
      <3>2. Sound(r, x) /\ req'[r] = x
        BY <1>1, <2>2, <3>1 DEF IInv, EachSound
      <3>3. Sound(r, x)'
        <4>1. \A l \in Req \ {q} : req'[l] = req[l]
          BY <1>1
        <4>2. {q} \in SUBSET Req /\ \A b \in {q} : req[b].phase # "done"
          OBVIOUS
        <4>3. QED
          BY <3>2, <4>1, <4>2, SoundStays
      <3>4. QED
        BY <3>2, <3>3 DEF Sound
    <2>3. QED
      BY <2>1, <2>2
  <1>3. OnTheWay'
    <2> SUFFICES ASSUME NEW r \in Req, NEW l \in Req PROVE Passes(l, req[l], r)'
      BY DEF OnTheWay
    <2>1. CASE r = q /\ l = q
      BY <1>1, <2>1 DEF Passes, Taken, Going
    <2>2. CASE r = q /\ l # q
      BY <2>2
    <2>3. CASE r # q /\ l = q
      <3>1. Passes(q, y, r)'
        BY <2>3
      <3>2. QED
        BY <1>1, <2>3, <3>1 DEF Passes
    <2>4. CASE r # q /\ l # q
      <3>1. PICK x \in Request : x = req[l]
        BY <1>1, <2>4
      <3>2. Passes(l, x, r) /\ req'[r] = req[r] /\ req'[l] = x
        BY <1>1, <2>4, <3>1 DEF IInv, OnTheWay
      <3>3. Passes(l, x, r)'
        BY <3>2, PassesStays
      <3>4. QED
        BY <3>2, <3>3 DEF Passes
    <2>5. QED
      BY <2>1, <2>2, <2>3, <2>4
  <1>4. OpenedWhenDone'
    <2> SUFFICES ASSUME NEW l \in Req, sessions'[l].state # "unopened"
                 PROVE  req'[l].phase = "done"
      BY DEF OpenedWhenDone
    <2>1. CASE l = q
      BY <1>1, <2>1
    <2>2. CASE l # q
      <3>1. l \in Sid \ {q}
        BY <2>2 DEF Sid
      <3>2. sessions[l].state # "unopened"
        BY <3>1 DEF Evolves
      <3>3. QED
        BY <1>1, <2>2, <3>2 DEF IInv, OpenedWhenDone
    <2>3. QED
      BY <2>1, <2>2
  <1>5. ResetEndsOldKeys'
    <2> SUFFICES ASSUME NEW r \in Req, Taken(req'[r]), NEW s \in Of(req[r].who)'
                 PROVE  \/ ~ Live(s)'
                        \/ s \in req'[r].excused
                        \/ Newer(req[r].who, r, sessions[s].key)'
      BY DEF ResetEndsOldKeys, Taken, Kind, Newer
    <2>1. CASE r = q
      BY <1>1, <2>1 DEF Newer
    <2>2. CASE r # q
      <3>1. PICK p \in Principal : p = req[r].who
        BY <1>1, <2>2 DEF Request
      <3>2. /\ req'[r] = req[r] /\ Taken(req[r]) /\ req[r].who = p
            /\ s \in Sid /\ Stored(s)' /\ sessions'[s].by = p
        BY <1>1, <2>2, <3>1 DEF Of
      <3>3. CASE Stored(s)
        <4>1. ~ Live(s)' \/ s \in req[r].excused \/ Newer(p, r, sessions[s].key)'
          BY <3>1, <3>2, <3>3, EndedStays
        <4>2. QED
          BY <3>2, <4>1 DEF Newer
      <3>4. CASE ~ Stored(s)
        <4>1. s = q
          BY <3>2, <3>4 DEF Evolves, Stored
        <4>2. QED
          BY <2>2, <3>2, <3>4, <4>1
      <3>5. QED
        BY <3>3, <3>4
    <2>3. QED
      BY <2>1, <2>2
  <1>6. QED
    BY <1>2, <1>3, <1>4, <1>5 DEF IInv

\* Nothing changes but requests, and what Organizations are told.
Alone ==
    /\ MissingNext
    /\ faults' \in Nat
    /\ told' \subseteq Org \X Req
    /\ UNCHANGED <<clock, sessions, keys, standing, changes>>

\* The invariant after a step that only request q notices, and perhaps an
\* Organization.
LEMMA Reads ==
    ASSUME IInv, NEW q \in Req, NEW y \in Request, RightPhase(y),
           req' = [req EXCEPT ![q] = y], Alone, req[q].phase # "done",
           Sound(q, y), \A r \in Req \ {q} : Passes(q, y, r),
           Taken(y) => /\ Taken(req[q]) /\ y.who = req[q].who
                       /\ y.excused = req[q].excused
    PROVE  IInv'
  <1>1. TypeInv'
    BY ReadType DEF IInv, Alone
  <1>2. Evolves({q})
    BY DEF Alone, Evolves, IInv, TypeInv, TypeOK, Time
  <1>3. /\ req'[q] = y
        /\ \A l \in Req \ {q} : req'[l] = req[l] /\ req[l] \in Request
    BY DEF IInv, TypeInv, TypeOK
  <1>4. Sound(q, y)'
    <2>1. {q} \in SUBSET Req /\ \A b \in {q} : req[b].phase # "done"
      OBVIOUS
    <2>2. QED
      BY <1>2, <1>3, <2>1, SoundStays
  <1>5. ASSUME NEW r \in Req \ {q} PROVE Passes(q, y, r)'
    BY <1>2, <1>3, PassesStays
  <1>6. ASSUME NEW l \in Req \ {q} PROVE Passes(l, req[l], q)'
    <2>1. PICK x \in Request : x = req[l]
      BY <1>3
    <2>2. Passes(l, x, q) /\ req'[l] = x
      BY <1>3, <2>1 DEF IInv, OnTheWay
    <2>3. Passes(l, x, q)'
      BY <1>2, <1>3, <2>2, PassesStays
    <2>4. QED
      BY <2>2, <2>3 DEF Passes
  <1>7. ASSUME Taken(y), NEW s \in Of(y.who)'
        PROVE  ~ Live(s)' \/ s \in y.excused \/ Newer(y.who, q, sessions[s].key)'
    <2>1. PICK p \in Principal : p = y.who
      BY DEF Request
    <2>2. /\ Taken(req[q]) /\ req[q].who = p /\ y.excused = req[q].excused
          /\ s \in Sid /\ Stored(s) /\ Stored(s)' /\ sessions'[s].by = p
      BY <1>7, <2>1 DEF Of, Stored, Alone
    <2>3. ~ Live(s)' \/ s \in req[q].excused \/ Newer(p, q, sessions[s].key)'
      BY <1>2, <2>2, EndedStays
    <2>4. QED
      BY <2>1, <2>2, <2>3 DEF Newer
  <1>8. sessions'[q].state = "unopened" /\ (Stored(q)' => Stored(q))
    BY DEF IInv, OpenedWhenDone, Stored, Alone
  <1>9. QED
    BY <1>1, <1>2, <1>4, <1>5, <1>6, <1>7, <1>8, Becomes

\* What is known of request q before it moves.
LEMMA Known ==
    ASSUME IInv, NEW q \in Req
    PROVE  /\ req[q] \in Request /\ RightPhase(req[q]) /\ Sound(q, req[q])
           /\ req[q].phase \notin {"idle", "done"} => req[q].call \in Call
           /\ req[q].phase # "done" => req[q].answer = "none"
  <1>1. req[q] \in Request /\ RightPhase(req[q]) /\ Sound(q, req[q])
    BY DEF IInv, TypeInv, TypeOK, EachSound
  <1>2. req[q].phase \notin {"idle", "done"} => req[q].call.kind # "none"
    <2>1. req[q].phase \in Phase
      BY <1>1 DEF Request
    <2>2. QED
      BY <1>1, <2>1 DEF RightPhase, Phase
  <1>3. QED
    BY <1>1, <1>2, RequestCall DEF Sound

\* Request q is answered.
LEMMA Ends ==
    ASSUME IInv, NEW q \in Req, NEW y \in Request, RightPhase(y),
           req' = [req EXCEPT ![q] = y], Alone, req[q].phase # "done",
           y.phase = "done", y.call = req[q].call, y.took = req[q].took,
           y.who = req[q].who, y.excused = req[q].excused,
           y.answer = "cleared" => /\ y.call.kind = "logout"
                                   /\ y.hindered \/ ~ Stored(y.call.sid)
    PROVE  IInv'
  <1>1. Sound(q, req[q])
    BY Known
  <1>2. Sound(q, y)
    BY <1>1 DEF Sound, Taken
  <1>3. \A r \in Req \ {q} : Passes(q, y, r)
    BY DEF Passes, Going
  <1>4. QED
    BY <1>2, <1>3, Reads DEF Taken

LEMMA IsRefused ==
    ASSUME IInv, NEW q \in Req, NEW code \in Code, Goto(q, Refused(req[q], code)),
           Alone, req[q].phase # "done"
    PROVE  IInv'
  <1>1. PICK y \in Request : y = Refused(req[q], code)
    BY Known, RefusedLemma
  <1>2. /\ RightPhase(y) /\ y.phase = "done" /\ y.call = req[q].call
        /\ y.took = req[q].took /\ y.who = req[q].who /\ y.excused = req[q].excused
        /\ y.answer = "cleared" => y.call.kind = "logout" /\ y.hindered
    BY <1>1, Known, RefusedLemma
  <1>3. req' = [req EXCEPT ![q] = y]
    BY <1>1 DEF Goto
  <1>4. QED
    BY <1>2, <1>3, Ends

LEMMA IsAnswered ==
    ASSUME IInv, NEW q \in Req, NEW answer \in Answer,
           Goto(q, Answered(req[q], answer)), Alone, req[q].phase # "done",
           answer = "cleared" => /\ req[q].call.kind = "logout"
                                 /\ ~ Stored(req[q].call.sid)
    PROVE  IInv'
  <1>1. PICK y \in Request : y = Answered(req[q], answer)
    BY Known, AnsweredLemma
  <1>2. /\ RightPhase(y) /\ y.phase = "done" /\ y.call = req[q].call
        /\ y.took = req[q].took /\ y.who = req[q].who /\ y.excused = req[q].excused
        /\ y.answer = answer
    BY <1>1, Known, AnsweredLemma
  <1>3. req' = [req EXCEPT ![q] = y]
    BY <1>1 DEF Goto
  <1>4. QED
    BY <1>2, <1>3, Ends

\* Request q goes on, and no reset has been made by it.
LEMMA GoesOn ==
    ASSUME IInv, NEW q \in Req, NEW y \in Request, RightPhase(y),
           req' = [req EXCEPT ![q] = y], Alone,
           req[q].phase \notin {"idle", "inform", "tell", "done"},
           y.phase \notin {"idle", "inform", "tell", "done"},
           y.call = req[q].call, y.took = req[q].took, y.answer = req[q].answer,
           y.at = req[q].at,
           (y.call.kind = "reset" /\ y.phase \in {"reserve", "batch"}) => Listed(y),
           \/ Going(y, y.who) => Going(req[q], y.who)
           \/ \A r \in Req \ {q} : Passes(q, y, r)
    PROVE  IInv'
  <1>1. Sound(q, req[q]) /\ req[q].answer = "none"
    BY Known
  <1>2. ~ Taken(y)
    BY <1>1 DEF Sound, Taken
  <1>3. Sound(q, y)
    BY <1>1, <1>2 DEF Sound
  <1>4. ASSUME NEW r \in Req \ {q} PROVE Passes(q, y, r)
    <2>1. Passes(q, req[q], r)
      BY DEF IInv, OnTheWay
    <2>2. QED
      BY <2>1 DEF Passes, Going
  <1>5. QED
    BY <1>2, <1>3, <1>4, Reads

-----------------------------------------------------------------------------
\* One action at a time: what is read.

LEMMA IsAlone ==
    ASSUME IInv, MissingNext,
           UNCHANGED <<clock, sessions, keys, standing, told, changes>>,
           Fault \/ UNCHANGED faults
    PROVE  Alone
  BY FaultType DEF Alone, IInv, TypeInv, TypeOK

LEMMA AskStep ==
    ASSUME IInv, NEW q \in Req, Ask(q)
    PROVE  IInv'
  <1>1. PICK c \in Asked :
           /\ Given(c)
           /\ Goto(q, [Idle EXCEPT !.phase = EntryPhase[c.kind], !.call = c,
                                   !.at = IF c.kind = "reset" THEN clock ELSE 0])
    BY DEF Ask
  <1> DEFINE z == [Idle EXCEPT !.phase = EntryPhase[c.kind], !.call = c,
                               !.at = IF c.kind = "reset" THEN clock ELSE 0]
  <1>2. c \in Call
    BY SessionsAssumption
  <1>3. c.kind \in {"login", "resolve", "principal", "enterable", "logout",
                    "select", "reset"}
    BY <1>2, CallLemma
  <1>4. clock \in Time /\ 0 \in Time
    BY SessionsAssumption DEF IInv, TypeInv, TypeOK, Time
  <1>5. /\ EntryPhase[c.kind] \in {"verify", "session", "find", "operator"}
        /\ c.kind = "login" => EntryPhase[c.kind] = "verify"
        /\ c.kind \in {"resolve", "principal", "enterable", "select"} =>
              EntryPhase[c.kind] = "session"
        /\ c.kind = "logout" => EntryPhase[c.kind] = "find"
        /\ c.kind = "reset" => EntryPhase[c.kind] = "operator"
    BY <1>3 DEF EntryPhase
  <1>6. z \in Request
    <2>1. EntryPhase[c.kind] \in Phase
      BY <1>5 DEF Phase
    <2>2. QED
      BY <1>2, <1>4, <2>1, IdleType DEF Request
  <1>7. /\ z.phase = EntryPhase[c.kind] /\ z.call = c /\ ~ z.took /\ z.answer = "none"
        /\ z.at = IF c.kind = "reset" THEN clock ELSE 0
    BY DEF Idle
  <1>8. PICK y \in Request : y = z
    BY <1>6
  <1> HIDE DEF z
  <1>9. RightPhase(y)
    BY <1>3, <1>5, <1>7, <1>8 DEF RightPhase
  <1>10. (c.kind = "logout" /\ c.sid \in Req) => req[c.sid].phase = "done"
    <2> SUFFICES ASSUME c.kind = "logout", c.sid \in Req
                 PROVE  req[c.sid].phase = "done"
      OBVIOUS
    <2>1. req[c.sid].answer = "issued"
      BY <1>1 DEF Given
    <2>2. QED
      BY <2>1, Known
  <1>11. Sound(q, y)
    <2>1. clock <= clock
      BY <1>4 DEF Time
    <2>2. QED
      BY <1>5, <1>7, <1>8, <1>10, <2>1 DEF Sound, Taken
  <1>12. \A r \in Req \ {q} : Passes(q, y, r)
    BY <1>5, <1>7, <1>8 DEF Passes, Going
  <1>13. req' = [req EXCEPT ![q] = y]
    BY <1>1, <1>8 DEF Goto, z
  <1>14. Alone /\ req[q].phase # "done"
    BY IsAlone DEF Ask
  <1>15. ~ Taken(y)
    BY <1>7, <1>8 DEF Taken
  <1>16. QED
    BY <1>9, <1>11, <1>12, <1>13, <1>14, <1>15, Reads

LEMMA VerifyStep ==
    ASSUME IInv, NEW q \in Req, Verify(q)
    PROVE  IInv'
  <1> DEFINE x == req[q]
             z == [x EXCEPT !.phase = "principal", !.who = x.call.target]
  <1>1. Alone /\ x.phase = "verify"
    BY IsAlone DEF Verify
  <1>2. x \in Request /\ x.call \in Call /\ x.call.kind = "login"
    BY <1>1, Known DEF RightPhase
  <1>3. CASE Verifier(x.call.target) # x.call.key
    <2>1. Goto(q, Answered(x, "refused")) /\ "refused" \in Answer
      BY <1>3 DEF Verify, Answer
    <2>2. QED
      BY <1>1, <2>1, IsAnswered
  <1>4. CASE Verifier(x.call.target) = x.call.key
    <2>1. x.call.target \in Principal
      BY <1>2, CallLemma
    <2>2. PICK y \in Request : y = z
      BY <1>2, <2>1 DEF Request, Phase
    <2>3. /\ y.phase = "principal" /\ y.call = x.call /\ y.took = x.took
          /\ y.answer = x.answer /\ y.at = x.at /\ y.who = x.call.target
      BY <1>2, <2>2 DEF Request
    <2>4. req' = [req EXCEPT ![q] = y]
      BY <1>4, <2>2 DEF Verify, Goto
    <2>5. RightPhase(y)
      BY <1>2, <2>3 DEF RightPhase
    <2>6. ASSUME NEW r \in Req \ {q} PROVE Passes(q, y, r)
      <3> SUFFICES ASSUME Taken(req[r]), Going(y, req[r].who)
                   PROVE  Newer(req[r].who, r, y.call.key)
        BY DEF Passes
      <3>1. PICK p \in Principal : p = req[r].who
        BY Known DEF Request
      <3>2. PICK i \in DOMAIN keys[p] : keys[p][i] = r
        BY <3>1, Known DEF Sound
      <3>3. keys[p] \in Seq(Key)
        BY DEF IInv, TypeInv, TypeOK
      <3>4. Len(keys[p]) \in DOMAIN keys[p] /\ i <= Len(keys[p])
        BY <3>2, <3>3
      <3>5. keys[p][Len(keys[p])] = y.call.key
        BY <1>4, <2>3, <3>1 DEF Going, Verifier
      <3>6. QED
        BY <3>1, <3>2, <3>4, <3>5 DEF Newer
    <2>7. QED
      BY <1>1, <1>2, <2>3, <2>4, <2>5, <2>6, GoesOn
  <1>5. QED
    BY <1>3, <1>4

LEMMA FindSessionStep ==
    ASSUME IInv, NEW q \in Req, FindSession(q)
    PROVE  IInv'
  <1> DEFINE x == req[q]
             row == sessions[x.call.sid]
             z == [x EXCEPT !.phase = "principal", !.who = row.by,
                            !.org = IF x.call.kind = "select" THEN x.call.org
                                    ELSE row.org]
  <1>1. Alone /\ x.phase = "session"
    BY IsAlone DEF FindSession
  <1>2. /\ x \in Request /\ x.call \in Call
        /\ x.call.kind \in {"resolve", "principal", "enterable", "select"}
    BY <1>1, Known DEF RightPhase
  <1>3. CASE ~ Live(x.call.sid)
    <2>1. Goto(q, Refused(x, "unauthenticated")) /\ "unauthenticated" \in Code
      BY <1>3 DEF FindSession, Code
    <2>2. QED
      BY <1>1, <2>1, IsRefused
  <1>4. CASE Live(x.call.sid)
    <2>1. /\ x.call.sid \in Sid
          /\ x.call.kind = "select" => x.call.org \in Org
      BY <1>2, CallLemma
    <2>2. row.by \in Principal /\ row.org \in Org \cup {"none"}
      BY <2>1 DEF IInv, TypeInv, TypeOK, Session
    <2>3. PICK y \in Request : y = z
      BY <1>2, <2>1, <2>2 DEF Request, Phase
    <2>4. /\ y.phase = "principal" /\ y.call = x.call /\ y.took = x.took
          /\ y.answer = x.answer /\ y.at = x.at
      BY <1>2, <2>3 DEF Request
    <2>5. req' = [req EXCEPT ![q] = y]
      BY <1>4, <2>3 DEF FindSession, Goto
    <2>6. RightPhase(y) /\ ~ Going(y, y.who)
      BY <1>2, <2>4 DEF RightPhase, Going
    <2>7. QED
      BY <1>1, <1>2, <2>4, <2>5, <2>6, GoesOn
  <1>5. QED
    BY <1>3, <1>4

\* Most reads leave all but the phase, and perhaps who or what it is about.
LEMMA Advances ==
    ASSUME IInv, NEW q \in Req, Alone, NEW phase \in Phase, NEW who \in Principal,
           Goto(q, [req[q] EXCEPT !.phase = phase, !.who = who]),
           req[q].phase \notin {"idle", "inform", "tell", "done"},
           phase \notin {"idle", "inform", "tell", "done", "batch"},
           phase = "reserve" => req[q].call.kind # "reset",
           RightPhase([req[q] EXCEPT !.phase = phase, !.who = who]),
           \/ req[q].call.kind # "login"
           \/ who = req[q].who /\ req[q].phase \in {"principal", "reserve"}
    PROVE  IInv'
  <1> DEFINE x == req[q]
             z == [x EXCEPT !.phase = phase, !.who = who]
  <1>1. x \in Request
    BY Known
  <1>2. PICK y \in Request : y = z
    BY <1>1 DEF Request
  <1>3. /\ y.phase = phase /\ y.call = x.call /\ y.took = x.took
        /\ y.answer = x.answer /\ y.at = x.at /\ y.who = who
    BY <1>1, <1>2 DEF Request
  <1>4. req' = [req EXCEPT ![q] = y] /\ RightPhase(y)
    BY <1>2 DEF Goto
  <1>5. Going(y, y.who) => Going(x, y.who)
    BY <1>3 DEF Going
  <1>6. ~ (y.call.kind = "reset" /\ y.phase \in {"reserve", "batch"})
    BY <1>3
  <1>7. QED
    BY <1>3, <1>4, <1>5, <1>6, GoesOn

LEMMA FindPrincipalStep ==
    ASSUME IInv, NEW q \in Req, FindPrincipal(q)
    PROVE  IInv'
  <1> DEFINE x == req[q]
  <1>1. Alone /\ x.phase = "principal"
    BY IsAlone DEF FindPrincipal
  <1>2. /\ x \in Request
        /\ x.call.kind \in {"login", "resolve", "principal", "enterable", "select"}
    BY <1>1, Known DEF RightPhase
  <1>3. CASE ~ AdmittedPrincipal(x)
    <2>1. Goto(q, Refused(x, "unauthenticated")) /\ "unauthenticated" \in Code
      BY <1>3 DEF FindPrincipal, Code
    <2>2. QED
      BY <1>1, <2>1, IsRefused
  <1>4. CASE AdmittedPrincipal(x)
    <2>1. PICK step \in {"answer", "phase"} :
             \/ /\ step = "answer"
                /\ \E answer \in {"principal", "not_selected"} :
                      Onward(x) = Answered(x, answer)
             \/ /\ step = "phase"
                /\ \E phase \in {"reserve", "memberships", "membership"} :
                      /\ Onward(x) = [x EXCEPT !.phase = phase]
                      /\ phase = "reserve" => x.call.kind = "login"
                      /\ phase = "memberships" => x.call.kind = "enterable"
                      /\ phase = "membership" => x.call.kind \in {"resolve", "select"}
      BY <1>2 DEF Onward
    <2>2. Goto(q, Onward(x))
      BY <1>4 DEF FindPrincipal
    <2>3. CASE step = "answer"
      <3>1. PICK answer \in Answer \ {"cleared"} : Goto(q, Answered(x, answer))
        BY <2>1, <2>2, <2>3 DEF Answer
      <3>2. QED
        BY <1>1, <3>1, IsAnswered
    <2>4. CASE step = "phase"
      <3>1. PICK phase \in {"reserve", "memberships", "membership"} :
               /\ Onward(x) = [x EXCEPT !.phase = phase]
               /\ phase = "reserve" => x.call.kind = "login"
               /\ phase = "memberships" => x.call.kind = "enterable"
               /\ phase = "membership" => x.call.kind \in {"resolve", "select"}
        BY <2>1, <2>4
      <3>2. x.who \in Principal /\ phase \in Phase
        BY <1>2 DEF Request, Phase
      <3>3. [x EXCEPT !.phase = phase] = [x EXCEPT !.phase = phase, !.who = x.who]
        BY <1>2 DEF Request
      <3>4. RightPhase([x EXCEPT !.phase = phase, !.who = x.who])
        BY <1>2, <3>1 DEF Request, RightPhase
      <3>5. Goto(q, [x EXCEPT !.phase = phase, !.who = x.who])
        BY <2>2, <3>1, <3>3
      <3>6. phase \notin {"idle", "inform", "tell", "done", "batch"}
        BY <3>1
      <3>7. QED
        BY <1>1, <1>2, <3>2, <3>4, <3>5, <3>6, Advances
    <2>5. QED
      BY <2>1, <2>3, <2>4
  <1>5. QED
    BY <1>3, <1>4

LEMMA FindMembershipStep ==
    ASSUME IInv, NEW q \in Req, FindMembership(q)
    PROVE  IInv'
  <1> DEFINE x == req[q]
  <1>1. Alone /\ x.phase = "membership"
    BY IsAlone DEF FindMembership
  <1>2. x \in Request /\ x.call.kind \in {"resolve", "select"}
    BY <1>1, Known DEF RightPhase
  <1>3. CASE members[x.who][x.org] # "active"
    <2>1. PICK answer \in Answer \ {"cleared"} : Goto(q, Answered(x, answer))
      BY <1>3 DEF FindMembership, Answer
    <2>2. QED
      BY <1>1, <2>1, IsAnswered
  <1>4. CASE members[x.who][x.org] = "active"
    <2>1. x.who \in Principal /\ "organization" \in Phase
      BY <1>2 DEF Request, Phase
    <2>2. [x EXCEPT !.phase = "organization"]
             = [x EXCEPT !.phase = "organization", !.who = x.who]
      BY <1>2 DEF Request
    <2>3. RightPhase([x EXCEPT !.phase = "organization", !.who = x.who])
      BY <1>2 DEF Request, RightPhase
    <2>4. Goto(q, [x EXCEPT !.phase = "organization"])
      BY <1>4 DEF FindMembership
    <2>5. QED
      BY <1>1, <1>2, <2>1, <2>2, <2>3, <2>4, Advances
  <1>5. QED
    BY <1>3, <1>4

LEMMA FindOrganizationStep ==
    ASSUME IInv, NEW q \in Req, FindOrganization(q)
    PROVE  IInv'
  <1> DEFINE x == req[q]
  <1>1. Alone /\ x.phase = "organization"
    BY IsAlone DEF FindOrganization
  <1>2. x \in Request /\ x.call.kind \in {"resolve", "select"}
    BY <1>1, Known DEF RightPhase
  <1>3. CASE x.org \notin organizations \/ x.call.kind = "resolve"
    <2>1. PICK answer \in Answer \ {"cleared"} : Goto(q, Answered(x, answer))
      BY <1>3 DEF FindOrganization, Answer
    <2>2. QED
      BY <1>1, <2>1, IsAnswered
  <1>4. CASE ~ (x.org \notin organizations \/ x.call.kind = "resolve")
    <2>1. x.who \in Principal /\ "reserve" \in Phase
      BY <1>2 DEF Request, Phase
    <2>2. [x EXCEPT !.phase = "reserve"]
             = [x EXCEPT !.phase = "reserve", !.who = x.who]
      BY <1>2 DEF Request
    <2>3. RightPhase([x EXCEPT !.phase = "reserve", !.who = x.who])
      BY <1>2, <1>4 DEF Request, RightPhase
    <2>4. Goto(q, [x EXCEPT !.phase = "reserve"])
      BY <1>4 DEF FindOrganization
    <2>5. QED
      BY <1>1, <1>2, <2>1, <2>2, <2>3, <2>4, Advances
  <1>5. QED
    BY <1>3, <1>4

LEMMA ListEnterableStep ==
    ASSUME IInv, NEW q \in Req, ListEnterable(q)
    PROVE  IInv'
  <1> DEFINE x == req[q]
             a == Answered(x, "enterable")
             listed == {o \in Org : members[x.who][o] = "active"}
  <1>1. Alone /\ x.phase = "memberships"
    BY IsAlone DEF ListEnterable
  <1>2. /\ a \in Request /\ a.phase = "done" /\ a.call = x.call /\ a.who = x.who
        /\ a.took = x.took /\ a.excused = x.excused /\ a.answer = "enterable"
    BY Known, AnsweredLemma DEF Answer
  <1>3. Goto(q, [a EXCEPT !.set = listed])
    BY DEF ListEnterable
  <1>4. listed \in SUBSET (Sid \cup Org)
    OBVIOUS
  <1> HIDE DEF a, listed
  <1>5. PICK y \in Request : y = [a EXCEPT !.set = listed]
    BY <1>2, <1>4 DEF Request
  <1>6. /\ y.phase = "done" /\ y.call = x.call /\ y.who = x.who
        /\ y.took = x.took /\ y.excused = x.excused /\ y.answer = "enterable"
    BY <1>2, <1>5 DEF Request
  <1>7. req' = [req EXCEPT ![q] = y] /\ RightPhase(y)
    BY <1>3, <1>5, <1>6 DEF Goto, RightPhase
  <1>8. QED
    BY <1>1, <1>6, <1>7, Ends

LEMMA FindForLogoutStep ==
    ASSUME IInv, NEW q \in Req, FindForLogout(q)
    PROVE  IInv'
  <1> DEFINE x == req[q]
             row == sessions[x.call.sid]
  <1>1. Alone /\ x.phase = "find"
    BY IsAlone DEF FindForLogout
  <1>2. x \in Request /\ x.call \in Call /\ x.call.kind = "logout"
    BY <1>1, Known DEF RightPhase
  <1>3. CASE ~ Stored(x.call.sid)
    <2>1. Goto(q, Answered(x, "cleared")) /\ "cleared" \in Answer
      BY <1>3 DEF FindForLogout, FindToRevoke, Answer
    <2>2. QED
      BY <1>1, <1>2, <1>3, <2>1, IsAnswered
  <1>4. CASE Stored(x.call.sid)
    <2>1. row.by \in Principal /\ "reserve" \in Phase
      BY <1>2, CallLemma DEF IInv, TypeInv, TypeOK, Session, Phase
    <2>2. RightPhase([x EXCEPT !.phase = "reserve", !.who = row.by])
      BY <1>2 DEF Request, RightPhase
    <2>3. Goto(q, [x EXCEPT !.phase = "reserve", !.who = row.by])
      BY <1>4 DEF FindForLogout, FindToRevoke
    <2>4. QED
      BY <1>1, <1>2, <2>1, <2>2, <2>3, Advances
  <1>5. QED
    BY <1>3, <1>4

LEMMA FindOperatorStep ==
    ASSUME IInv, NEW q \in Req, FindOperator(q)
    PROVE  IInv'
  <1> DEFINE x == req[q]
  <1>1. Alone /\ x.phase = "operator"
    BY IsAlone DEF FindOperator
  <1>2. x \in Request /\ x.call \in Call /\ x.call.kind = "reset"
    BY <1>1, Known DEF RightPhase
  <1>3. CASE x.call.target \in operators
    <2>1. Goto(q, Refused(x, "forbidden")) /\ "forbidden" \in Code
      BY <1>3 DEF FindOperator, Code
    <2>2. QED
      BY <1>1, <2>1, IsRefused
  <1>4. CASE x.call.target \notin operators
    <2>1. x.call.target \in Principal /\ "credential" \in Phase
      BY <1>2, CallLemma DEF Phase
    <2>2. RightPhase([x EXCEPT !.phase = "credential", !.who = x.call.target])
      BY <1>2 DEF Request, RightPhase
    <2>3. Goto(q, [x EXCEPT !.phase = "credential", !.who = x.call.target])
      BY <1>4 DEF FindOperator
    <2>4. QED
      BY <1>1, <1>2, <2>1, <2>2, <2>3, Advances
  <1>5. QED
    BY <1>3, <1>4

LEMMA FindCredentialStep ==
    ASSUME IInv, NEW q \in Req, FindCredential(q)
    PROVE  IInv'
  <1> DEFINE x == req[q]
  <1>1. Alone /\ x.phase = "credential"
    BY IsAlone DEF FindCredential
  <1>2. x \in Request /\ x.call.kind = "reset"
    BY <1>1, Known DEF RightPhase
  <1>3. CASE Goto(q, Refused(x, "not_found"))
    BY <1>1, <1>3, IsRefused DEF Code
  <1>4. CASE Goto(q, [x EXCEPT !.phase = "list"])
    <2>1. x.who \in Principal /\ "list" \in Phase
      BY <1>2 DEF Request, Phase
    <2>2. [x EXCEPT !.phase = "list"] = [x EXCEPT !.phase = "list", !.who = x.who]
      BY <1>2 DEF Request
    <2>3. RightPhase([x EXCEPT !.phase = "list", !.who = x.who])
      BY <1>2 DEF Request, RightPhase
    <2>4. QED
      BY <1>1, <1>2, <1>4, <2>1, <2>2, <2>3, Advances
  <1>5. QED
    BY <1>3, <1>4 DEF FindCredential

LEMMA ListLiveStep ==
    ASSUME IInv, NEW q \in Req, ListLive(q)
    PROVE  IInv'
  <1> DEFINE x == req[q]
             all == LiveAt(x.who, x.at)
  <1>1. Alone /\ x.phase = "list"
    BY IsAlone DEF ListLive
  <1>2. x \in Request /\ x.call.kind = "reset"
    BY <1>1, Known DEF RightPhase
  <1>3. PICK listed \in SUBSET all :
           Goto(q, [x EXCEPT !.phase = "reserve", !.set = listed,
                             !.known = Of(x.who), !.excused = all \ listed])
    BY DEF ListLive
  <1>4. all \subseteq Sid /\ Of(x.who) \subseteq Sid
    BY DEF LiveAt, Of
  <1>5. PICK y \in Request :
           y = [x EXCEPT !.phase = "reserve", !.set = listed,
                         !.known = Of(x.who), !.excused = all \ listed]
    BY <1>2, <1>3, <1>4 DEF Request, Phase
  <1>6. /\ y.phase = "reserve" /\ y.call = x.call /\ y.took = x.took
        /\ y.answer = x.answer /\ y.at = x.at /\ y.set = listed
        /\ y.known = Of(x.who) /\ y.excused = all \ listed
    BY <1>2, <1>5 DEF Request
  <1>7. Listed(y)
    <2> SUFFICES ASSUME NEW s \in Of(x.who)
                 PROVE  /\ sessions[s].state # "unopened"
                        /\ s \in all \/ sessions[s].expires <= x.at
      BY <1>6 DEF Listed
    <2>1. s \in Sid /\ sessions[s].state = "stored"
      BY DEF Of, Stored
    <2>2. sessions[s].expires \in Int /\ x.at \in Int
      BY <1>2, <2>1 DEF IInv, TypeInv, TypeOK, Session, Expiry, Request, Time
    <2>3. QED
      BY <2>1, <2>2 DEF LiveAt
  <1>8. req' = [req EXCEPT ![q] = y] /\ RightPhase(y) /\ ~ Going(y, y.who)
    BY <1>2, <1>3, <1>5, <1>6 DEF Goto, RightPhase, Going
  <1> HIDE DEF all
  <1>9. QED
    BY <1>1, <1>6, <1>7, <1>8, GoesOn

LEMMA ReserveStep ==
    ASSUME IInv, NEW q \in Req, Reserve(q)
    PROVE  IInv'
  <1> DEFINE x == req[q]
             z == [x EXCEPT !.phase = WritePhase(x), !.expires = ExpiryOf(x)]
  <1>1. Alone /\ x.phase = "reserve"
    BY IsAlone DEF Reserve
  <1>2. x \in Request /\ x.call.kind \in {"login", "select", "logout", "reset"}
    BY <1>1, Known DEF RightPhase
  <1>3. CASE Goto(q, Refused(x, "quota_exceeded"))
    BY <1>1, <1>3, IsRefused DEF Code
  <1>4. CASE Goto(q, z)
    <2>1. /\ WritePhase(x) \in {"insert", "update", "delete", "batch"}
          /\ WritePhase(x) = "insert" => x.call.kind = "login"
          /\ WritePhase(x) = "update" => x.call.kind = "select"
          /\ WritePhase(x) = "delete" => x.call.kind = "logout"
          /\ WritePhase(x) = "batch" => x.call.kind = "reset"
      BY <1>2 DEF WritePhase
    <2>2. ExpiryOf(x) \in Expiry
      BY SessionsAssumption DEF ExpiryOf, Expiry, IInv, TypeInv, TypeOK, Time
    <2>3. WritePhase(x) \in Phase
      BY <2>1 DEF Phase
    <2>4. PICK y \in Request : y = z
      BY <1>2, <2>2, <2>3 DEF Request
    <2>5. /\ y.phase = WritePhase(x) /\ y.call = x.call /\ y.took = x.took
          /\ y.answer = x.answer /\ y.at = x.at /\ y.set = x.set
          /\ y.known = x.known /\ y.excused = x.excused /\ y.who = x.who
      BY <1>2, <2>4 DEF Request
    <2>6. req' = [req EXCEPT ![q] = y] /\ RightPhase(y)
      BY <1>4, <2>1, <2>4, <2>5 DEF Goto, RightPhase
    <2>7. Going(y, y.who) => Going(x, y.who)
      BY <1>1, <2>5 DEF Going
    <2>8. y.call.kind = "reset" => Listed(y)
      BY <1>1, <2>5, Known DEF Sound, Listed
    <2> HIDE DEF z
    <2>9. y.phase \notin {"idle", "inform", "tell", "done"}
      BY <2>1, <2>5
    <2>10. QED
      BY <1>1, <2>5, <2>6, <2>7, <2>8, <2>9, GoesOn
  <1>5. QED
    BY <1>3, <1>4 DEF Reserve

LEMMA InformStep ==
    ASSUME IInv, NEW q \in Req, Inform(q)
    PROVE  IInv'
  <1> DEFINE x == req[q]
  <1>1. Alone /\ x.phase = "inform"
    BY IsAlone DEF Inform
  <1>2. x \in Request /\ x.call.kind = "reset" /\ Sound(q, x)
    BY <1>1, Known DEF RightPhase
  <1>3. CASE Goto(q, Answered(x, "reset"))
    BY <1>1, <1>3, IsAnswered DEF Answer
  <1>4. CASE Goto(q, [x EXCEPT !.phase = "tell", !.set = Enrolled(x.who)])
    <2>1. Enrolled(x.who) \subseteq Org
      BY DEF Enrolled
    <2>2. PICK y \in Request : y = [x EXCEPT !.phase = "tell", !.set = Enrolled(x.who)]
      BY <1>2, <2>1 DEF Request, Phase
    <2>3. /\ y.phase = "tell" /\ y.call = x.call /\ y.took = x.took
          /\ y.answer = x.answer /\ y.at = x.at /\ y.who = x.who
          /\ y.excused = x.excused /\ y.set = Enrolled(x.who)
      BY <1>2, <2>2 DEF Request
    <2>4. req' = [req EXCEPT ![q] = y] /\ RightPhase(y)
      BY <1>2, <1>4, <2>1, <2>2, <2>3 DEF Goto, RightPhase
    <2>5. Sound(q, y) /\ (Taken(y) => Taken(x))
      BY <1>1, <1>2, <2>3 DEF Sound, Taken
    <2>6. \A r \in Req \ {q} : Passes(q, y, r)
      BY <2>3 DEF Passes, Going
    <2>7. QED
      BY <1>1, <2>3, <2>4, <2>5, <2>6, Reads
  <1>5. QED
    BY <1>3, <1>4 DEF Inform

LEMMA TellStep ==
    ASSUME IInv, NEW q \in Req, Tell(q)
    PROVE  IInv'
  <1> DEFINE x == req[q]
  <1>1. PICK o \in x.set : /\ Goto(q, [x EXCEPT !.set = @ \ {o}])
                           /\ told' \in {told, told \cup {<<o, q>>}}
    BY DEF Tell
  <1>2. x.phase = "tell" /\ MissingNext /\ req[q] \in Request
    BY Known DEF Tell
  <1>3. x.call.kind = "reset" /\ x.set \subseteq Org /\ Sound(q, x)
    BY <1>2, Known DEF RightPhase
  <1>4. told' \subseteq Org \X Req
    BY <1>1, <1>3 DEF IInv, TypeInv, TypeOK
  <1>5. Alone
    BY <1>4 DEF Tell, Alone, IInv, TypeInv, TypeOK
  <1>6. PICK y \in Request : y = [x EXCEPT !.set = @ \ {o}]
    BY <1>2, <1>3 DEF Request
  <1>7. /\ y.phase = "tell" /\ y.call = x.call /\ y.took = x.took
        /\ y.answer = x.answer /\ y.at = x.at /\ y.who = x.who
        /\ y.excused = x.excused /\ y.set \subseteq Org
    BY <1>2, <1>3, <1>6 DEF Request
  <1>8. req' = [req EXCEPT ![q] = y] /\ RightPhase(y)
    BY <1>1, <1>3, <1>6, <1>7 DEF Goto, RightPhase
  <1>9. Sound(q, y) /\ (Taken(y) => Taken(x))
    BY <1>2, <1>3, <1>7 DEF Sound, Taken
  <1>10. \A r \in Req \ {q} : Passes(q, y, r)
    BY <1>7 DEF Passes, Going
  <1>11. QED
    BY <1>2, <1>5, <1>7, <1>8, <1>9, <1>10, Reads

LEMMA ResetDoneStep ==
    ASSUME IInv, NEW q \in Req, ResetDone(q)
    PROVE  IInv'
  <1>1. Alone
    BY IsAlone DEF ResetDone
  <1>2. QED
    BY <1>1, IsAnswered DEF ResetDone, Answer

LEMMA CallFailsStep ==
    ASSUME IInv, NEW q \in Req, CallFails(q)
    PROVE  IInv'
  <1>1. Alone
    BY IsAlone DEF CallFails
  <1>2. QED
    BY <1>1, IsRefused DEF CallFails, Code

-----------------------------------------------------------------------------
\* What is written.

LEMMA WriteType ==
    ASSUME IInv, NEW q \in Req, NEW y \in Request, RightPhase(y),
           req' = [req EXCEPT ![q] = y], MissingNext, faults' \in Nat,
           sessions' \in [Sid -> Session], keys' \in [Principal -> Seq(Key)],
           UNCHANGED <<clock, standing, told, changes>>
    PROVE  TypeInv'
  <1>1. /\ req' \in [Req -> Request] /\ missing' \in [Req -> SUBSET Fact]
        /\ \A p \in Req : RightPhase(req'[p])
    BY BecomesType DEF IInv
  <1>2. TypeOK'
    BY <1>1 DEF IInv, TypeInv, TypeOK, standing
  <1>3. QED
    BY <1>1, <1>2 DEF TypeInv

LEMMA WroteLemma ==
    ASSUME IInv, NEW q \in Req, NEW answer \in Answer, Wrote(q, answer)
    PROVE  \E y \in Request :
              /\ req' = [req EXCEPT ![q] = y] /\ RightPhase(y)
              /\ y.phase = "done" /\ y.call = req[q].call
              /\ \/ y.answer = answer
                 \/ y.answer = "cleared" => y.call.kind = "logout" /\ y.hindered
              /\ faults' \in Nat
  <1>1. PICK x \in Request : x = [req[q] EXCEPT !.took = TRUE]
    BY Known DEF Request
  <1>2. x.call = req[q].call
    BY <1>1, Known DEF Request
  <1>3. faults' \in Nat
    BY FaultType DEF Wrote, IInv
  <1>4. CASE Goto(q, Answered(x, answer))
    <2>1. PICK y \in Request : y = Answered(x, answer)
      BY AnsweredLemma
    <2>2. RightPhase(y) /\ y.phase = "done" /\ y.answer = answer /\ y.call = x.call
      BY <2>1, AnsweredLemma
    <2>3. req' = [req EXCEPT ![q] = y]
      BY <1>4, <2>1 DEF Goto
    <2>4. QED
      BY <1>2, <1>3, <2>2, <2>3
  <1>5. CASE Goto(q, Refused(x, "unavailable"))
    <2>1. PICK y \in Request : y = Refused(x, "unavailable")
      BY RefusedLemma DEF Code
    <2>2. /\ RightPhase(y) /\ y.phase = "done" /\ y.call = x.call
          /\ y.answer = "cleared" => y.call.kind = "logout" /\ y.hindered
      BY <2>1, RefusedLemma DEF Code
    <2>3. req' = [req EXCEPT ![q] = y]
      BY <1>5, <2>1 DEF Goto
    <2>4. QED
      BY <1>2, <1>3, <2>2, <2>3
  <1>6. QED
    BY <1>1, <1>4, <1>5 DEF Wrote

\* A request that is no reset has written.
LEMMA Writes ==
    ASSUME IInv, TypeInv', NEW q \in Req, NEW y \in Request,
           req' = [req EXCEPT ![q] = y], req[q].phase # "done", Evolves({q}),
           y.phase = "done", y.call = req[q].call, y.call.kind # "reset",
           y.answer = "cleared" => /\ y.call.kind = "logout"
                                   /\ y.hindered \/ ~ Stored(y.call.sid)',
           \A r \in Req \ {q} :
               (Taken(req[r]) /\ ~ Stored(q) /\ Stored(q)'
                  /\ sessions'[q].by = req[r].who) =>
                     \/ q \in req[r].excused
                     \/ Newer(req[r].who, r, sessions[q].key)'
    PROVE  IInv'
  <1>1. /\ req'[q] = y
        /\ \A l \in Req \ {q} : req'[l] = req[l] /\ req[l] \in Request
    BY DEF IInv, TypeInv, TypeOK
  <1>2. Sound(q, y)'
    <2>1. (y.call.kind = "logout" /\ y.call.sid \in Req) =>
             req'[y.call.sid].phase = "done"
      BY <1>1, Known DEF Sound
    <2>2. QED
      BY <2>1 DEF Sound, Taken, Stored
  <1>3. \A r \in Req \ {q} : Passes(q, y, r)'
    BY DEF Passes, Going
  <1>4. \A l \in Req \ {q} : Passes(l, req[l], q)'
    BY <1>1 DEF Passes, Taken
  <1>5. ~ Taken(y)
    BY DEF Taken
  <1>6. QED
    BY <1>2, <1>3, <1>4, <1>5, Becomes

LEMMA InsertStep ==
    ASSUME IInv, NEW q \in Req, Insert(q)
    PROVE  IInv'
  <1> DEFINE x == req[q]
             row == [state |-> "stored", by |-> x.who, org |-> "none",
                     expires |-> x.expires, key |-> x.call.key]
  <1>1. /\ x.phase = "insert" /\ Wrote(q, "issued") /\ MissingNext
        /\ sessions' = [sessions EXCEPT ![q] = row]
        /\ UNCHANGED <<clock, keys, standing, told, changes>>
    BY DEF Insert
  <1>2. x \in Request /\ x.call \in Call /\ x.call.kind = "login"
    BY <1>1, Known DEF RightPhase
  <1>3. PICK y \in Request :
           /\ req' = [req EXCEPT ![q] = y] /\ RightPhase(y)
           /\ y.phase = "done" /\ y.call = x.call
           /\ \/ y.answer = "issued"
              \/ y.answer = "cleared" => y.call.kind = "logout" /\ y.hindered
           /\ faults' \in Nat
    BY <1>1, WroteLemma DEF Answer
  <1>4. row \in Session
    BY <1>2, CallLemma DEF Session, Request
  <1>5. sessions \in [Sid -> Session] /\ q \in Sid
    BY DEF IInv, TypeInv, TypeOK, Sid
  <1>6. TypeInv'
    <2>1. sessions' \in [Sid -> Session]
      BY <1>1, <1>4, <1>5
    <2>2. keys' \in [Principal -> Seq(Key)]
      BY <1>1 DEF IInv, TypeInv, TypeOK
    <2>3. QED
      BY <1>1, <1>3, <2>1, <2>2, WriteType
  <1>7. sessions[q].state = "unopened"
    BY <1>1 DEF IInv, OpenedWhenDone
  <1>8. Evolves({q})
    <2>1. \A s \in Sid \ {q} : sessions'[s] = sessions[s]
      BY <1>1, <1>5
    <2>2. UNCHANGED <<clock, keys>> /\ clock \in Time
      BY <1>1 DEF IInv, TypeInv, TypeOK
    <2> HIDE DEF row
    <2>3. QED
      BY <1>7, <2>1, <2>2 DEF Evolves, Time
  <1>9. sessions'[q].by = x.who /\ sessions'[q].key = x.call.key
    BY <1>1, <1>5
  <1>10. ASSUME NEW r \in Req \ {q}, Taken(req[r]), sessions'[q].by = req[r].who
         PROVE  \/ q \in req[r].excused
                \/ Newer(req[r].who, r, sessions[q].key)'
    <2>1. Passes(q, x, r) /\ Going(x, req[r].who)
      BY <1>1, <1>2, <1>9, <1>10 DEF IInv, OnTheWay, Going
    <2>2. q \in req[r].excused \/ Newer(req[r].who, r, x.call.key)
      BY <1>10, <2>1 DEF Passes
    <2>3. req'[r] = req[r]
      BY <1>3 DEF IInv, TypeInv, TypeOK
    <2>4. QED
      BY <1>1, <1>9, <2>2, <2>3 DEF Newer
  <1>11. y.answer = "cleared" => y.call.kind = "logout" /\ y.hindered
    BY <1>3
  <1> HIDE DEF row
  <1>12. QED
    BY <1>1, <1>2, <1>3, <1>6, <1>8, <1>10, <1>11, Writes

LEMMA UpdateStep ==
    ASSUME IInv, NEW q \in Req, Update(q)
    PROVE  IInv'
  <1> DEFINE x == req[q]
             sid == x.call.sid
  <1>1. /\ x.phase = "update" /\ Wrote(q, "selected") /\ MissingNext
        /\ sessions' = [sessions EXCEPT ![sid] = Updated(@, x.org)]
        /\ UNCHANGED <<clock, keys, standing, told, changes>>
    BY DEF Update
  <1>2. x \in Request /\ x.call \in Call /\ x.call.kind = "select"
    BY <1>1, Known DEF RightPhase
  <1>3. PICK y \in Request :
           /\ req' = [req EXCEPT ![q] = y] /\ RightPhase(y)
           /\ y.phase = "done" /\ y.call = x.call
           /\ \/ y.answer = "selected"
              \/ y.answer = "cleared" => y.call.kind = "logout" /\ y.hindered
           /\ faults' \in Nat
    BY <1>1, WroteLemma DEF Answer
  <1>4. sid \in Sid /\ sessions \in [Sid -> Session]
    BY <1>2, CallLemma DEF IInv, TypeInv, TypeOK
  <1>5. PICK row \in Session : row = sessions[sid]
    BY <1>4
  <1>6. /\ Updated(row, x.org) \in Session
        /\ Updated(row, x.org).state = row.state /\ Updated(row, x.org).by = row.by
        /\ Updated(row, x.org).expires = row.expires
        /\ Updated(row, x.org).key = row.key
    BY <1>2 DEF Updated, Session, Request
  <1>7. /\ sessions' \in [Sid -> Session]
        /\ sessions'[sid] = Updated(row, x.org)
        /\ \A s \in Sid \ {sid} : sessions'[s] = sessions[s]
    BY <1>1, <1>4, <1>5, <1>6
  <1>8. TypeInv'
    <2>1. keys' \in [Principal -> Seq(Key)]
      BY <1>1 DEF IInv, TypeInv, TypeOK
    <2>2. QED
      BY <1>1, <1>3, <1>7, <2>1, WriteType
  <1>9. \A s \in Sid : /\ sessions'[s].state = sessions[s].state
                       /\ sessions'[s].by = sessions[s].by
                       /\ sessions'[s].expires = sessions[s].expires
                       /\ sessions'[s].key = sessions[s].key
    BY <1>5, <1>6, <1>7
  <1>10. Evolves({q})
    <2>1. UNCHANGED <<clock, keys>> /\ clock \in Time
      BY <1>1 DEF IInv, TypeInv, TypeOK
    <2>2. QED
      BY <1>9, <2>1 DEF Evolves, Time
  <1>11. Stored(q)' => Stored(q)
    BY <1>9 DEF Stored, Sid
  <1>12. y.answer = "cleared" => y.call.kind = "logout" /\ y.hindered
    BY <1>3
  <1>13. QED
    BY <1>1, <1>2, <1>3, <1>8, <1>10, <1>11, <1>12, Writes

\* Deleting rows ends them and leaves the others.
LEMMA DeletedLemma ==
    ASSUME IInv, NEW gone, sessions' = Deleted(gone)
    PROVE  /\ sessions' \in [Sid -> Session]
           /\ \A s \in Sid : /\ s \notin gone => sessions'[s] = sessions[s]
                             /\ s \in gone => ~ Stored(s)'
                             /\ ~ Stored(s) => sessions'[s] = sessions[s]
                             /\ sessions[s].state # "unopened" =>
                                   sessions'[s].state # "unopened"
                             /\ sessions'[s].by = sessions[s].by
                             /\ sessions'[s].expires = sessions[s].expires
                             /\ sessions'[s].key = sessions[s].key
                             /\ Stored(s)' => Stored(s)
  <1>1. sessions \in [Sid -> Session]
    BY DEF IInv, TypeInv, TypeOK
  <1>2. ASSUME NEW s \in Sid, s \in gone, Stored(s)
        PROVE  /\ sessions'[s] \in Session /\ sessions'[s].state = "ended"
               /\ sessions'[s].by = sessions[s].by
               /\ sessions'[s].expires = sessions[s].expires
               /\ sessions'[s].key = sessions[s].key
    <2>1. PICK row \in Session : row = sessions[s]
      BY <1>1
    <2>2. sessions'[s] = [row EXCEPT !.state = "ended"]
      BY <1>2, <2>1 DEF Deleted
    <2>3. QED
      BY <2>1, <2>2 DEF Session
  <1>3. ASSUME NEW s \in Sid, ~ (s \in gone /\ Stored(s))
        PROVE  sessions'[s] = sessions[s]
    BY <1>3 DEF Deleted
  <1>4. \A s \in Sid : sessions'[s] \in Session
    BY <1>1, <1>2, <1>3
  <1>5. sessions' \in [Sid -> Session]
    BY <1>4 DEF Deleted
  <1>6. QED
    BY <1>2, <1>3, <1>5 DEF Stored

LEMMA DeletedEvolves ==
    ASSUME IInv, NEW gone, NEW busy, sessions' = Deleted(gone), UNCHANGED clock,
           \A p \in Principal : \A i \in DOMAIN keys[p] :
              i \in DOMAIN keys'[p] /\ keys'[p][i] = keys[p][i]
    PROVE  Evolves(busy)
  <1>1. clock \in Time
    BY DEF IInv, TypeInv, TypeOK
  <1>2. clock <= clock' /\ clock' \in Time
    BY <1>1 DEF Time
  <1>3. QED
    BY <1>2, DeletedLemma DEF Evolves, Stored

LEMMA DeleteStep ==
    ASSUME IInv, NEW q \in Req, Delete(q)
    PROVE  IInv'
  <1> DEFINE x == req[q]
  <1>1. /\ x.phase = "delete" /\ Wrote(q, "cleared") /\ MissingNext
        /\ sessions' = Deleted({x.call.sid})
        /\ UNCHANGED <<clock, keys, standing, told, changes>>
    BY DEF Delete
  <1>2. x \in Request /\ x.call \in Call /\ x.call.kind = "logout"
    BY <1>1, Known DEF RightPhase
  <1>3. PICK y \in Request :
           /\ req' = [req EXCEPT ![q] = y] /\ RightPhase(y)
           /\ y.phase = "done" /\ y.call = x.call
           /\ faults' \in Nat
    BY <1>1, WroteLemma DEF Answer
  <1>4. TypeInv'
    <2>1. keys' \in [Principal -> Seq(Key)] /\ sessions' \in [Sid -> Session]
      BY <1>1, DeletedLemma DEF IInv, TypeInv, TypeOK
    <2>2. QED
      BY <1>1, <1>3, <2>1, WriteType
  <1>5. Evolves({q})
    BY <1>1, DeletedEvolves
  <1>6. PICK sid \in Sid : sid = x.call.sid
    BY <1>2, CallLemma
  <1>7. ~ Stored(y.call.sid)' /\ (Stored(q)' => Stored(q))
    <2>1. sessions' = Deleted({sid}) /\ q \in Sid
      BY <1>1, <1>6 DEF Sid
    <2>2. ~ Stored(sid)' /\ (Stored(q)' => Stored(q))
      BY <2>1, DeletedLemma
    <2>3. QED
      BY <1>3, <1>6, <2>2
  <1>8. QED
    BY <1>1, <1>2, <1>3, <1>4, <1>5, <1>7, Writes

LEMMA ReplaceStep ==
    ASSUME IInv, NEW q \in Req, Replace(q)
    PROVE  IInv'
  <1> DEFINE x == req[q]
             late == Of(x.who) \ x.known
             excused == x.excused \cup Verified(x.who) \cup late
             batch == [x EXCEPT !.took = TRUE, !.known = {}, !.excused = excused]
  <1>1. /\ x.phase = "batch" /\ MissingNext
        /\ sessions' = Deleted(x.set)
        /\ keys' = [keys EXCEPT ![x.who] = Append(@, q)]
        /\ \/ Goto(q, [batch EXCEPT !.phase = "inform", !.set = {}])
              /\ UNCHANGED faults
           \/ Goto(q, Refused(batch, "unavailable")) /\ Fault
        /\ UNCHANGED <<clock, standing, told, changes>>
    BY DEF Replace, ResetDeletes
  <1>2. x \in Request /\ x.call.kind = "reset" /\ x.answer = "none"
    BY <1>1, Known DEF RightPhase
  <1>3. excused \subseteq Sid
    BY <1>2 DEF Verified, Of, Sid, Request
  <1>4. PICK z \in Request : z = batch
    BY <1>2, <1>3 DEF Request
  <1>5. /\ z.call = x.call /\ z.who = x.who /\ z.took /\ z.excused = excused
        /\ z.answer = "none"
    BY <1>2, <1>4 DEF Request
  <1>6. PICK p \in Principal : p = x.who
    BY <1>2 DEF Request
  <1> HIDE DEF batch, excused, late
  <1>7. \E y \in Request :
           /\ req' = [req EXCEPT ![q] = y] /\ RightPhase(y)
           /\ y.call = x.call /\ y.who = p /\ y.took /\ y.excused = excused
           /\ y.phase \in {"inform", "done"}
           /\ y.answer # "none" => y.phase = "done"
           /\ y.answer # "cleared"
    <2>1. CASE Goto(q, [z EXCEPT !.phase = "inform", !.set = {}])
      <3>1. PICK y \in Request : y = [z EXCEPT !.phase = "inform", !.set = {}]
        BY DEF Request, Phase
      <3>2. /\ y.phase = "inform" /\ y.call = z.call /\ y.who = z.who
            /\ y.took = z.took /\ y.excused = z.excused /\ y.answer = z.answer
        BY <3>1 DEF Request
      <3>3. RightPhase(y)
        BY <1>2, <1>5, <3>2 DEF RightPhase
      <3>4. req' = [req EXCEPT ![q] = y]
        BY <2>1, <3>1 DEF Goto
      <3>5. QED
        BY <1>5, <1>6, <3>2, <3>3, <3>4
    <2>2. CASE Goto(q, Refused(z, "unavailable"))
      <3>1. PICK y \in Request : y = Refused(z, "unavailable")
        BY RefusedLemma DEF Code
      <3>2. /\ RightPhase(y) /\ y.phase = "done" /\ y.call = z.call /\ y.who = z.who
            /\ y.took = z.took /\ y.excused = z.excused
            /\ y.answer = "cleared" => y.call.kind = "logout"
        BY <3>1, RefusedLemma DEF Code
      <3>3. req' = [req EXCEPT ![q] = y]
        BY <2>2, <3>1 DEF Goto
      <3>4. QED
        BY <1>2, <1>5, <1>6, <3>2, <3>3
    <2>3. QED
      BY <1>1, <1>4, <2>1, <2>2
  <1>8. PICK y \in Request :
           /\ req' = [req EXCEPT ![q] = y] /\ RightPhase(y)
           /\ y.call = x.call /\ y.who = p /\ y.took /\ y.excused = excused
           /\ y.phase \in {"inform", "done"}
           /\ y.answer # "none" => y.phase = "done"
           /\ y.answer # "cleared"
    BY <1>7
  <1>9. keys \in [Principal -> Seq(Key)] /\ q \in Key
    BY DEF IInv, TypeInv, TypeOK, Key
  <1>10. PICK given \in Seq(Key) : given = keys[p]
    BY <1>9
  <1>11. /\ keys' \in [Principal -> Seq(Key)]
         /\ keys'[p] = Append(given, q)
         /\ \A r \in Principal \ {p} : keys'[r] = keys[r]
    <2>1. Append(given, q) \in Seq(Key)
      BY <1>9
    <2>2. keys' = [keys EXCEPT ![p] = Append(given, q)]
      BY <1>1, <1>6, <1>10
    <2>3. QED
      BY <1>9, <2>1, <2>2
  <1>12. /\ Len(given) \in Nat
         /\ DOMAIN given = 1 .. Len(given)
         /\ DOMAIN Append(given, q) = 1 .. (Len(given) + 1)
         /\ \A i \in 1 .. Len(given) : Append(given, q)[i] = given[i]
         /\ Append(given, q)[Len(given) + 1] = q
    BY <1>9
  <1>13. Evolves({q})
    <2>1. ASSUME NEW r \in Principal, NEW i \in DOMAIN keys[r]
          PROVE  i \in DOMAIN keys'[r] /\ keys'[r][i] = keys[r][i]
      <3>1. CASE r = p
        BY <1>10, <1>11, <1>12, <3>1
      <3>2. CASE r # p
        BY <1>11, <3>2
      <3>3. QED
        BY <3>1, <3>2
    <2>2. QED
      BY <1>1, <2>1, DeletedEvolves
  <1>14. TypeInv'
    <2>1. sessions' \in [Sid -> Session] /\ faults' \in Nat
      BY <1>1, DeletedLemma, FaultType DEF IInv
    <2>2. QED
      BY <1>1, <1>8, <1>11, <2>1, WriteType
  <1>15. Sound(q, y)'
    <2>1. \E i \in DOMAIN keys'[p] : keys'[p][i] = q
      BY <1>11, <1>12
    <2>2. QED
      BY <1>2, <1>8, <2>1 DEF Sound, Taken
  <1>16. \A r \in Req \ {q} : Passes(q, y, r)'
    BY <1>2, <1>8 DEF Passes, Going
  <1>17. ASSUME NEW l \in Req \ {q} PROVE Passes(l, req[l], q)'
    <2>1. req'[l] = req[l] /\ req'[q] = y
      BY <1>8 DEF IInv, TypeInv, TypeOK
    <2>2. Going(req[l], p) => l \in excused
      BY <1>6 DEF excused, Verified, Going
    <2>3. QED
      BY <1>8, <2>1, <2>2 DEF Passes, Going
  <1>18. ASSUME NEW s \in Of(p)'
         PROVE  ~ Live(s)' \/ s \in y.excused
    <2>1. s \in Sid /\ Stored(s)' /\ sessions'[s].by = p
      BY DEF Of
    <2>2. /\ Stored(s) /\ s \notin x.set
          /\ sessions'[s].by = sessions[s].by
          /\ sessions'[s].expires = sessions[s].expires
      BY <1>1, <2>1, DeletedLemma
    <2>3. CASE s \notin x.known
      BY <1>6, <1>8, <2>1, <2>2, <2>3 DEF excused, late, Of
    <2>4. CASE s \in x.known
      <3>1. Listed(x) /\ x.at <= clock
        BY <1>1, <1>2, Known DEF Sound
      <3>2. s \in x.excused \/ sessions[s].expires <= x.at
        BY <2>2, <2>4, <3>1 DEF Listed
      <3>3. /\ sessions[s].expires \in Int /\ x.at \in Int /\ clock \in Int
            /\ clock' = clock
        BY <1>1, <1>2, <2>1
           DEF IInv, TypeInv, TypeOK, Session, Expiry, Request, Time
      <3>4. s \in x.excused \/ ~ Live(s)'
        BY <2>2, <3>1, <3>2, <3>3 DEF Live
      <3>5. QED
        BY <1>8, <3>4 DEF excused
    <2>5. QED
      BY <2>3, <2>4
  <1>19. sessions'[q].state = "unopened" /\ (Stored(q)' => Stored(q))
    <2>1. q \in Sid /\ sessions[q].state = "unopened"
      BY <1>1 DEF Sid, IInv, OpenedWhenDone
    <2>2. QED
      BY <1>1, <2>1, DeletedLemma DEF Stored
  <1>20. QED
    BY <1>1, <1>8, <1>13, <1>14, <1>15, <1>16, <1>17, <1>18, <1>19, Becomes

-----------------------------------------------------------------------------
\* What others change, and the clock.

LEMMA OthersStep ==
    ASSUME IInv, Tick \/ Administer
    PROVE  IInv'
  <1>1. /\ UNCHANGED <<sessions, keys, req>> /\ MissingNext
        /\ clock <= clock' /\ clock' \in Time
    BY SessionsAssumption DEF Tick, Administer, IInv, TypeInv, TypeOK, Time
  <1>2. /\ missing' \in [Req -> SUBSET Fact]
        /\ \A p \in Req : req'[p] \in Request /\ RightPhase(req'[p])
    <2>1. ASSUME NEW q \in Req PROVE missing' \in [Req -> SUBSET Fact]
      <3>1. req' = [req EXCEPT ![q] = req[q]]
        BY <1>1 DEF IInv, TypeInv, TypeOK
      <3>2. PICK y \in Request : y = req[q]
        BY Known
      <3>3. RightPhase(y) /\ req' = [req EXCEPT ![q] = y]
        BY <3>1, <3>2, Known
      <3>4. QED
        BY <1>1, <3>3, BecomesType DEF IInv
    <2>2. Req = {} => missing' \in [Req -> SUBSET Fact]
      BY <1>1 DEF MissingNext
    <2>3. QED
      BY <1>1, <2>1, <2>2 DEF IInv, TypeInv, TypeOK
  <1>3. /\ principals' \subseteq Principal /\ operators' \subseteq Principal
        /\ members' \in [Principal -> [Org -> MembershipStatus]]
        /\ organizations' \subseteq Org
        /\ changes' \in Nat /\ UNCHANGED <<told, faults>>
    <2>1. CASE Tick
      BY <2>1 DEF Tick, standing, IInv, TypeInv, TypeOK
    <2>2. CASE Administer
      <3>1. /\ principals' \subseteq Principal /\ operators' \subseteq Principal
            /\ organizations' \subseteq Org
        BY <2>2 DEF Administer, Toggle, IInv, TypeInv, TypeOK
      <3>2. members' \in [Principal -> [Org -> MembershipStatus]]
        <4>1. members \in [Principal -> [Org -> MembershipStatus]]
          BY DEF IInv, TypeInv, TypeOK
        <4>2. ASSUME NEW p \in Principal, NEW o \in Org, NEW status \in MembershipStatus,
                     members' = [members EXCEPT ![p][o] = status]
              PROVE  members' \in [Principal -> [Org -> MembershipStatus]]
          <5>1. [members[p] EXCEPT ![o] = status] \in [Org -> MembershipStatus]
            BY <4>1
          <5>2. members' = [members EXCEPT ![p] = [members[p] EXCEPT ![o] = status]]
            BY <4>2
          <5>3. QED
            BY <4>1, <5>1, <5>2
        <4>3. QED
          BY <2>2, <4>1, <4>2 DEF Administer
      <3>3. changes' \in Nat /\ UNCHANGED <<told, faults>>
        BY <2>2 DEF Administer, IInv, TypeInv, TypeOK
      <3>4. QED
        BY <3>1, <3>2, <3>3
    <2>3. QED
      BY <2>1, <2>2
  <1>4. TypeInv'
    BY <1>1, <1>2, <1>3 DEF IInv, TypeInv, TypeOK
  <1>5. Evolves({})
    BY <1>1, StillEvolves DEF IInv
  <1>6. EachSound'
    <2> SUFFICES ASSUME NEW q \in Req PROVE Sound(q, req[q])'
      BY DEF EachSound
    <2>1. PICK x \in Request : x = req[q]
      BY Known
    <2>2. Sound(q, x) /\ req'[q] = x
      BY <1>1, <2>1, Known
    <2>3. Sound(q, x)'
      BY <1>1, <1>5, <2>2, SoundStays
    <2>4. QED
      BY <2>2, <2>3 DEF Sound
  <1>7. OnTheWay'
    BY <1>1 DEF IInv, OnTheWay, Passes, Newer
  <1>8. OpenedWhenDone'
    BY <1>1 DEF IInv, OpenedWhenDone
  <1>9. ResetEndsOldKeys'
    <2> SUFFICES ASSUME NEW q \in Req, Taken(req[q]), NEW s \in Of(req[q].who)
                 PROVE  \/ ~ Live(s)'
                        \/ s \in req[q].excused
                        \/ Newer(req[q].who, q, sessions[s].key)
      BY <1>1 DEF ResetEndsOldKeys, Taken, Kind, Newer, Of, Stored
    <2>1. PICK p \in Principal : p = req[q].who
      BY Known DEF Request
    <2>2. s \in Sid /\ Stored(s) /\ Stored(s)' /\ sessions'[s].by = p
      BY <1>1, <2>1 DEF Of, Stored
    <2>3. ~ Live(s)' \/ s \in req[q].excused \/ Newer(p, q, sessions[s].key)'
      BY <1>5, <2>1, <2>2, EndedStays
    <2>4. QED
      BY <1>1, <2>1, <2>3 DEF Newer
  <1>10. QED
    BY <1>4, <1>6, <1>7, <1>8, <1>9 DEF IInv

LEMMA StutterStep ==
    ASSUME IInv, UNCHANGED vars
    PROVE  IInv'
  BY DEF vars, standing, IInv, TypeInv, TypeOK, EachSound, Sound, Listed, Stored,
         OnTheWay, Passes, Newer, OpenedWhenDone, ResetEndsOldKeys, Kind, Of, Live

LEMMA InitIInv == Init => IInv
  <1> SUFFICES ASSUME Init PROVE IInv
    OBVIOUS
  <1>1. TypeInv
    <2>1. \A q \in Req : req[q] = Idle
      BY DEF Init
    <2>2. <<"first">> \in Seq(Key)
      BY DEF Key
    <2>3. TypeOK
      BY <2>2, IdleType, SessionsAssumption DEF Init, TypeOK, Time
    <2>4. QED
      BY <2>1, <2>3, IdleType DEF TypeInv
  <1>2. \A q \in Req : /\ req[q].phase = "idle" /\ req[q].call.kind = "none"
                       /\ req[q].answer = "none"
    BY DEF Init, Idle
  <1>3. EachSound
    BY <1>2 DEF EachSound, Sound, Taken
  <1>4. OnTheWay
    BY <1>2 DEF OnTheWay, Passes, Taken
  <1>5. OpenedWhenDone
    BY SessionsAssumption DEF Init, OpenedWhenDone, Sid
  <1>6. ResetEndsOldKeys
    BY <1>2 DEF ResetEndsOldKeys, Kind
  <1>7. QED
    BY <1>1, <1>3, <1>4, <1>5, <1>6 DEF IInv

LEMMA Invariance == Spec => []IInv
  <1>1. IInv /\ [Next]_vars => IInv'
    <2> SUFFICES ASSUME IInv, [Next]_vars PROVE IInv'
      OBVIOUS
    <2>1. ASSUME NEW q \in Req, Step(q) PROVE IInv'
      BY <2>1, AskStep, VerifyStep, FindSessionStep, FindPrincipalStep,
         FindMembershipStep, FindOrganizationStep, ListEnterableStep,
         FindForLogoutStep, FindOperatorStep, FindCredentialStep, ListLiveStep,
         ReserveStep, InsertStep, UpdateStep, DeleteStep, ReplaceStep, InformStep,
         TellStep, ResetDoneStep, CallFailsStep
         DEF Step
    <2>2. QED
      BY <2>1, OthersStep, StutterStep DEF Next
  <1>2. QED
    BY <1>1, InitIInv, PTL DEF Spec

-----------------------------------------------------------------------------
\* Every variable keeps its type, whatever is asked and whatever fails.
THEOREM SessionsTypeCorrect == Spec => []TypeOK
  <1>1. IInv => TypeOK
    BY DEF IInv, TypeInv
  <1>2. QED
    BY <1>1, Invariance, PTL

\* A reset ends every session of its target but those beyond the cap of its
\* listing and those whose login overlapped it; and the key that was replaced
\* opens no other (reset, listLiveSessionIds, resetCredential).
THEOREM OldKeysEnd == Spec => []ResetEndsOldKeys
  <1>1. IInv => ResetEndsOldKeys
    BY DEF IInv
  <1>2. QED
    BY <1>1, Invariance, PTL

\* A session that was logged out, its logout not hindered, is stored no more
\* and never again (revokeSession, setSessionActiveOrganization).
THEOREM LogoutIsFinal == Spec => []LogoutEnds
  <1>1. IInv => LogoutEnds
    BY DEF IInv, EachSound, Sound, LogoutEnds
  <1>2. QED
    BY <1>1, Invariance, PTL

-----------------------------------------------------------------------------
(* The session table keeps the promise of SessionLives.                     *)

\* What a request in state x carries to its statement: an expiry no later than
\* a lifetime from now, the Organization it asked for, sessions of its target.
Carries(x) ==
    /\ x.phase = "insert" => x.expires <= clock + Lifetime
    /\ (x.call.kind = "select"
          /\ x.phase \in {"principal", "membership", "organization", "reserve", "update"})
       => x.org = x.call.org
    /\ (x.call.kind = "reset" /\ x.phase \in {"reserve", "batch"}) =>
          \A s \in x.set : /\ s \in Sid /\ sessions[s].state # "unopened"
                           /\ sessions[s].by = x.who

EachCarries == \A q \in Req : Carries(req[q])

\* No row that was opened is opened again, or given to somebody else.
LEMMA OpenedStays ==
    ASSUME IInv, [Next]_vars
    PROVE  /\ clock' \in Nat /\ clock \in Nat /\ clock <= clock'
           /\ \A s \in Sid : sessions[s].state # "unopened" =>
                 sessions'[s].state # "unopened" /\ sessions'[s].by = sessions[s].by
           /\ \/ Tick
              \/ clock' = clock /\ UNCHANGED sessions
              \/ clock' = clock /\ \E q \in Req : Insert(q) \/ Update(q) \/ Delete(q) \/ Replace(q)
  <1>1. /\ clock \in Time /\ Time \subseteq Nat /\ sessions \in [Sid -> Session]
        /\ Req \subseteq Sid
    BY SessionsAssumption DEF IInv, TypeInv, TypeOK, Time, Sid
  <1>2. \/ Tick
        \/ clock' = clock /\ UNCHANGED sessions
        \/ \E q \in Req : Insert(q) \/ Update(q) \/ Delete(q) \/ Replace(q)
    <2>1. ASSUME NEW q \in Req, Step(q)
          PROVE  \/ clock' = clock /\ UNCHANGED sessions
                 \/ Insert(q) \/ Update(q) \/ Delete(q) \/ Replace(q)
      BY <2>1 DEF Step, Ask, Verify, FindSession, FindPrincipal, FindMembership,
         FindOrganization, ListEnterable, FindForLogout, FindOperator, FindCredential,
         ListLive, Reserve, Inform, Tell, ResetDone, CallFails
    <2>2. QED
      BY <2>1 DEF Next, Administer, vars
  <1>3. ASSUME NEW q \in Req, Insert(q) \/ Update(q) \/ Delete(q) \/ Replace(q)
        PROVE  clock' = clock
    BY <1>3 DEF Insert, Update, Delete, Replace
  <1>4. clock' \in Nat /\ clock <= clock'
    BY <1>1, <1>2, <1>3 DEF Tick
  <1>5. ASSUME NEW s \in Sid, sessions[s].state # "unopened"
        PROVE  sessions'[s].state # "unopened" /\ sessions'[s].by = sessions[s].by
    <2>1. CASE UNCHANGED sessions
      BY <1>5, <2>1
    <2>2. ASSUME NEW q \in Req, Insert(q) PROVE sessions'[s] = sessions[s]
      <3>1. sessions[q].state = "unopened"
        BY <2>2 DEF Insert, IInv, OpenedWhenDone
      <3>2. PICK row : sessions' = [sessions EXCEPT ![q] = row]
        BY <2>2 DEF Insert
      <3>3. QED
        BY <1>1, <1>5, <3>1, <3>2
    <2>3. ASSUME NEW q \in Req, Update(q)
          PROVE  sessions'[s].state = sessions[s].state /\ sessions'[s].by = sessions[s].by
      <3>1. PICK row \in Session : row = sessions[s]
        BY <1>1
      <3>2. PICK o, t : sessions' = [sessions EXCEPT ![t] = Updated(sessions[t], o)]
        BY <2>3 DEF Update
      <3>3. Updated(row, o).state = row.state /\ Updated(row, o).by = row.by
        BY DEF Updated, Session
      <3>4. QED
        BY <1>1, <3>1, <3>2, <3>3
    <2>4. ASSUME NEW q \in Req, Delete(q) \/ Replace(q)
          PROVE  sessions'[s].state # "unopened" /\ sessions'[s].by = sessions[s].by
      <3>1. PICK gone : sessions' = Deleted(gone)
        BY <2>4 DEF Delete, Replace
      <3>2. QED
        BY <1>5, <3>1, DeletedLemma
    <2>5. QED
      BY <1>2, <1>5, <2>1, <2>2, <2>3, <2>4 DEF Tick
  <1>6. QED
    BY <1>1, <1>2, <1>3, <1>4, <1>5

\* What is carried stays good while others move.
LEMMA CarriedStays ==
    ASSUME IInv, [Next]_vars, NEW x \in Request, Carries(x)
    PROVE  Carries(x)'
  <1>1. /\ clock' \in Nat /\ clock \in Nat /\ clock <= clock'
        /\ \A s \in Sid : sessions[s].state # "unopened" =>
              sessions'[s].state # "unopened" /\ sessions'[s].by = sessions[s].by
    BY OpenedStays
  <1>2. x.expires \in Nat /\ Lifetime \in Nat
    BY SessionsAssumption DEF Request, Expiry
  <1>3. x.phase = "insert" => x.expires <= clock' + Lifetime
    BY <1>1, <1>2 DEF Carries
  <1>4. QED
    BY <1>1, <1>3 DEF Carries

\* A request that is answered, or stands where it carries nothing.
LEMMA CarriesNothing ==
    ASSUME NEW x, x.phase \notin {"principal", "membership", "organization", "reserve",
                                  "insert", "update", "batch"}
    PROVE  Carries(x)
  BY DEF Carries

\* What request q becomes by its own step.
LEMMA CarriesOwn ==
    ASSUME IInv, EachCarries, NEW q \in Req, Step(q)
    PROVE  \E y : req' = [req EXCEPT ![q] = y] /\ Carries(y)
  <1> DEFINE x == req[q]
  <1>1. x \in Request /\ RightPhase(x) /\ Carries(x)
    BY Known DEF EachCarries
  <1>2. PICK r \in Request : r = x /\ RightPhase(r) /\ Carries(r)
    BY <1>1
  <1>3. ASSUME NEW z \in Request, NEW code \in Code, Goto(q, Refused(z, code))
        PROVE  \E y : req' = [req EXCEPT ![q] = y] /\ Carries(y)
    <2>1. Refused(z, code).phase = "done"
      BY RefusedLemma
    <2>2. Carries(Refused(z, code))
      BY <2>1, CarriesNothing
    <2>3. QED
      BY <1>3, <2>2 DEF Goto
  <1>4. ASSUME NEW z \in Request, NEW answer \in Answer, Goto(q, Answered(z, answer))
        PROVE  \E y : req' = [req EXCEPT ![q] = y] /\ Carries(y)
    <2>1. Answered(z, answer).phase = "done"
      BY AnsweredLemma
    <2>2. Carries(Answered(z, answer))
      BY <2>1, CarriesNothing
    <2>3. QED
      BY <1>4, <2>2 DEF Goto
  <1>5. ASSUME NEW y \in Request, Goto(q, y), Carries(y)
        PROVE  \E z : req' = [req EXCEPT ![q] = z] /\ Carries(z)
    BY <1>5 DEF Goto
  <1>6. CASE Ask(q)
    <2>1. PICK c \in Call, at \in {clock, 0} : Goto(q, [Idle EXCEPT !.phase = EntryPhase[c.kind],
                                           !.call = c, !.at = at])
      BY <1>6, SessionsAssumption DEF Ask
    <2>2. PICK phase : phase = EntryPhase[c.kind]
      OBVIOUS
    <2>3. phase \in {"verify", "session", "find", "operator"}
      BY <2>2, CallLemma DEF EntryPhase
    <2>4. PICK y : y = [Idle EXCEPT !.phase = phase, !.call = c, !.at = at]
      OBVIOUS
    <2>5. y.phase = phase
      BY <2>4, IdleType DEF Request
    <2>6. Carries(y)
      BY <2>3, <2>5, CarriesNothing
    <2>7. QED
      BY <2>1, <2>2, <2>4, <2>6 DEF Goto
  <1>7. ASSUME NEW phase, NEW who,
               Goto(q, [r EXCEPT !.phase = phase, !.who = who]),
               r.call.kind # "reset", phase # "insert",
               phase \in {"principal", "membership", "organization", "reserve",
                          "update"} => (r.call.kind = "select" => r.org = r.call.org)
        PROVE  \E y : req' = [req EXCEPT ![q] = y] /\ Carries(y)
    <2>1. PICK y : y = [r EXCEPT !.phase = phase, !.who = who]
      OBVIOUS
    <2>2. y.phase = phase /\ y.call = r.call /\ y.org = r.org
      BY <2>1 DEF Request
    <2>3. Carries(y)
      BY <1>7, <2>2 DEF Carries
    <2>4. QED
      BY <1>7, <2>1, <2>3 DEF Goto
  <1>8. ASSUME NEW phase, Goto(q, [r EXCEPT !.phase = phase]),
               \/ phase \in {"list", "memberships"}
               \/ /\ phase \in {"membership", "organization", "reserve"}
                  /\ r.call.kind # "reset"
                  /\ r.phase \in {"principal", "membership", "organization", "reserve"}
        PROVE  \E y : req' = [req EXCEPT ![q] = y] /\ Carries(y)
    <2>1. PICK y : y = [r EXCEPT !.phase = phase]
      OBVIOUS
    <2>2. y.phase = phase /\ y.call = r.call /\ y.org = r.org
      BY <2>1 DEF Request
    <2>3. Carries(y)
      BY <1>2, <1>8, <2>2 DEF Carries
    <2>4. QED
      BY <1>8, <2>1, <2>3 DEF Goto
  <1> HIDE DEF x
  <1>9. req[q] = r
    BY <1>2 DEF x
  <1>10. CASE Verify(q)
    <2>1. r.call.kind = "login"
      BY <1>2, <1>9, <1>10 DEF Verify, RightPhase
    <2>2. \/ Goto(q, [r EXCEPT !.phase = "principal", !.who = r.call.target])
          \/ Goto(q, Answered(r, "refused"))
      BY <1>9, <1>10 DEF Verify
    <2>3. QED
      BY <1>4, <1>7, <2>1, <2>2 DEF Answer
  <1>11. CASE FindSession(q)
    <2>1. r.call.kind \in {"resolve", "principal", "enterable", "select"}
      BY <1>2, <1>9, <1>11 DEF FindSession, RightPhase
    <2>2. CASE Goto(q, Refused(r, "unauthenticated"))
      BY <1>3, <2>2 DEF Code
    <2>3. CASE Goto(q, [r EXCEPT !.phase = "principal", !.who = sessions[r.call.sid].by,
                                 !.org = IF r.call.kind = "select" THEN r.call.org
                                         ELSE sessions[r.call.sid].org])
      <3>1. PICK org : org = IF r.call.kind = "select" THEN r.call.org
                             ELSE sessions[r.call.sid].org
        OBVIOUS
      <3>2. PICK y : y = [r EXCEPT !.phase = "principal",
                                   !.who = sessions[r.call.sid].by, !.org = org]
        OBVIOUS
      <3>3. y.phase = "principal" /\ y.call = r.call /\ y.org = org
        BY <3>2 DEF Request
      <3>4. Carries(y)
        BY <2>1, <3>1, <3>3 DEF Carries
      <3>5. QED
        BY <2>3, <3>1, <3>2, <3>4 DEF Goto
    <2>4. QED
      BY <1>9, <1>11, <2>2, <2>3 DEF FindSession
  <1>12. CASE FindPrincipal(q)
    <2>1. /\ r.phase = "principal"
          /\ r.call.kind \in {"login", "resolve", "principal", "enterable", "select"}
      BY <1>2, <1>9, <1>12 DEF FindPrincipal, RightPhase
    <2>2. \/ Goto(q, Onward(r)) \/ Goto(q, Refused(r, "unauthenticated"))
      BY <1>9, <1>12 DEF FindPrincipal
    <2>3. CASE Goto(q, Refused(r, "unauthenticated"))
      BY <1>3, <2>3 DEF Code
    <2>4. CASE Goto(q, Onward(r))
      <3>1. \/ Onward(r) = [r EXCEPT !.phase = "reserve"]
            \/ Onward(r) = [r EXCEPT !.phase = "memberships"]
            \/ Onward(r) = [r EXCEPT !.phase = "membership"]
            \/ Onward(r) = Answered(r, "principal")
            \/ Onward(r) = Answered(r, "not_selected")
        BY DEF Onward
      <3>2. QED
        BY <1>4, <1>8, <2>1, <2>4, <3>1 DEF Answer
    <2>5. QED
      BY <2>2, <2>3, <2>4
  <1>13. CASE FindMembership(q) \/ FindOrganization(q)
    <2>1. /\ r.phase \in {"membership", "organization"}
          /\ r.call.kind \in {"resolve", "select"}
      BY <1>2, <1>9, <1>13 DEF FindMembership, FindOrganization, RightPhase
    <2>2. \/ \E phase \in {"organization", "reserve"} : Goto(q, [r EXCEPT !.phase = phase])
          \/ \E answer \in {"not_selected", "not_found", "unavailable", "authenticated"} :
                Goto(q, Answered(r, answer))
      BY <1>9, <1>13 DEF FindMembership, FindOrganization
    <2>3. QED
      BY <1>4, <1>8, <2>1, <2>2 DEF Answer
  <1>14. CASE ListEnterable(q)
    <2>1. PICK set : Goto(q, [Answered(r, "enterable") EXCEPT !.set = set])
      BY <1>9, <1>14 DEF ListEnterable
    <2>2. PICK y : y = [Answered(r, "enterable") EXCEPT !.set = set]
      OBVIOUS
    <2>3. y.phase = "done"
      BY <2>2, AnsweredLemma DEF Request, Answer
    <2>4. QED
      BY <2>1, <2>2, <2>3, CarriesNothing DEF Goto
  <1>15. CASE FindForLogout(q)
    <2>1. r.call.kind = "logout"
      BY <1>2, <1>9, <1>15 DEF FindForLogout, RightPhase
    <2>2. \/ Goto(q, [r EXCEPT !.phase = "reserve", !.who = sessions[r.call.sid].by])
          \/ Goto(q, Answered(r, "cleared"))
      BY <1>9, <1>15 DEF FindForLogout
    <2>3. QED
      BY <1>4, <1>7, <2>1, <2>2 DEF Answer
  <1>16. CASE FindOperator(q)
    <2>1. CASE Goto(q, Refused(r, "forbidden"))
      BY <1>3, <2>1 DEF Code
    <2>2. CASE Goto(q, [r EXCEPT !.phase = "credential", !.who = r.call.target])
      <3>1. PICK y : y = [r EXCEPT !.phase = "credential", !.who = r.call.target]
        OBVIOUS
      <3>2. y.phase = "credential"
        BY <3>1 DEF Request
      <3>3. QED
        BY <2>2, <3>1, <3>2, CarriesNothing DEF Goto
    <2>3. QED
      BY <1>9, <1>16, <2>1, <2>2 DEF FindOperator
  <1>17. CASE FindCredential(q)
    <2>1. Goto(q, [r EXCEPT !.phase = "list"]) \/ Goto(q, Refused(r, "not_found"))
      BY <1>9, <1>17 DEF FindCredential
    <2>2. QED
      BY <1>3, <1>8, <2>1 DEF Code
  <1>18. CASE ListLive(q)
    <2>1. PICK listed \in SUBSET LiveAt(r.who, r.at), known \in SUBSET Sid, excused \in SUBSET Sid :
             Goto(q, [r EXCEPT !.phase = "reserve", !.set = listed,
                               !.known = known, !.excused = excused])
      BY <1>9, <1>18 DEF ListLive, LiveAt, Of
    <2>2. PICK y : y = [r EXCEPT !.phase = "reserve", !.set = listed,
                                 !.known = known, !.excused = excused]
      OBVIOUS
    <2>3. y.phase = "reserve" /\ y.call = r.call /\ y.set = listed /\ y.who = r.who
      BY <2>2 DEF Request
    <2>4. \A s \in listed : /\ s \in Sid /\ sessions[s].state # "unopened"
                            /\ sessions[s].by = r.who
      BY DEF LiveAt, Of, Stored
    <2>5. r.call.kind = "reset"
      BY <1>2, <1>9, <1>18 DEF ListLive, RightPhase
    <2>6. Carries(y)
      BY <2>3, <2>4, <2>5 DEF Carries
    <2>7. QED
      BY <2>1, <2>2, <2>6 DEF Goto
  <1>19. CASE Reserve(q)
    <2>1. r.phase = "reserve" /\ r.call.kind \in {"login", "select", "logout", "reset"}
      BY <1>2, <1>9, <1>19 DEF Reserve, RightPhase
    <2>2. CASE Goto(q, Refused(r, "quota_exceeded"))
      BY <1>3, <2>2 DEF Code
    <2>3. CASE Goto(q, [r EXCEPT !.phase = WritePhase(r), !.expires = ExpiryOf(r)])
      <3>1. PICK phase, expires : phase = WritePhase(r) /\ expires = ExpiryOf(r)
        OBVIOUS
      <3>2. PICK y : y = [r EXCEPT !.phase = phase, !.expires = expires]
        OBVIOUS
      <3>3. /\ y.phase = phase /\ y.expires = expires /\ y.call = r.call
            /\ y.org = r.org /\ y.set = r.set /\ y.who = r.who
        BY <3>2 DEF Request
      <3>4. phase = "insert" => expires <= clock + Lifetime
        <4>1. phase = "insert" => expires = clock + Lifetime
          BY <2>1, <3>1 DEF WritePhase, ExpiryOf
        <4>2. clock + Lifetime \in Int
          BY SessionsAssumption DEF IInv, TypeInv, TypeOK, Time
        <4>3. QED
          BY <4>1, <4>2
      <3>5. Carries(y)
        BY <1>2, <2>1, <3>3, <3>4 DEF Carries
      <3>6. QED
        BY <2>3, <3>1, <3>2, <3>5 DEF Goto
    <2>4. QED
      BY <1>9, <1>19, <2>2, <2>3 DEF Reserve
  <1>20. CASE Insert(q) \/ Update(q) \/ Delete(q)
    <2>1. PICK answer \in Answer : Wrote(q, answer)
      BY <1>20 DEF Insert, Update, Delete, Answer
    <2>2. PICK y \in Request : req' = [req EXCEPT ![q] = y] /\ y.phase = "done"
      BY <2>1, WroteLemma
    <2>3. QED
      BY <2>2, CarriesNothing
  <1>21. CASE Replace(q)
    <2>1. PICK excused : excused = r.excused \cup Verified(r.who) \cup (Of(r.who) \ r.known)
      OBVIOUS
    <2>2. PICK batch : batch = [r EXCEPT !.took = TRUE, !.known = {}, !.excused = excused]
      OBVIOUS
    <2>3. excused \subseteq Sid
      BY <1>2, <2>1 DEF Verified, Of, Request, Sid
    <2>4. batch \in Request
      BY <1>2, <2>2, <2>3 DEF Request
    <2>5. \/ Goto(q, [batch EXCEPT !.phase = "inform", !.set = {}])
          \/ Goto(q, Refused(batch, "unavailable"))
      BY <1>9, <1>21, <2>1, <2>2 DEF Replace
    <2>6. CASE Goto(q, [batch EXCEPT !.phase = "inform", !.set = {}])
      <3>1. PICK y : y = [batch EXCEPT !.phase = "inform", !.set = {}]
        OBVIOUS
      <3>2. y.phase = "inform"
        BY <2>4, <3>1 DEF Request
      <3>3. QED
        BY <2>6, <3>1, <3>2, CarriesNothing DEF Goto
    <2>7. QED
      BY <1>3, <2>4, <2>5, <2>6 DEF Code
  <1>22. CASE Inform(q)
    <2>1. CASE Goto(q, Answered(r, "reset"))
      BY <1>4, <2>1 DEF Answer
    <2>2. CASE Goto(q, [r EXCEPT !.phase = "tell", !.set = Enrolled(r.who)])
      <3>1. PICK y : y = [r EXCEPT !.phase = "tell", !.set = Enrolled(r.who)]
        OBVIOUS
      <3>2. y.phase = "tell"
        BY <3>1 DEF Request
      <3>3. QED
        BY <2>2, <3>1, <3>2, CarriesNothing DEF Goto
    <2>3. QED
      BY <1>9, <1>22, <2>1, <2>2 DEF Inform
  <1>23. CASE Tell(q)
    <2>1. PICK set : Goto(q, [r EXCEPT !.set = set])
      BY <1>9, <1>23 DEF Tell
    <2>2. PICK y : y = [r EXCEPT !.set = set]
      OBVIOUS
    <2>3. y.phase = "tell"
      BY <1>9, <1>23, <2>2 DEF Request, Tell
    <2>4. QED
      BY <2>1, <2>2, <2>3, CarriesNothing DEF Goto
  <1>24. CASE ResetDone(q) \/ CallFails(q)
    <2>1. Goto(q, Answered(r, "reset")) \/ Goto(q, Refused(r, "unavailable"))
      BY <1>9, <1>24 DEF ResetDone, CallFails
    <2>2. QED
      BY <1>3, <1>4, <2>1 DEF Answer, Code
  <1>25. QED
    BY <1>6, <1>10, <1>11, <1>12, <1>13, <1>14, <1>15, <1>16, <1>17, <1>18, <1>19,
       <1>20, <1>21, <1>22, <1>23, <1>24 DEF Step

\* Whatever is carried stays good.
LEMMA CarriedStep ==
    ASSUME IInv, IInv', EachCarries, [Next]_vars
    PROVE  EachCarries'
  <1>1. req \in [Req -> Request] /\ req' \in [Req -> Request]
    BY DEF IInv, TypeInv, TypeOK
  <1>2. ASSUME NEW l \in Req PROVE Carries(req'[l])
    <2>1. CASE req' = req
      BY <2>1 DEF EachCarries
    <2>2. ASSUME NEW q \in Req, Step(q) PROVE Carries(req'[l])
      <3>1. PICK y : req' = [req EXCEPT ![q] = y] /\ Carries(y)
        BY <2>2, CarriesOwn
      <3>2. QED
        BY <1>1, <3>1 DEF EachCarries
    <2>3. QED
      BY <2>1, <2>2 DEF Next, Tick, Administer, vars
  <1>3. ASSUME NEW l \in Req PROVE Carries(req[l])'
    <2>1. PICK x \in Request : x = req'[l]
      BY <1>1
    <2>2. Carries(x)
      BY <1>2, <2>1
    <2>3. Carries(x)'
      BY <2>2, CarriedStays
    <2>4. QED
      BY <2>1, <2>3 DEF Carries
  <1>4. QED
    BY <1>3 DEF EachCarries

\* At first nothing is carried, and each row that is stored ends in time.
LEMMA LivesInit == Init => Lives!Init /\ EachCarries
  <1> SUFFICES ASSUME Init PROVE Lives!Init /\ EachCarries
    OBVIOUS
  <1>1. \A q \in Req : req[q].phase = "idle"
    BY DEF Init, Idle
  <1>2. EachCarries
    BY <1>1, CarriesNothing DEF EachCarries
  <1>3. Lives!Init
    BY SessionsAssumption DEF Init, Lives!Init, Sid
  <1>4. QED
    BY <1>2, <1>3

\* What the table tells of session s.
Told(s) == [state |-> sessions[s].state, by |-> sessions[s].by,
            org |-> sessions[s].org, expires |-> sessions[s].expires]

\* A row that was not opened is.
LEMMA LifeOpens ==
    ASSUME IInv, EachCarries, NEW q \in Req, Insert(q)
    PROVE  Lives!Next
  <1> DEFINE x == req[q]
  <1>1. /\ x.who \in Principal /\ x.expires \in 0 .. LastTime + Lifetime
        /\ x.phase = "insert" /\ x.expires <= clock + Lifetime
    BY Known DEF Insert, Request, Expiry, EachCarries, Carries
  <1>2. PICK p \in Principal : p = x.who
    BY <1>1
  <1>3. PICK expires \in 0 .. LastTime + Lifetime : expires = x.expires
    BY <1>1
  <1>4. PICK t \in Sid : t = q
    BY DEF Sid
  <1>5. sessions[t].state = "unopened" /\ clock' = clock
    BY <1>1, <1>4 DEF Insert, IInv, OpenedWhenDone
  <1>6. PICK row : row = [state |-> "stored", by |-> p, org |-> "none",
                          expires |-> expires, key |-> x.call.key]
    OBVIOUS
  <1>7. PICK tells : tells = [state |-> "stored", by |-> p, org |-> "none",
                              expires |-> expires]
    OBVIOUS
  <1>8. sessions' = [sessions EXCEPT ![t] = row] /\ DOMAIN sessions = Sid
    BY <1>2, <1>3, <1>4, <1>6 DEF Insert, IInv, TypeInv, TypeOK
  <1>9. sessions'[t] = row /\ \A s \in Sid \ {t} : sessions'[s] = sessions[s]
    BY <1>8
  <1>10. Told(t)' = tells /\ \A s \in Sid \ {t} : Told(s)' = Told(s)
    BY <1>6, <1>7, <1>9 DEF Told
  <1>11. [s \in Sid |-> Told(s)'] = [[s \in Sid |-> Told(s)] EXCEPT ![t] = tells]
    BY <1>10
  <1>12. Lives!Open(t, p, expires)
    BY <1>1, <1>3, <1>5, <1>7, <1>11 DEF Lives!Open, Told
  <1>13. QED
    BY <1>12 DEF Lives!Next

\* A stored row is turned to the Organization that was asked for.
LEMMA LifeTurns ==
    ASSUME IInv, EachCarries, NEW q \in Req, Update(q)
    PROVE  [Lives!Next]_(Lives!vars)
  <1> DEFINE x == req[q]
             sid == x.call.sid
  <1>1. x.phase = "update" /\ x.call \in Call /\ x.call.kind = "select"
    BY Known DEF Update, RightPhase
  <1>2. sid \in Sid /\ x.org \in Org /\ clock' = clock
    BY <1>1, CallLemma DEF Update, EachCarries, Carries
  <1>3. PICK o \in Org : o = x.org
    BY <1>2
  <1>4. PICK t \in Sid : t = sid
    BY <1>2
  <1>5. sessions' = [sessions EXCEPT ![t] = Updated(sessions[t], o)]
    BY <1>3, <1>4 DEF Update
  <1>6. sessions \in [Sid -> Session]
    BY DEF IInv, TypeInv, TypeOK
  <1>7. PICK row \in Session : row = sessions[t]
    BY <1>6
  <1>8. CASE row.state # "stored"
    <2>1. sessions' = sessions
      BY <1>5, <1>6, <1>7, <1>8 DEF Updated
    <2>2. QED
      BY <1>2, <2>1 DEF Lives!vars
  <1>9. CASE row.state = "stored"
    <2>1. PICK turned : turned = [row EXCEPT !.org = o]
      OBVIOUS
    <2>2. /\ turned.state = row.state /\ turned.by = row.by
          /\ turned.org = o /\ turned.expires = row.expires
      BY <2>1 DEF Session
    <2>3. sessions' = [sessions EXCEPT ![t] = turned]
      BY <1>5, <1>7, <1>9, <2>1 DEF Updated
    <2>4. sessions'[t] = turned /\ \A s \in Sid \ {t} : sessions'[s] = sessions[s]
      BY <1>6, <2>3
    <2>5. /\ Told(t)' = [Told(t) EXCEPT !.org = o]
          /\ \A s \in Sid \ {t} : Told(s)' = Told(s)
      BY <1>7, <2>2, <2>4 DEF Told
    <2>6. [s \in Sid |-> Told(s)'] = [[s \in Sid |-> Told(s)] EXCEPT ![t].org = o]
      BY <2>5
    <2>7. Lives!Turn(t, o)
      BY <1>2, <1>7, <1>9, <2>6 DEF Lives!Turn, Told
    <2>8. QED
      BY <2>7 DEF Lives!Next
  <1>10. QED
    BY <1>8, <1>9

\* Stored rows of one principal end.
LEMMA LifeEnds ==
    ASSUME IInv, UNCHANGED clock, NEW p \in Principal, NEW gone,
           sessions' = Deleted(gone),
           \A s \in gone : s \in Sid /\ Stored(s) => sessions[s].by = p
    PROVE  Lives!Next
  <1>1. PICK ended : ended = {s \in Sid : s \in gone /\ Stored(s)}
    OBVIOUS
  <1>2. ASSUME NEW s \in ended
        PROVE  Told(s)' = [Told(s) EXCEPT !.state = "ended"]
    <2>1. PICK row \in Session : row = sessions[s]
      BY <1>1, <1>2 DEF IInv, TypeInv, TypeOK
    <2>2. sessions'[s] = [row EXCEPT !.state = "ended"]
      BY <1>1, <1>2, <2>1 DEF Deleted
    <2>3. PICK after : after = [row EXCEPT !.state = "ended"]
      OBVIOUS
    <2>4. /\ after.state = "ended" /\ after.by = row.by
          /\ after.org = row.org /\ after.expires = row.expires
      BY <2>3 DEF Session
    <2>5. QED
      BY <2>1, <2>2, <2>3, <2>4 DEF Told
  <1>3. \A s \in Sid \ ended : Told(s)' = Told(s)
    BY <1>1 DEF Deleted, Told
  <1>4. [s \in Sid |-> Told(s)']
           = [s \in Sid |-> IF s \in ended THEN [[t \in Sid |-> Told(t)][s] EXCEPT !.state = "ended"]
                            ELSE [t \in Sid |-> Told(t)][s]]
    BY <1>2, <1>3
  <1>5. ended \subseteq Lives!Stored(p)
    BY <1>1 DEF Lives!Stored, Stored
  <1>6. Lives!End(p, ended)
    BY <1>4, <1>5 DEF Lives!End, Told
  <1>7. QED
    BY <1>5, <1>6 DEF Lives!Next

\* Every step of the requests is a step of the table, or leaves it.
LEMMA LivesStep ==
    ASSUME IInv, EachCarries, [Next]_vars
    PROVE  [Lives!Next]_(Lives!vars)
  <1>1. CASE Tick
    BY <1>1 DEF Tick, Lives!Tick, Lives!Next
  <1>2. CASE clock' = clock /\ UNCHANGED sessions
    BY <1>2 DEF Lives!vars
  <1>3. ASSUME NEW q \in Req, Delete(q) PROVE Lives!Next
    <2>1. req[q].call \in Call /\ req[q].call.kind = "logout"
      BY <1>3, Known DEF Delete, RightPhase
    <2>2. PICK sid \in Sid : sid = req[q].call.sid
      BY <2>1, CallLemma
    <2>3. PICK p \in Principal : p = sessions[sid].by
      BY DEF IInv, TypeInv, TypeOK, Session
    <2>4. UNCHANGED clock /\ sessions' = Deleted({sid})
      BY <1>3, <2>2 DEF Delete
    <2>5. QED
      BY <2>3, <2>4, LifeEnds
  <1>4. ASSUME NEW q \in Req, Replace(q) PROVE Lives!Next
    <2>1. req[q].phase = "batch" /\ req[q].call.kind = "reset"
      BY <1>4, Known DEF Replace, RightPhase
    <2>2. PICK p \in Principal : p = req[q].who
      BY Known DEF Request
    <2>3. PICK gone : gone = req[q].set
      OBVIOUS
    <2>4. \A s \in gone : s \in Sid /\ sessions[s].by = p
      BY <2>1, <2>2, <2>3 DEF EachCarries, Carries
    <2>5. UNCHANGED clock /\ sessions' = Deleted(gone)
      BY <1>4, <2>3 DEF Replace, ResetDeletes
    <2>6. QED
      BY <2>4, <2>5, LifeEnds
  <1>5. QED
    BY <1>1, <1>2, <1>3, <1>4, OpenedStays, LifeOpens, LifeTurns

\* The session table implements SessionLives for any requests, Organizations and
\* principals: whatever is interleaved with what, a row is opened once, for one
\* principal and for at most a lifetime, is turned only while it is stored, and
\* ends for good together with rows of its own principal alone (createSession,
\* setSessionActiveOrganization, deleteSession, resetCredential).
THEOREM SessionsKeepTheirLives == Spec => ImplementsLives
  <1>1. IInv /\ IInv' /\ EachCarries /\ [Next]_vars
        => [Lives!Next]_(Lives!vars) /\ EachCarries'
    BY LivesStep, CarriedStep
  <1>2. QED
    BY <1>1, Invariance, LivesInit, PTL DEF Spec, ImplementsLives, Lives!Spec

-----------------------------------------------------------------------------
(* An answer says nothing that was so at no moment of its request.           *)

\* Whom a request in state x is about, once it has read so.
Stands(x) ==
    LET kind == x.call.kind IN
    /\ (kind = "login" /\ x.phase \in {"principal", "reserve", "insert"}) =>
          x.who = x.call.target
    /\ (kind = "reset" /\ x.phase \in {"credential", "list", "reserve", "batch",
                                       "inform", "tell"}) =>
          x.who = x.call.target
    /\ (/\ kind \in {"resolve", "principal", "enterable", "select"}
        /\ x.phase \in {"principal", "membership", "memberships", "organization",
                        "reserve", "update"}) =>
          /\ sessions[x.call.sid].state # "unopened"
          /\ sessions[x.call.sid].by = x.who

\* What has been read was so: it is not among what a request misses.
Assured(x, m) ==
    LET kind == x.call.kind IN
    /\ (/\ kind \in {"resolve", "principal", "enterable", "select"}
        /\ x.phase \in {"principal", "membership", "memberships", "organization",
                        "reserve", "update"}) =>
          <<"live", "none">> \notin m
    /\ (kind = "login" /\ x.phase \in {"principal", "reserve", "insert"}) =>
          <<"key", "none">> \notin m
    /\ (\/ x.phase \in {"membership", "memberships", "organization"}
        \/ kind \in {"login", "select"} /\ x.phase \in {"reserve", "insert", "update"}) =>
          <<"active", "none">> \notin m /\ <<"apart", "none">> \notin m
    /\ (\/ x.phase = "organization"
        \/ kind = "select" /\ x.phase \in {"reserve", "update"}) =>
          <<"member", x.org>> \notin m
    /\ (kind = "select" /\ x.phase \in {"reserve", "update"}) =>
          <<"open", x.org>> \notin m
    /\ (kind = "reset" /\ x.phase \in {"credential", "list", "reserve", "batch",
                                       "inform", "tell"}) =>
          <<"tenant", "none">> \notin m
    /\ x.phase = "tell" => \A o \in x.set : <<"enrolled", o>> \notin m

\* What a request misses is not so now.
Current == \A q \in Req : missing[q] \subseteq NotSo(req[q].call)

Assurance ==
    /\ Current
    /\ \A q \in Req : Stands(req[q])
    /\ \A q \in Req : Assured(req[q], missing[q])

\* Where a request goes by its own step, m being what it missed before.
Goes(y, m) ==
    /\ Stands(y) /\ Assured(y, m)
    /\ y.phase = "done" => Relied(y) \cap m = {}

LEMMA ReliesOnNothing ==
    ASSUME NEW y, NEW m, y.phase = "done",
           y.answer \notin {"authenticated", "selected", "not_selected", "principal",
                            "enterable", "issued", "reset"}
    PROVE  Goes(y, m)
  <1>1. Relied(y) = {}
    BY DEF Relied
  <1>2. QED
    BY <1>1 DEF Goes, Stands, Assured

LEMMA RefusedGoes ==
    ASSUME NEW r \in Request, NEW code \in Code, NEW m
    PROVE  Goes(Refused(r, code), m)
  <1>1. PICK y : y = Refused(r, code)
    OBVIOUS
  <1>2. y.phase = "done"
    BY <1>1, RefusedLemma
  <1>3. y.answer \in {"cleared", "refused", "unavailable"} \cup Code
    <2>1. CASE r.call.kind = "logout"
      <3>1. PICK a \in Request : a = Answered(r, "cleared") /\ a.answer = "cleared"
        BY AnsweredLemma DEF Answer
      <3>2. y = [a EXCEPT !.hindered = TRUE]
        BY <1>1, <2>1, <3>1 DEF Refused
      <3>3. QED
        BY <3>1, <3>2 DEF Request
    <2>2. CASE r.call.kind # "logout"
      <3>1. PICK answer \in {"refused", "unavailable", code} : y = Answered(r, answer)
        BY <1>1, <2>2 DEF Refused
      <3>2. answer \in Answer
        BY <3>1 DEF Answer, Code
      <3>3. QED
        BY <3>1, <3>2, AnsweredLemma
    <2>3. QED
      BY <2>1, <2>2
  <1>4. y.answer \notin {"authenticated", "selected", "not_selected", "principal",
                         "enterable", "issued", "reset"}
    BY <1>3 DEF Code
  <1>5. QED
    BY <1>1, <1>2, <1>4, ReliesOnNothing

\* An answer is as good as what the request read for it.
LEMMA AnsweredGoes ==
    ASSUME NEW r \in Request, NEW answer \in Answer, NEW m,
           answer \in {"authenticated", "selected", "not_selected"} =>
              /\ <<"live", "none">> \notin m /\ <<"active", "none">> \notin m
              /\ <<"apart", "none">> \notin m,
           answer \in {"authenticated", "selected"} =>
              <<"member", r.org>> \notin m /\ <<"open", r.org>> \notin m,
           answer = "principal" =>
              <<"live", "none">> \notin m /\ <<"active", "none">> \notin m,
           answer = "issued" =>
              /\ <<"key", "none">> \notin m /\ <<"active", "none">> \notin m
              /\ <<"apart", "none">> \notin m,
           answer = "reset" => <<"tenant", "none">> \notin m,
           answer # "enterable"
    PROVE  Goes(Answered(r, answer), m)
  <1>1. PICK y : y = Answered(r, answer)
    OBVIOUS
  <1>2. y.phase = "done" /\ y.answer = answer /\ y.org = r.org
    BY <1>1, AnsweredLemma
  <1>3. CASE answer \notin {"authenticated", "selected", "not_selected", "principal",
                            "enterable", "issued", "reset"}
    BY <1>1, <1>2, <1>3, ReliesOnNothing
  <1>4. CASE answer \in {"authenticated", "selected"}
    <2>1. Relied(y) = {<<"live", "none">>, <<"active", "none">>, <<"apart", "none">>}
                         \cup {<<"member", y.org>>, <<"open", y.org>>}
      BY <1>2, <1>4 DEF Relied
    <2>2. Relied(y) \cap m = {}
      BY <1>2, <1>4, <2>1
    <2>3. QED
      BY <1>1, <1>2, <2>2 DEF Goes, Stands, Assured
  <1>5. CASE answer = "not_selected"
    <2>1. Relied(y) = {<<"live", "none">>, <<"active", "none">>, <<"apart", "none">>}
      BY <1>2, <1>5 DEF Relied
    <2>2. Relied(y) \cap m = {}
      BY <1>5, <2>1
    <2>3. QED
      BY <1>1, <1>2, <2>2 DEF Goes, Stands, Assured
  <1>6. CASE answer = "principal"
    <2>1. Relied(y) = {<<"live", "none">>, <<"active", "none">>}
      BY <1>2, <1>6 DEF Relied
    <2>2. Relied(y) \cap m = {}
      BY <1>6, <2>1
    <2>3. QED
      BY <1>1, <1>2, <2>2 DEF Goes, Stands, Assured
  <1>7. CASE answer = "issued"
    <2>1. Relied(y) = {<<"key", "none">>, <<"active", "none">>, <<"apart", "none">>}
      BY <1>2, <1>7 DEF Relied
    <2>2. Relied(y) \cap m = {}
      BY <1>7, <2>1
    <2>3. QED
      BY <1>1, <1>2, <2>2 DEF Goes, Stands, Assured
  <1>8. CASE answer = "reset"
    <2>1. Relied(y) = {<<"tenant", "none">>}
      BY <1>2, <1>8 DEF Relied
    <2>2. Relied(y) \cap m = {}
      BY <1>8, <2>1
    <2>3. QED
      BY <1>1, <1>2, <2>2 DEF Goes, Stands, Assured
  <1>9. QED
    BY <1>3, <1>4, <1>5, <1>6, <1>7, <1>8

\* What is so is not missed.
LEMMA SoIsNotMissed ==
    ASSUME NEW c, NEW m, m \subseteq NotSo(c), NEW name, NEW o, IsSo(c, name, o)
    PROVE  <<name, o>> \notin m
  BY DEF NotSo

LEMMA Reading ==
    ASSUME NEW c, NEW m, m \subseteq NotSo(c)
    PROVE  /\ Live(c.sid) => <<"live", "none">> \notin m
           /\ Verifier(Subject(c)) = c.key => <<"key", "none">> \notin m
           /\ Subject(c) \in principals => <<"active", "none">> \notin m
           /\ ~ InBothTables(Subject(c)) => <<"apart", "none">> \notin m
           /\ Subject(c) \notin operators => <<"tenant", "none">> \notin m
           /\ \A o : members[Subject(c)][o] = "active" => <<"member", o>> \notin m
           /\ \A o \in Enrolled(Subject(c)) : <<"enrolled", o>> \notin m
           /\ \A o \in organizations : <<"open", o>> \notin m
  <1>1. Live(c.sid) => <<"live", "none">> \notin m
    BY SoIsNotMissed DEF IsSo
  <1>2. Verifier(Subject(c)) = c.key => <<"key", "none">> \notin m
    BY SoIsNotMissed DEF IsSo
  <1>3. Subject(c) \in principals => <<"active", "none">> \notin m
    BY SoIsNotMissed DEF IsSo
  <1>4. ~ InBothTables(Subject(c)) => <<"apart", "none">> \notin m
    BY SoIsNotMissed DEF IsSo
  <1>5. Subject(c) \notin operators => <<"tenant", "none">> \notin m
    BY SoIsNotMissed DEF IsSo
  <1>6. \A o : members[Subject(c)][o] = "active" => <<"member", o>> \notin m
    BY SoIsNotMissed DEF IsSo
  <1>7. \A o \in Enrolled(Subject(c)) : <<"enrolled", o>> \notin m
    BY SoIsNotMissed DEF IsSo
  <1>8. \A o \in organizations : <<"open", o>> \notin m
    BY SoIsNotMissed DEF IsSo
  <1>9. QED
    BY <1>1, <1>2, <1>3, <1>4, <1>5, <1>6, <1>7, <1>8

\* Where request q goes by its own step.
LEMMA OwnGoes ==
    ASSUME IInv, EachCarries, Assurance, NEW q \in Req, Step(q)
    PROVE  \E y : req' = [req EXCEPT ![q] = y] /\ Goes(y, missing[q])
  <1>1. PICK m : m = missing[q]
    OBVIOUS
  <1>2. PICK r \in Request : r = req[q] /\ RightPhase(r) /\ Carries(r)
    BY Known DEF EachCarries
  <1>3. Stands(r) /\ Assured(r, m) /\ m \subseteq NotSo(r.call)
    BY <1>1, <1>2 DEF Assurance, Current
  <1>4. PICK s : s = Subject(r.call)
    OBVIOUS
  <1>5. r.call.kind \in {"login", "reset"} => s = r.call.target
    BY <1>4 DEF Subject
  <1>6. r.call.kind \notin {"login", "reset"} => s = sessions[r.call.sid].by
    BY <1>4 DEF Subject
  <1>7. /\ Live(r.call.sid) => <<"live", "none">> \notin m
        /\ Verifier(s) = r.call.key => <<"key", "none">> \notin m
        /\ s \in principals => <<"active", "none">> \notin m
        /\ ~ InBothTables(s) => <<"apart", "none">> \notin m
        /\ s \notin operators => <<"tenant", "none">> \notin m
        /\ \A o : members[s][o] = "active" => <<"member", o>> \notin m
        /\ \A o \in Enrolled(s) : <<"enrolled", o>> \notin m
        /\ \A o \in organizations : <<"open", o>> \notin m
    BY <1>3, <1>4, Reading
  <1>8. ASSUME NEW z \in Request, NEW code \in Code, Goto(q, Refused(z, code))
        PROVE  \E y : req' = [req EXCEPT ![q] = y] /\ Goes(y, m)
    BY <1>8, RefusedGoes DEF Goto
  <1>9. ASSUME NEW y, Goto(q, y), Goes(y, m)
        PROVE  \E z : req' = [req EXCEPT ![q] = z] /\ Goes(z, m)
    BY <1>9 DEF Goto
  <1>10. ASSUME NEW y, y.phase \notin {"principal", "membership", "memberships",
                           "organization", "reserve", "insert", "update", "credential",
                           "list", "batch", "inform", "tell", "done"}
         PROVE  Goes(y, m)
    BY <1>10 DEF Goes, Stands, Assured
  <1>11. CASE Ask(q)
    <2>1. PICK c \in Call, at \in {clock, 0} : Goto(q, [Idle EXCEPT !.phase = EntryPhase[c.kind],
                                           !.call = c, !.at = at])
      BY <1>11, SessionsAssumption DEF Ask
    <2>2. PICK phase : phase = EntryPhase[c.kind]
      OBVIOUS
    <2>3. phase \in {"verify", "session", "find", "operator"}
      BY <2>2, CallLemma DEF EntryPhase
    <2>4. PICK y : y = [Idle EXCEPT !.phase = phase, !.call = c, !.at = at]
      OBVIOUS
    <2>5. y.phase = phase
      BY <2>4, IdleType DEF Request
    <2>6. Goes(y, m)
      BY <1>10, <2>3, <2>5
    <2>7. Goto(q, y)
      BY <2>1, <2>2, <2>4
    <2>8. QED
      BY <1>1, <1>9, <2>6, <2>7
  <1>12. CASE Verify(q)
    <2>1. r.call.kind = "login" /\ s = r.call.target
      BY <1>2, <1>5, <1>12 DEF Verify, RightPhase
    <2>2. CASE Verifier(r.call.target) = r.call.key
      <3>1. PICK y : y = [r EXCEPT !.phase = "principal", !.who = r.call.target]
        OBVIOUS
      <3>2. y.phase = "principal" /\ y.call = r.call /\ y.who = r.call.target
        BY <3>1 DEF Request
      <3>3. Goes(y, m)
        BY <1>7, <2>1, <2>2, <3>2 DEF Goes, Stands, Assured
      <3>4. Goto(q, y)
        BY <1>2, <1>12, <2>2, <3>1 DEF Verify
      <3>5. QED
        BY <1>1, <1>9, <3>3, <3>4
    <2>3. CASE Verifier(r.call.target) # r.call.key
      <3>1. Goto(q, Answered(r, "refused"))
        BY <1>2, <1>12, <2>3 DEF Verify
      <3>2. Goes(Answered(r, "refused"), m)
        BY AnsweredGoes DEF Answer
      <3>3. QED
        BY <1>1, <3>1, <3>2 DEF Goto
    <2>4. QED
      BY <2>2, <2>3
  <1>13. CASE FindSession(q)
    <2>1. r.call.kind \in {"resolve", "principal", "enterable", "select"}
      BY <1>2, <1>13 DEF FindSession, RightPhase
    <2>2. CASE ~ Live(r.call.sid)
      <3>1. Goto(q, Refused(r, "unauthenticated"))
        BY <1>2, <1>13, <2>2 DEF FindSession
      <3>2. QED
        BY <1>1, <1>8, <3>1 DEF Code
    <2>3. CASE Live(r.call.sid)
      <3>1. PICK org, who : /\ org = IF r.call.kind = "select" THEN r.call.org
                                     ELSE sessions[r.call.sid].org
                            /\ who = sessions[r.call.sid].by
        OBVIOUS
      <3>2. PICK y : y = [r EXCEPT !.phase = "principal", !.who = who, !.org = org]
        OBVIOUS
      <3>3. y.phase = "principal" /\ y.call = r.call /\ y.who = who
        BY <3>2 DEF Request
      <3>4. sessions[r.call.sid].state # "unopened"
        BY <2>3 DEF Live, Stored
      <3>5. Stands(y)
        BY <2>1, <3>1, <3>3, <3>4 DEF Stands
      <3>6. Goes(y, m)
        BY <1>7, <2>1, <2>3, <3>3, <3>5 DEF Goes, Assured
      <3>7. Goto(q, y)
        BY <1>2, <1>13, <2>3, <3>1, <3>2 DEF FindSession
      <3>8. QED
        BY <1>1, <1>9, <3>6, <3>7
    <2>4. QED
      BY <2>2, <2>3
  <1>14. ASSUME NEW phase, Goto(q, [r EXCEPT !.phase = phase]),
                \A y \in Request : (y.phase = phase /\ y.call = r.call /\ y.org = r.org
                         /\ y.who = r.who /\ y.set = r.set) => Goes(y, m),
                phase \in Phase
         PROVE  \E z : req' = [req EXCEPT ![q] = z] /\ Goes(z, m)
    <2>1. PICK y : y = [r EXCEPT !.phase = phase]
      OBVIOUS
    <2>2. /\ y \in Request /\ y.phase = phase /\ y.call = r.call /\ y.org = r.org
          /\ y.who = r.who /\ y.set = r.set
      BY <1>14, <2>1 DEF Request
    <2>3. Goes(y, m)
      BY <1>14, <2>2
    <2>4. QED
      BY <1>9, <1>14, <2>1, <2>3
  <1>15. ASSUME NEW answer \in Answer, Goto(q, Answered(r, answer)),
                Goes(Answered(r, answer), m)
         PROVE  \E z : req' = [req EXCEPT ![q] = z] /\ Goes(z, m)
    BY <1>15 DEF Goto
  <1>16. CASE FindPrincipal(q)
    <2>1. /\ r.phase = "principal"
          /\ r.call.kind \in {"login", "resolve", "principal", "enterable", "select"}
      BY <1>2, <1>16 DEF FindPrincipal, RightPhase
    <2>2. s = r.who
      BY <1>3, <1>5, <1>6, <2>1 DEF Stands
    <2>3. CASE ~ AdmittedPrincipal(r)
      <3>1. Goto(q, Refused(r, "unauthenticated"))
        BY <1>2, <1>16, <2>3 DEF FindPrincipal
      <3>2. QED
        BY <1>1, <1>8, <3>1 DEF Code
    <2>4. CASE AdmittedPrincipal(r)
      <3>1. /\ <<"active", "none">> \notin m
            /\ r.call.kind # "principal" => <<"apart", "none">> \notin m
            /\ r.call.kind # "login" => <<"live", "none">> \notin m
            /\ r.call.kind = "login" => <<"key", "none">> \notin m
        BY <1>3, <1>7, <2>1, <2>2, <2>4 DEF AdmittedPrincipal, Assured
      <3>2. Goto(q, Onward(r))
        BY <1>2, <1>16, <2>4 DEF FindPrincipal
      <3>3. CASE r.call.kind = "principal"
        <4>1. Goes(Answered(r, "principal"), m)
          BY <3>1, <3>3, AnsweredGoes DEF Answer
        <4>2. QED
          BY <1>1, <1>15, <3>2, <3>3, <4>1 DEF Onward, Answer
      <3>4. CASE r.call.kind = "resolve" /\ r.org = "none"
        <4>1. Goes(Answered(r, "not_selected"), m)
          BY <3>1, <3>4, AnsweredGoes DEF Answer
        <4>2. QED
          BY <1>1, <1>15, <3>2, <3>4, <4>1 DEF Onward, Answer
      <3>5. CASE /\ r.call.kind # "principal"
                 /\ ~ (r.call.kind = "resolve" /\ r.org = "none")
        <4>1. PICK phase \in {"reserve", "memberships", "membership"} :
                 /\ Goto(q, [r EXCEPT !.phase = phase])
                 /\ phase = "reserve" => r.call.kind = "login"
                 /\ phase # "reserve" => r.call.kind # "login"
          BY <2>1, <3>2, <3>5 DEF Onward
        <4>2. ASSUME NEW y \in Request, y.phase = phase, y.call = r.call,
                     y.org = r.org, y.who = r.who
              PROVE  Goes(y, m)
          <5>1. Stands(y)
            BY <1>3, <2>1, <4>1, <4>2 DEF Stands
          <5>2. Assured(y, m)
            BY <2>1, <3>1, <3>5, <4>1, <4>2 DEF Assured
          <5>3. QED
            BY <4>1, <4>2, <5>1, <5>2 DEF Goes
        <4>3. QED
          BY <1>1, <1>14, <4>1, <4>2 DEF Phase
      <3>6. QED
        BY <3>3, <3>4, <3>5
    <2>5. QED
      BY <2>3, <2>4
  <1>17. CASE FindMembership(q)
    <2>1. r.phase = "membership" /\ r.call.kind \in {"resolve", "select"}
      BY <1>2, <1>17 DEF FindMembership, RightPhase
    <2>2. s = r.who
      BY <1>3, <1>6, <2>1 DEF Stands
    <2>3. CASE members[r.who][r.org] = "active"
      <3>1. <<"member", r.org>> \notin m
        BY <1>7, <2>2, <2>3
      <3>2. Goto(q, [r EXCEPT !.phase = "organization"])
        BY <1>2, <1>17, <2>3 DEF FindMembership
      <3>3. ASSUME NEW y \in Request, y.phase = "organization", y.call = r.call,
                   y.org = r.org, y.who = r.who
            PROVE  Goes(y, m)
        <4>1. Stands(y)
          BY <1>3, <2>1, <3>3 DEF Stands
        <4>2. Assured(y, m)
          BY <1>3, <2>1, <3>1, <3>3 DEF Assured
        <4>3. QED
          BY <3>3, <4>1, <4>2 DEF Goes
      <3>4. QED
        BY <1>1, <1>14, <3>2, <3>3 DEF Phase
    <2>4. CASE members[r.who][r.org] # "active"
      <3>1. PICK answer \in {"not_selected", "not_found"} : Goto(q, Answered(r, answer))
        BY <1>2, <1>17, <2>4 DEF FindMembership
      <3>2. /\ <<"live", "none">> \notin m /\ <<"active", "none">> \notin m
            /\ <<"apart", "none">> \notin m
        BY <1>3, <2>1 DEF Assured
      <3>3. Goes(Answered(r, answer), m)
        BY <3>1, <3>2, AnsweredGoes DEF Answer
      <3>4. QED
        BY <1>1, <1>15, <3>1, <3>3 DEF Answer
    <2>5. QED
      BY <2>3, <2>4
  <1>18. CASE FindOrganization(q)
    <2>1. r.phase = "organization" /\ r.call.kind \in {"resolve", "select"}
      BY <1>2, <1>18 DEF FindOrganization, RightPhase
    <2>2. /\ <<"live", "none">> \notin m /\ <<"active", "none">> \notin m
          /\ <<"apart", "none">> \notin m /\ <<"member", r.org>> \notin m
      BY <1>3, <2>1 DEF Assured
    <2>3. CASE r.org \notin organizations
      <3>1. Goto(q, Answered(r, "unavailable"))
        BY <1>2, <1>18, <2>3 DEF FindOrganization
      <3>2. Goes(Answered(r, "unavailable"), m)
        BY AnsweredGoes DEF Answer
      <3>3. QED
        BY <1>1, <1>15, <3>1, <3>2 DEF Answer
    <2>4. CASE r.org \in organizations /\ r.call.kind = "resolve"
      <3>1. Goto(q, Answered(r, "authenticated"))
        BY <1>2, <1>18, <2>4 DEF FindOrganization
      <3>2. Goes(Answered(r, "authenticated"), m)
        BY <1>7, <2>2, <2>4, AnsweredGoes DEF Answer
      <3>3. QED
        BY <1>1, <1>15, <3>1, <3>2 DEF Answer
    <2>5. CASE r.org \in organizations /\ r.call.kind = "select"
      <3>1. Goto(q, [r EXCEPT !.phase = "reserve"])
        BY <1>2, <1>18, <2>5 DEF FindOrganization
      <3>2. <<"open", r.org>> \notin m
        BY <1>7, <2>5
      <3>3. ASSUME NEW y \in Request, y.phase = "reserve", y.call = r.call,
                   y.org = r.org, y.who = r.who
            PROVE  Goes(y, m)
        <4>1. Stands(y)
          BY <1>3, <2>1, <2>5, <3>3 DEF Stands
        <4>2. Assured(y, m)
          BY <2>2, <2>5, <3>2, <3>3 DEF Assured
        <4>3. QED
          BY <3>3, <4>1, <4>2 DEF Goes
      <3>4. QED
        BY <1>1, <1>14, <3>1, <3>3 DEF Phase
    <2>6. QED
      BY <2>1, <2>3, <2>4, <2>5
  <1>19. CASE ListEnterable(q)
    <2>1. r.phase = "memberships" /\ r.call.kind = "enterable"
      BY <1>2, <1>19 DEF ListEnterable, RightPhase
    <2>2. s = r.who
      BY <1>3, <1>6, <2>1 DEF Stands
    <2>3. PICK set : set = {o \in Org : members[r.who][o] = "active"}
      OBVIOUS
    <2>4. PICK a \in Request : /\ a = Answered(r, "enterable") /\ a.phase = "done"
                               /\ a.answer = "enterable"
      BY AnsweredLemma DEF Answer
    <2>5. PICK y : y = [a EXCEPT !.set = set]
      OBVIOUS
    <2>6. y.phase = "done" /\ y.answer = "enterable" /\ y.set = set
      BY <2>4, <2>5 DEF Request
    <2>7. /\ <<"live", "none">> \notin m /\ <<"active", "none">> \notin m
          /\ <<"apart", "none">> \notin m
      BY <1>3, <2>1 DEF Assured
    <2>8. \A o \in set : <<"member", o>> \notin m
      BY <1>7, <2>2, <2>3
    <2>9. Relied(y) = {<<"live", "none">>, <<"active", "none">>, <<"apart", "none">>}
                         \cup ({"member"} \X set)
      BY <2>6 DEF Relied
    <2>10. Relied(y) \cap m = {}
      BY <2>7, <2>8, <2>9
    <2>11. Goes(y, m)
      BY <2>6, <2>10 DEF Goes, Stands, Assured
    <2>12. Goto(q, y)
      BY <1>2, <1>19, <2>3, <2>4, <2>5 DEF ListEnterable
    <2>13. QED
      BY <1>1, <1>9, <2>11, <2>12
  <1>20. CASE FindForLogout(q)
    <2>1. r.call.kind = "logout"
      BY <1>2, <1>20 DEF FindForLogout, RightPhase
    <2>2. CASE Goto(q, Answered(r, "cleared"))
      <3>1. Goes(Answered(r, "cleared"), m)
        BY AnsweredGoes DEF Answer
      <3>2. QED
        BY <1>1, <1>15, <2>2, <3>1 DEF Answer
    <2>3. CASE Goto(q, [r EXCEPT !.phase = "reserve", !.who = sessions[r.call.sid].by])
      <3>1. PICK who : who = sessions[r.call.sid].by
        OBVIOUS
      <3>2. PICK y : y = [r EXCEPT !.phase = "reserve", !.who = who]
        OBVIOUS
      <3>3. y.phase = "reserve" /\ y.call = r.call
        BY <3>2 DEF Request
      <3>4. Goes(y, m)
        BY <2>1, <3>3 DEF Goes, Stands, Assured
      <3>5. QED
        BY <1>1, <1>9, <2>3, <3>1, <3>2, <3>4
    <2>4. QED
      BY <1>2, <1>20, <2>2, <2>3 DEF FindForLogout
  <1>21. CASE FindOperator(q)
    <2>1. r.call.kind = "reset" /\ s = r.call.target
      BY <1>2, <1>5, <1>21 DEF FindOperator, RightPhase
    <2>2. CASE r.call.target \in operators
      <3>1. Goto(q, Refused(r, "forbidden"))
        BY <1>2, <1>21, <2>2 DEF FindOperator
      <3>2. QED
        BY <1>1, <1>8, <3>1 DEF Code
    <2>3. CASE r.call.target \notin operators
      <3>1. PICK y : y = [r EXCEPT !.phase = "credential", !.who = r.call.target]
        OBVIOUS
      <3>2. y.phase = "credential" /\ y.call = r.call /\ y.who = r.call.target
        BY <3>1 DEF Request
      <3>3. Goes(y, m)
        BY <1>7, <2>1, <2>3, <3>2 DEF Goes, Stands, Assured
      <3>4. Goto(q, y)
        BY <1>2, <1>21, <2>3, <3>1 DEF FindOperator
      <3>5. QED
        BY <1>1, <1>9, <3>3, <3>4
    <2>4. QED
      BY <2>2, <2>3
  <1>22. CASE FindCredential(q)
    <2>1. r.call.kind = "reset" /\ r.phase = "credential"
      BY <1>2, <1>22 DEF FindCredential, RightPhase
    <2>2. CASE Goto(q, Refused(r, "not_found"))
      BY <1>1, <1>8, <2>2 DEF Code
    <2>3. CASE Goto(q, [r EXCEPT !.phase = "list"])
      <3>1. ASSUME NEW y \in Request, y.phase = "list", y.call = r.call, y.who = r.who
            PROVE  Goes(y, m)
        BY <1>3, <2>1, <3>1 DEF Goes, Stands, Assured
      <3>2. QED
        BY <1>1, <1>14, <2>3, <3>1 DEF Phase
    <2>4. QED
      BY <1>2, <1>22, <2>2, <2>3 DEF FindCredential
  <1>23. CASE ListLive(q)
    <2>1. r.call.kind = "reset" /\ r.phase = "list"
      BY <1>2, <1>23 DEF ListLive, RightPhase
    <2>2. PICK listed, known, excused :
             Goto(q, [r EXCEPT !.phase = "reserve", !.set = listed,
                               !.known = known, !.excused = excused])
      BY <1>2, <1>23 DEF ListLive
    <2>3. PICK y : y = [r EXCEPT !.phase = "reserve", !.set = listed,
                                 !.known = known, !.excused = excused]
      OBVIOUS
    <2>4. y.phase = "reserve" /\ y.call = r.call /\ y.who = r.who
      BY <2>3 DEF Request
    <2>5. Goes(y, m)
      BY <1>3, <2>1, <2>4 DEF Goes, Stands, Assured
    <2>6. QED
      BY <1>1, <1>9, <2>2, <2>3, <2>5
  <1>24. CASE Reserve(q)
    <2>1. r.phase = "reserve" /\ r.call.kind \in {"login", "select", "logout", "reset"}
      BY <1>2, <1>24 DEF Reserve, RightPhase
    <2>2. CASE Goto(q, Refused(r, "quota_exceeded"))
      BY <1>1, <1>8, <2>2 DEF Code
    <2>3. CASE Goto(q, [r EXCEPT !.phase = WritePhase(r), !.expires = ExpiryOf(r)])
      <3>1. PICK phase, expires : phase = WritePhase(r) /\ expires = ExpiryOf(r)
        OBVIOUS
      <3>2. PICK y : y = [r EXCEPT !.phase = phase, !.expires = expires]
        OBVIOUS
      <3>3. /\ y.phase = phase /\ y.call = r.call /\ y.who = r.who /\ y.org = r.org
        BY <3>2 DEF Request
      <3>4. /\ r.call.kind = "login" => phase = "insert"
            /\ r.call.kind = "select" => phase = "update"
            /\ r.call.kind = "logout" => phase = "delete"
            /\ r.call.kind = "reset" => phase = "batch"
        BY <3>1 DEF WritePhase
      <3>5. Stands(y)
        BY <1>3, <2>1, <3>3, <3>4 DEF Stands
      <3>6. Assured(y, m)
        BY <1>3, <2>1, <3>3, <3>4 DEF Assured
      <3>7. Goes(y, m)
        BY <2>1, <3>3, <3>4, <3>5, <3>6 DEF Goes
      <3>8. QED
        BY <1>1, <1>9, <2>3, <3>1, <3>2, <3>7
    <2>4. QED
      BY <1>2, <1>24, <2>2, <2>3 DEF Reserve
  <1>25. CASE Insert(q) \/ Update(q) \/ Delete(q)
    <2>1. PICK answer \in {"issued", "selected", "cleared"} :
             /\ Wrote(q, answer)
             /\ answer = "issued" => r.phase = "insert" /\ r.call.kind = "login"
             /\ answer = "selected" => r.phase = "update" /\ r.call.kind = "select"
      BY <1>2, <1>25 DEF Insert, Update, Delete, RightPhase
    <2>2. PICK t : t = [r EXCEPT !.took = TRUE]
      OBVIOUS
    <2>3. t \in Request /\ t.org = r.org
      BY <2>2 DEF Request
    <2>4. CASE Goto(q, Refused(t, "unavailable"))
      BY <1>1, <1>8, <2>3, <2>4 DEF Code
    <2>5. CASE Goto(q, Answered(t, answer))
      <3>1. /\ answer = "selected" =>
                 /\ <<"live", "none">> \notin m /\ <<"active", "none">> \notin m
                 /\ <<"apart", "none">> \notin m
                 /\ <<"member", r.org>> \notin m /\ <<"open", r.org>> \notin m
            /\ answer = "issued" =>
                 /\ <<"key", "none">> \notin m /\ <<"active", "none">> \notin m
                 /\ <<"apart", "none">> \notin m
        BY <1>3, <2>1 DEF Assured
      <3>2. Goes(Answered(t, answer), m)
        BY <2>1, <2>3, <3>1, AnsweredGoes DEF Answer
      <3>3. QED
        BY <1>1, <2>5, <3>2 DEF Goto
    <2>6. QED
      BY <1>2, <2>1, <2>2, <2>4, <2>5 DEF Wrote
  <1>26. CASE Replace(q)
    <2>1. r.call.kind = "reset" /\ r.phase = "batch"
      BY <1>2, <1>26 DEF Replace, RightPhase
    <2>2. PICK excused : excused = r.excused \cup Verified(r.who) \cup (Of(r.who) \ r.known)
      OBVIOUS
    <2>3. PICK batch : batch = [r EXCEPT !.took = TRUE, !.known = {}, !.excused = excused]
      OBVIOUS
    <2>4. excused \subseteq Sid
      BY <1>2, <2>2 DEF Verified, Of, Request, Sid
    <2>5. batch \in Request /\ batch.call = r.call /\ batch.who = r.who
      BY <1>2, <2>3, <2>4 DEF Request
    <2>6. \/ Goto(q, [batch EXCEPT !.phase = "inform", !.set = {}])
          \/ Goto(q, Refused(batch, "unavailable"))
      BY <1>2, <1>26, <2>2, <2>3 DEF Replace
    <2>7. CASE Goto(q, [batch EXCEPT !.phase = "inform", !.set = {}])
      <3>1. PICK y : y = [batch EXCEPT !.phase = "inform", !.set = {}]
        OBVIOUS
      <3>2. y.phase = "inform" /\ y.call = r.call /\ y.who = r.who
        BY <2>5, <3>1 DEF Request
      <3>3. Goes(y, m)
        BY <1>3, <2>1, <3>2 DEF Goes, Stands, Assured
      <3>4. QED
        BY <1>1, <1>9, <2>7, <3>1, <3>3
    <2>8. QED
      BY <1>1, <1>8, <2>5, <2>6, <2>7 DEF Code
  <1>27. CASE Inform(q)
    <2>1. r.call.kind = "reset" /\ r.phase = "inform"
      BY <1>2, <1>27 DEF Inform, RightPhase
    <2>2. <<"tenant", "none">> \notin m /\ s = r.who
      BY <1>3, <1>5, <2>1 DEF Assured, Stands
    <2>3. CASE Goto(q, Answered(r, "reset"))
      <3>1. Goes(Answered(r, "reset"), m)
        BY <2>2, AnsweredGoes DEF Answer
      <3>2. QED
        BY <1>1, <1>15, <2>3, <3>1 DEF Answer
    <2>4. CASE Goto(q, [r EXCEPT !.phase = "tell", !.set = Enrolled(r.who)])
      <3>1. PICK set : set = Enrolled(r.who)
        OBVIOUS
      <3>2. PICK y : y = [r EXCEPT !.phase = "tell", !.set = set]
        OBVIOUS
      <3>3. y.phase = "tell" /\ y.call = r.call /\ y.who = r.who /\ y.set = set
        BY <3>2 DEF Request
      <3>4. \A o \in set : <<"enrolled", o>> \notin m
        BY <1>7, <2>2, <3>1
      <3>5. Goes(y, m)
        BY <1>3, <2>1, <2>2, <3>3, <3>4 DEF Goes, Stands, Assured
      <3>6. QED
        BY <1>1, <1>9, <2>4, <3>1, <3>2, <3>5
    <2>5. QED
      BY <1>2, <1>27, <2>3, <2>4 DEF Inform
  <1>28. CASE Tell(q)
    <2>1. r.call.kind = "reset" /\ r.phase = "tell"
      BY <1>2, <1>28 DEF Tell, RightPhase
    <2>2. PICK o : Goto(q, [r EXCEPT !.set = r.set \ {o}])
      BY <1>2, <1>28 DEF Tell
    <2>3. PICK y : y = [r EXCEPT !.set = r.set \ {o}]
      OBVIOUS
    <2>4. y.phase = "tell" /\ y.call = r.call /\ y.who = r.who /\ y.set \subseteq r.set
      BY <2>1, <2>3 DEF Request
    <2>5. Goes(y, m)
      BY <1>3, <2>1, <2>4 DEF Goes, Stands, Assured
    <2>6. QED
      BY <1>1, <1>9, <2>2, <2>3, <2>5
  <1>29. CASE ResetDone(q)
    <2>1. r.call.kind = "reset" /\ r.phase = "tell"
      BY <1>2, <1>29 DEF ResetDone, RightPhase
    <2>2. Goes(Answered(r, "reset"), m)
      BY <1>3, <2>1, AnsweredGoes DEF Assured, Answer
    <2>3. QED
      BY <1>1, <1>2, <1>15, <1>29, <2>2 DEF ResetDone, Answer
  <1>30. CASE CallFails(q)
    BY <1>1, <1>2, <1>8, <1>30 DEF CallFails, Code
  <1>31. QED
    BY <1>11, <1>12, <1>13, <1>16, <1>17, <1>18, <1>19, <1>20, <1>21, <1>22, <1>23,
       <1>24, <1>25, <1>26, <1>27, <1>28, <1>29, <1>30 DEF Step

\* What each request misses after a step is not so then, and was missed before.
LEMMA Misses ==
    ASSUME MissingNext, NEW q \in Req
    PROVE  /\ missing'[q] \subseteq NotSo(req[q].call)'
           /\ req[q].phase # "idle" => missing'[q] \subseteq missing[q]
           /\ req'[q].phase = "idle" => missing'[q] = {}
  BY DEF MissingNext

LEMMA EachMisses ==
    ASSUME [Next]_vars, Current, NEW q \in Req
    PROVE  /\ missing'[q] \subseteq NotSo(req[q].call)'
           /\ req[q].phase # "idle" => missing'[q] \subseteq missing[q]
           /\ req'[q].phase = "idle" => missing'[q] \subseteq missing[q]
  <1>1. CASE UNCHANGED vars
    <2>1. UNCHANGED <<clock, sessions, keys, principals, operators, members,
                      organizations, req, missing>>
      BY <1>1 DEF vars, standing
    <2>2. missing[q] \subseteq NotSo(req[q].call)
      BY DEF Current
    <2>3. NotSo(req[q].call)' = NotSo(req[q].call)
      BY <2>1 DEF NotSo, Relevant, IsSo, Live, Stored, Subject, Verifier, InBothTables,
         Enrolled
    <2>4. QED
      BY <2>1, <2>2, <2>3
  <1>2. CASE Next
    <2>1. ASSUME NEW p \in Req, Step(p) PROVE MissingNext
      BY <2>1 DEF Step, Ask, Verify, FindSession, FindPrincipal, FindMembership,
         FindOrganization, ListEnterable, FindForLogout, FindOperator, FindCredential,
         ListLive, Reserve, Insert, Update, Delete, Replace, Inform, Tell, ResetDone,
         CallFails
    <2>2. MissingNext
      BY <1>2, <2>1 DEF Next, Tick, Administer
    <2>3. QED
      BY <2>2, Misses
  <1>3. QED
    BY <1>1, <1>2

\* A request that enters has read nothing.
LEMMA Enters ==
    ASSUME IInv, NEW q \in Req, Step(q), req[q].phase = "idle", NEW m
    PROVE  Assured(req'[q], m)
  <1>1. Ask(q)
    BY DEF Step, Ask, Verify, FindSession, FindPrincipal, FindMembership,
       FindOrganization, ListEnterable, FindForLogout, FindOperator, FindCredential,
       ListLive, Reserve, Insert, Update, Delete, Replace, Inform, Tell, ResetDone,
       CallFails
  <1>2. PICK c \in Call, at \in {clock, 0} : Goto(q, [Idle EXCEPT !.phase = EntryPhase[c.kind],
                                         !.call = c, !.at = at])
    BY <1>1, SessionsAssumption DEF Ask
  <1>3. PICK phase : phase = EntryPhase[c.kind]
    OBVIOUS
  <1>4. phase \in {"verify", "session", "find", "operator"}
    BY <1>3, CallLemma DEF EntryPhase
  <1>5. PICK y : y = [Idle EXCEPT !.phase = phase, !.call = c, !.at = at]
    OBVIOUS
  <1>6. y.phase = phase
    BY <1>5, IdleType DEF Request
  <1>7. req' = [req EXCEPT ![q] = y] /\ req \in [Req -> Request]
    BY <1>2, <1>3, <1>5 DEF Goto, IInv, TypeInv, TypeOK
  <1>8. req'[q] = y
    BY <1>7
  <1>9. QED
    BY <1>4, <1>6, <1>8 DEF Assured

\* Whom a request is about stays the same while it waits, and what it does not
\* miss it goes on not to miss.
LEMMA StandsStays ==
    ASSUME IInv, [Next]_vars, NEW x \in Request, Stands(x)
    PROVE  Stands(x)'
  <1>1. \A s \in Sid : sessions[s].state # "unopened" =>
           sessions'[s].state # "unopened" /\ sessions'[s].by = sessions[s].by
    BY OpenedStays
  <1>2. x.call.kind \in {"resolve", "principal", "enterable", "select"} => x.call.sid \in Sid
    <2>1. x.call.kind # "none" => x.call \in Call
      BY RequestCall
    <2>2. QED
      BY <2>1, CallLemma
  <1>3. QED
    BY <1>1, <1>2 DEF Stands

LEMMA AssuredStays ==
    ASSUME NEW x, NEW m, NEW n, n \subseteq m, Assured(x, m)
    PROVE  Assured(x, n)
  BY DEF Assured

\* Whom a record reaches by a step of q.
LEMMA TellsWho ==
    ASSUME IInv, NEW q \in Req, Step(q), NEW t \in told' \ told
    PROVE  req[q].phase = "tell" /\ \E o \in req[q].set : t = <<o, q>>
  <1>1. Tell(q)
    BY DEF Step, Ask, Verify, FindSession, FindPrincipal, FindMembership,
       FindOrganization, ListEnterable, FindForLogout, FindOperator, FindCredential,
       ListLive, Reserve, Insert, Update, Delete, Replace, Inform, ResetDone, CallFails
  <1>2. QED
    BY <1>1 DEF Tell

\* The assurance is kept by every step, and whatever is answered relies on it.
LEMMA AssuranceStep ==
    ASSUME IInv, IInv', EachCarries, Assurance, [Next]_vars
    PROVE  Assurance' /\ RelyStep
  <1>1. req \in [Req -> Request] /\ req' \in [Req -> Request]
    BY DEF IInv, TypeInv, TypeOK
  <1>2. Current'
    <2>1. \A q \in Req : missing'[q] \subseteq NotSo(req[q].call)'
      BY EachMisses DEF Assurance
    <2>2. QED
      BY <2>1 DEF Current
  <1>3. ASSUME NEW q \in Req, req'[q] = req[q]
        PROVE  Stands(req'[q]) /\ Assured(req'[q], missing'[q])
    <2>1. missing'[q] \subseteq missing[q]
      BY <1>3, EachMisses DEF Assurance
    <2>2. Stands(req[q]) /\ Assured(req[q], missing[q])
      BY DEF Assurance
    <2>3. QED
      BY <1>3, <2>1, <2>2, AssuredStays
  <1>4. ASSUME NEW q \in Req, Step(q)
        PROVE  /\ \A l \in Req : Stands(req'[l]) /\ Assured(req'[l], missing'[l])
               /\ RelyStep
    <2>1. PICK y : req' = [req EXCEPT ![q] = y] /\ Goes(y, missing[q])
      BY <1>4, OwnGoes
    <2>2. req'[q] = y /\ \A l \in Req \ {q} : req'[l] = req[l]
      BY <1>1, <2>1
    <2>3. Assured(y, missing'[q])
      <3>1. CASE req[q].phase = "idle"
        BY <1>4, <2>2, <3>1, Enters
      <3>2. CASE req[q].phase # "idle"
        <4>1. missing'[q] \subseteq missing[q]
          BY <3>2, EachMisses DEF Assurance
        <4>2. QED
          BY <2>1, <4>1, AssuredStays DEF Goes
      <3>3. QED
        BY <3>1, <3>2
    <2>4. \A l \in Req : Stands(req'[l]) /\ Assured(req'[l], missing'[l])
      BY <1>3, <2>1, <2>2, <2>3 DEF Goes
    <2>5. ASSUME NEW l \in Req, req[l].phase # "done", req'[l].phase = "done"
          PROVE  Relied(req'[l]) \cap missing[l] = {}
      <3>1. l = q
        BY <2>2, <2>5
      <3>2. QED
        BY <2>1, <2>2, <2>5, <3>1 DEF Goes
    <2>6. ASSUME NEW l \in Req, NEW o \in Org, <<o, l>> \in told' \ told
          PROVE  <<"enrolled", o>> \notin missing[l]
      <3>1. req[q].phase = "tell" /\ l = q /\ o \in req[q].set
        BY <1>4, <2>6, TellsWho
      <3>2. Assured(req[q], missing[q])
        BY DEF Assurance
      <3>3. QED
        BY <3>1, <3>2 DEF Assured
    <2>7. RelyStep
      BY <2>5, <2>6 DEF RelyStep
    <2>8. QED
      BY <2>4, <2>7
  <1>5. ASSUME UNCHANGED <<req, told>>
        PROVE  /\ \A l \in Req : Stands(req'[l]) /\ Assured(req'[l], missing'[l])
               /\ RelyStep
    <2>1. \A l \in Req : Stands(req'[l]) /\ Assured(req'[l], missing'[l])
      BY <1>3, <1>5
    <2>2. RelyStep
      BY <1>5 DEF RelyStep
    <2>3. QED
      BY <2>1, <2>2
  <1>6. (\A l \in Req : Stands(req'[l]) /\ Assured(req'[l], missing'[l])) /\ RelyStep
    <2>1. UNCHANGED <<req, told>> \/ \E q \in Req : Step(q)
      BY DEF Next, Tick, Administer, vars
    <2>2. QED
      BY <1>4, <1>5, <2>1
  <1>7. ASSUME NEW l \in Req PROVE Stands(req[l])' /\ Assured(req[l], missing[l])'
    <2>1. PICK x \in Request : x = req'[l]
      BY <1>1
    <2>2. Stands(x)
      BY <1>6, <2>1
    <2>3. Stands(x)'
      BY <2>2, StandsStays
    <2>4. Stands(req[l])'
      BY <2>1, <2>3 DEF Stands
    <2>5. Assured(req'[l], missing'[l])
      BY <1>6
    <2>6. QED
      BY <2>4, <2>5
  <1>8. QED
    BY <1>2, <1>6, <1>7 DEF Assurance

LEMMA InitAssurance == Init => Assurance
  <1> SUFFICES ASSUME Init PROVE Assurance
    OBVIOUS
  <1>1. \A q \in Req : req[q].phase = "idle" /\ missing[q] = {}
    BY DEF Init, Idle
  <1>2. QED
    BY <1>1 DEF Assurance, Current, Stands, Assured

\* No answer, and no record, rests on something that was so at no moment since
\* its request began, for any requests, principals and Organizations and however
\* others change them between two reads (liveSession, validateHint, resolve,
\* issueSession, reset, recordInOrganization).
THEOREM AnswersAreTrue == Spec => AnswersWereTrue
  <1>1. IInv /\ IInv' /\ EachCarries /\ [Next]_vars => EachCarries'
    BY CarriedStep
  <1>2. IInv /\ IInv' /\ EachCarries /\ Assurance /\ [Next]_vars => Assurance' /\ RelyStep
    BY AssuranceStep
  <1>3. Init => EachCarries /\ Assurance
    BY LivesInit, InitAssurance
  <1>4. QED
    BY <1>1, <1>2, <1>3, Invariance, PTL DEF Spec, AnswersWereTrue
=============================================================================
