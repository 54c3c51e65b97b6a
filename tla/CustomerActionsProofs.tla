----------------------- MODULE CustomerActionsProofs -----------------------
(* Columns, answers, evidence, tenants and listings of the customers App,    *)
(* for any customers, principals, bodies and number of requests.             *)
EXTENDS CustomerActions, TLAPS

\* The businesses p is authorized over.
ScopeOf(p) == IF Assigned[p] = OrgWide THEN Business ELSE Assigned[p]

\* A customer of the Organization.
Own(c) == c \in DOMAIN table /\ table[c].org = "own"

\* What request q in state r has put together for its batch.
Proposed(q, r) ==
    /\ Writes(r.input.op) /\ ~ r.degraded
    /\ r.set = AskedFor(r.input)
    /\ r.entry \in Entry /\ r.entry.by = q
    /\ r.entry.customer = IF r.input.op = "create" THEN NewId[q] ELSE r.input.target
    /\ r.input.op \in {"create", "move"} => r.input.asked["business"] \in Business
    /\ r.input.op # "create" => Own(r.input.target)

\* How a request in state r is judged: by what answer, on what evidence.
Judged(r) ==
    /\ r.phase \notin {"denying", "done"} => r.answer = "none"
    /\ r.phase # "done" => r.evidence = "none"
    /\ r.phase = "denying" =>
          AuditsOnDenial(r.input.op) /\ r.answer \in DenialReason
    /\ r.phase = "done" =>
          (r.evidence # "none"
             <=> AuditsOnDenial(r.input.op) /\ r.answer \in DenialReason)

\* What a request in state r, with walk w, tells of another Organization.
Isolated(r, w) ==
    \A c \in DOMAIN table : table[c].org = "other" =>
        /\ w.shown[c] = 0
        /\ (r.input.target = c /\ authorize(r.by, r.input.op)) =>
              r.answer \notin {"ok", "forbidden"}

\* The key of the cursor, as it is or as it was read; and what it is past.
CursorKey(r) == IF r.phase = "page" THEN r.key ELSE table[r.cursor].name
Past(r, c) ==
    \/ table[c].name < CursorKey(r)
    \/ table[c].name = CursorKey(r) /\ c <= r.cursor

\* The pages of a request in state r, with walk w: those it selected all along
\* were shown once up to the cursor and not yet after it.
Walking(r, w) ==
    /\ r.cursor # 0 => r.cursor \in DOMAIN table
    /\ (r.cursor = 0 /\ r.phase # "done") => \A c \in Customer : w.shown[c] = 0
    /\ r.phase = "paged" => r.cursor # 0 /\ r.bound = r.input
    /\ (r.phase = "page" /\ r.cursor # 0) => r.bound = r.input /\ r.key \in Name
    /\ (r.cursor # 0 /\ w.anchored /\ r.bound = r.input) =>
          \A c \in w.steady : /\ c \in DOMAIN table /\ Selects(r, table[c])
                              /\ w.shown[c] = IF Past(r, c) THEN 1 ELSE 0
    /\ (r.phase = "done" /\ r.answer = "ok" /\ Collects(r.input.op) /\ w.anchored)
          => \A c \in w.steady : w.shown[c] = 1

\* What is known of request q, being in state r with walk w.
Sound(q, r, w) ==
    /\ r.phase # "idle" => r.by \in Principal /\ r.input \in Input
    /\ r.phase = "idle" => r.cursor = 0 /\ r.input = NoBody
    /\ (r.phase \in {"anchor", "page", "paged"} \/ r.cursor # 0) =>
          Collects(r.input.op)
    /\ r.phase \in {"store", "businesses", "handle", "anchor", "page", "reserving",
                    "writing"} => authorize(r.by, r.input.op)
    /\ (r.phase \in {"handle", "anchor", "page", "reserving", "writing"}
          \/ r.cursor # 0) => r.scope = ScopeOf(r.by)
    /\ r.phase = "businesses" => Assigned[r.by] = OrgWide
    /\ r.phase \in {"denying", "done"} => r.cursor = 0
    /\ r.phase \in {"reserving", "writing"} => Proposed(q, r)
    /\ NewId[q] \in DOMAIN table => r.phase = "done"
    /\ Judged(r) /\ Isolated(r, w) /\ Walking(r, w)

EachSound == \A q \in Req : Sound(q, req[q], walk[q])

\* The trail names requests that are done, each once, and own customers; and
\* a write that was told ok is in it.
Trail ==
    /\ \A i \in DOMAIN audit :
          /\ req[audit[i].by].phase = "done" /\ ~ req[audit[i].by].degraded
          /\ req[audit[i].by].answer \in {"ok", "unavailable"}
          /\ Own(audit[i].customer)
    /\ \A i, j \in DOMAIN audit : audit[i].by = audit[j].by => i = j
    /\ \A q \in Req :
          (req[q].phase = "done" /\ req[q].answer = "ok" /\ Writes(req[q].input.op))
          => \E i \in DOMAIN audit : audit[i].by = q

IInv == TypeOK /\ EachSound /\ Trail /\ LastAskedStands

-----------------------------------------------------------------------------
\* Bodies and records.

LEMMA BodyLemma ==
    ASSUME NEW i \in Input
    PROVE  /\ i.op \in Op /\ i.target \in Customer \cup {0}
           /\ ~ NamesCustomer(i.op) => i.target = 0
           /\ Collects(i.op) => /\ i.asked.within \in Business \cup {Outside, OrgWide}
                                /\ i.asked.statuses \subseteq Status
           /\ i.op \in {"create", "move"} => i.asked["business"] \in Business \cup {Outside}
  <1>1. i \in Body
    BY CustomerActionsAssumption
  <1>2. QED
    BY <1>1 DEF Body, Op, NamesCustomer, Collects

LEMMA IdleType == Idle \in Request /\ NoBody.op = "none" /\ NoBody.target = 0
  BY DEF Idle, Request, Phase, Answer, NoBody, NoRow, NoEntry, Nothing

\* An update sets columns to what they may hold.
LEMMA WriteLemma ==
    ASSUME NEW i \in Input, i.op \in {"update", "archive", "restore", "move"},
           NEW row \in Row
    PROVE  /\ write(row, AskedFor(i)) \in Row
           /\ write(row, AskedFor(i)).org = row.org
           /\ write(row, AskedFor(i)).business
                 = IF i.op = "move" THEN i.asked["business"] ELSE row.business
  <1>1. i \in Body
    BY CustomerActionsAssumption
  <1>2. CASE i.op = "archive"
    <2>1. AskedFor(i) = [status |-> "archived"]
      BY <1>2 DEF AskedFor
    <2>2. QED
      BY <1>2, <2>1 DEF write, Column, Row, Status
  <1>3. CASE i.op = "restore"
    <2>1. AskedFor(i) = [status |-> "active"]
      BY <1>3 DEF AskedFor
    <2>2. QED
      BY <1>3, <2>1 DEF write, Column, Row, Status
  <1>4. CASE i.op = "move"
    <2>1. AskedFor(i) = i.asked /\ i.asked \in [business : Business \cup {Outside}]
      BY <1>1, <1>4 DEF AskedFor, Body
    <2>2. QED
      BY <1>4, <2>1 DEF write, Column, Row
  <1>5. CASE i.op = "update"
    <2>1. AskedFor(i) = i.asked
      BY <1>5 DEF AskedFor
    <2>2. \/ i.asked \in [name : Name] \/ i.asked \in [mail : Mail]
          \/ i.asked \in [name : Name, mail : Mail]
      BY <1>1, <1>5 DEF Body
    <2>3. CASE i.asked \in [name : Name]
      BY <1>5, <2>1, <2>3 DEF write, Column, Row
    <2>4. CASE i.asked \in [mail : Mail]
      BY <1>5, <2>1, <2>4 DEF write, Column, Row
    <2>5. CASE i.asked \in [name : Name, mail : Mail]
      BY <1>5, <2>1, <2>5 DEF write, Column, Row
    <2>6. QED
      BY <2>2, <2>3, <2>4, <2>5
  <1>6. QED
    BY <1>2, <1>3, <1>4, <1>5

\* A new row is one.
LEMMA CreateLemma ==
    ASSUME NEW i \in Input, i.op = "create"
    PROVE  /\ AskedFor(i) \in Row /\ AskedFor(i).org = "own"
           /\ AskedFor(i).business = i.asked["business"]
  <1>1. i \in Body
    BY CustomerActionsAssumption
  <1>2. QED
    BY <1>1 DEF Body, AskedFor, Row, Status

LEMMA AnsweredLemma ==
    ASSUME NEW r \in Request, NEW answer \in Answer,
           NEW evidence \in {"none", "recorded", "announced"}
    PROVE  LET y == Answered(r, answer, evidence) IN
           /\ y \in Request /\ y.phase = "done" /\ y.by = r.by /\ y.input = r.input
           /\ y.degraded = r.degraded /\ y.answer = answer /\ y.evidence = evidence
           /\ y.cursor = 0
  <1>1. PICK idle \in Request : idle = Idle /\ idle.cursor = 0
    BY IdleType DEF Idle
  <1>2. PICK y : y = [idle EXCEPT !.phase = "done", !.by = r.by, !.input = r.input,
                                  !.degraded = r.degraded,
                                  !.answer = answer, !.evidence = evidence]
    OBVIOUS
  <1>3. /\ r.by \in Principal \cup {OrgWide} /\ r.input \in Input \cup {NoBody}
        /\ r.degraded \in BOOLEAN /\ "done" \in Phase
    BY DEF Request, Phase
  <1>4. y \in Request
    BY <1>2, <1>3 DEF Request
  <1>5. /\ y.phase = "done" /\ y.by = r.by /\ y.input = r.input
        /\ y.degraded = r.degraded /\ y.answer = answer /\ y.evidence = evidence
        /\ y.cursor = 0
    BY <1>1, <1>2 DEF Request
  <1>6. QED
    BY <1>1, <1>2, <1>4, <1>5 DEF Answered

\* The codes with which a request fails.
Code == {"forbidden", "not_found", "invalid_argument", "failed_precondition",
         "rate_limited", "quota_exceeded", "unavailable"}

LEMMA FailLemma ==
    ASSUME NEW r \in Request, NEW code \in Code
    PROVE  LET y == fail(r, code) IN
           /\ y \in Request /\ y.by = r.by /\ y.input = r.input /\ y.answer = code
           /\ y.degraded = r.degraded
           /\ \/ /\ y.phase = "done" /\ y.cursor = 0
                 /\ y.evidence # "none"
                       <=> AuditsOnDenial(r.input.op) /\ code \in DenialReason
              \/ /\ y.phase = "denying" /\ y.cursor = r.cursor
                 /\ y.evidence = r.evidence
                 /\ AuditsOnDenial(r.input.op) /\ code \in DenialReason
  <1>1. code \in Answer
    BY DEF Code, Answer, DenialReason
  <1>2. CASE ~ (AuditsOnDenial(r.input.op) /\ code \in DenialReason)
    <2>1. fail(r, code) = Answered(r, code, "none")
      BY <1>2 DEF fail
    <2>2. QED
      BY <1>1, <1>2, <2>1, AnsweredLemma
  <1>3. CASE /\ AuditsOnDenial(r.input.op) /\ code \in DenialReason
             /\ r.degraded
    <2>1. PICK y : y = fail(r, code)
      OBVIOUS
    <2>2. y = Answered(r, code, "announced")
      BY <1>3, <2>1 DEF fail
    <2>3. /\ y \in Request /\ y.phase = "done" /\ y.by = r.by /\ y.input = r.input
          /\ y.degraded = r.degraded /\ y.answer = code /\ y.evidence = "announced"
          /\ y.cursor = 0
      BY <1>1, <2>2, AnsweredLemma
    <2>4. QED
      BY <1>3, <2>1, <2>3
  <1>4. CASE /\ AuditsOnDenial(r.input.op) /\ code \in DenialReason
             /\ ~ r.degraded
    <2>1. fail(r, code) = [r EXCEPT !.phase = "denying", !.answer = code]
      BY <1>4 DEF fail
    <2>2. PICK y : y = [r EXCEPT !.phase = "denying", !.answer = code]
      OBVIOUS
    <2>3. /\ y \in Request /\ y.by = r.by /\ y.input = r.input /\ y.answer = code
          /\ y.degraded = r.degraded /\ y.phase = "denying" /\ y.cursor = r.cursor
          /\ y.evidence = r.evidence
      BY <1>1, <2>2 DEF Request, Phase
    <2>4. QED
      BY <1>4, <2>1, <2>2, <2>3
  <1>5. QED
    BY <1>2, <1>3, <1>4

-----------------------------------------------------------------------------
\* Steps of one request that leave the tables alone.

\* What is sound of a request stays so while the table does.
LEMMA SoundSame ==
    ASSUME UNCHANGED table, NEW q, NEW r, NEW w, Sound(q, r, w)
    PROVE  Sound(q, r, w)'
  BY DEF Sound, Proposed, Judged, Isolated, Walking, Past, CursorKey, Own

\* Request q becomes y, its walk v, and nothing else happens.
LEMMA Becomes ==
    ASSUME IInv, NEW q \in Req, NEW y \in Request, NEW v \in Walk,
           req' = [req EXCEPT ![q] = y], walk' = [walk EXCEPT ![q] = v],
           UNCHANGED <<table, audit, wanted>>, faults' \in Nat,
           req[q].phase # "done", Sound(q, y, v),
           ~ (y.phase = "done" /\ y.answer = "ok" /\ Writes(y.input.op))
    PROVE  IInv'
  <1>1. req \in [Req -> Request] /\ walk \in [Req -> Walk]
    BY DEF IInv, TypeOK
  <1>2. /\ req'[q] = y /\ walk'[q] = v
        /\ \A l \in Req \ {q} : req'[l] = req[l] /\ walk'[l] = walk[l]
    BY <1>1
  <1>3. TypeOK'
    BY <1>1 DEF IInv, TypeOK
  <1>4. EachSound'
    <2>1. ASSUME NEW l \in Req PROVE Sound(l, req[l], walk[l])'
      <3>1. PICK r, w : r = req'[l] /\ w = walk'[l] /\ Sound(l, r, w)
        BY <1>2 DEF IInv, EachSound
      <3>2. Sound(l, r, w)'
        BY <3>1, SoundSame
      <3>3. QED
        BY <3>1, <3>2 DEF Sound, Proposed, Judged, Isolated, Walking, Past, CursorKey, Own
    <2>2. QED
      BY <2>1 DEF EachSound
  <1>5. Trail'
    <2>1. \A i \in DOMAIN audit : audit[i] \in Entry
      BY DEF IInv, TypeOK
    <2>2. \A i \in DOMAIN audit : audit[i].by \in Req \ {q}
      BY <2>1 DEF IInv, Trail, Entry
    <2>3. QED
      BY <1>2, <2>2 DEF IInv, Trail, Own
  <1>6. QED
    BY <1>3, <1>4, <1>5 DEF IInv, LastAskedStands

\* What is known of request q before it moves.
LEMMA Known ==
    ASSUME IInv, NEW q \in Req
    PROVE  /\ req[q] \in Request /\ walk[q] \in Walk /\ Sound(q, req[q], walk[q])
           /\ walk' = walk => walk' = [walk EXCEPT ![q] = walk[q]]
  BY DEF IInv, TypeOK, EachSound

LEMMA FaultLemma ==
    ASSUME IInv
    PROVE  Fault \/ UNCHANGED faults => faults' \in Nat
  BY DEF IInv, TypeOK, Fault

\* Request q, being as good as r, fails.
LEMMA Fails ==
    ASSUME IInv, NEW q \in Req, NEW r \in Request, NEW code \in Code,
           Goto(q, fail(r, code)), UNCHANGED <<table, audit, walk, wanted>>,
           Fault \/ UNCHANGED faults, req[q].phase # "done",
           r.by \in Principal, r.input \in Input, r.evidence = "none",
           r.cursor = 0 \/ Collects(r.input.op),
           r.cursor = 0 => req[q].cursor = 0,
           (code = "forbidden" /\ authorize(r.by, r.input.op))
             => r.input.target \notin DOMAIN table \/ Own(r.input.target)
    PROVE  IInv'
  <1>1. PICK y \in Request : y = fail(r, code)
    BY FailLemma
  <1>2. /\ y.by = r.by /\ y.input = r.input /\ y.answer = code
        /\ \/ /\ y.phase = "done" /\ y.cursor = 0
              /\ y.evidence # "none"
                    <=> AuditsOnDenial(r.input.op) /\ code \in DenialReason
           \/ /\ y.phase = "denying" /\ y.cursor = r.cursor
              /\ y.evidence = r.evidence
              /\ AuditsOnDenial(r.input.op) /\ code \in DenialReason
    BY <1>1, FailLemma
  <1>3. PICK v \in Walk : v = walk[q]
    BY Known
  <1>4. PICK x \in Request : x = req[q] /\ Sound(q, x, v)
    BY <1>3, Known
  <1>5. Judged(y)
    BY <1>2 DEF Judged
  <1>6. y.cursor = 0
    BY <1>2 DEF AuditsOnDenial
  <1>7. y.answer # "ok"
    BY <1>2 DEF Code
  <1>8. Isolated(y, v)
    <2>1. ASSUME NEW c \in DOMAIN table, table[c].org = "other"
          PROVE  /\ v.shown[c] = 0
                 /\ (y.input.target = c /\ authorize(y.by, y.input.op)) =>
                       y.answer \notin {"ok", "forbidden"}
      BY <1>2, <1>4, <1>7, <2>1 DEF Sound, Isolated, Own
    <2>2. QED
      BY <2>1 DEF Isolated
  <1>9. Walking(y, v)
    <2>1. y.phase # "done" => \A c \in Customer : v.shown[c] = 0
      BY <1>2, <1>4 DEF Sound, Walking, AuditsOnDenial
    <2>2. QED
      BY <1>2, <1>6, <1>7, <2>1 DEF Walking
  <1>10. NewId[q] \notin DOMAIN table
    BY <1>4 DEF Sound
  <1>11. Sound(q, y, v)
    BY <1>2, <1>5, <1>6, <1>8, <1>9, <1>10 DEF Sound
  <1>12. req' = [req EXCEPT ![q] = y] /\ walk' = [walk EXCEPT ![q] = v]
    BY <1>1, <1>3, Known DEF Goto
  <1>13. QED
    BY <1>7, <1>11, <1>12, FaultLemma, Becomes

\* Request q itself fails.
LEMMA FailsNow ==
    ASSUME IInv, NEW q \in Req, NEW code \in Code, Goto(q, fail(req[q], code)),
           UNCHANGED <<table, audit, walk, wanted>>, Fault \/ UNCHANGED faults,
           req[q].phase \notin {"idle", "denying", "done"},
           code = "forbidden" => \/ req[q].input.target \notin DOMAIN table
                                 \/ Own(req[q].input.target)
    PROVE  IInv'
  <1>1. PICK r \in Request : r = req[q] /\ Sound(q, r, walk[q])
    BY Known
  <1>2. /\ r.by \in Principal /\ r.input \in Input /\ r.evidence = "none"
        /\ r.cursor = 0 \/ Collects(r.input.op)
    BY <1>1 DEF Sound, Judged
  <1>3. QED
    BY <1>1, <1>2, Fails

\* A request that is admitted, or not, having been idle or about to ask for
\* the next page.
LEMMA AdmittedLemma ==
    ASSUME IInv, NEW q \in Req, NEW r \in Request, NEW admission \in Admission,
           Goto(q, Admitted(r, admission)),
           UNCHANGED <<table, audit, walk, wanted>>, Fault \/ UNCHANGED faults,
           req[q].phase \in {"idle", "paged"},
           r.by \in Principal, r.input \in Input,
           r.answer = "none", r.evidence = "none", r.cursor = req[q].cursor,
           r.cursor # 0 => /\ Collects(r.input.op) /\ r.by = req[q].by
                           /\ r.scope = req[q].scope /\ r.bound = req[q].bound
    PROVE  IInv'
  <1>1. r.cursor = 0 \/ Collects(r.input.op)
    OBVIOUS
  <1>2. r.cursor = 0 => req[q].cursor = 0
    OBVIOUS
  <1>3. req[q].phase # "done"
    OBVIOUS
  <1>4. CASE ~ authorize(r.by, r.input.op)
    <2>1. Goto(q, fail(r, "forbidden")) /\ "forbidden" \in Code
      BY <1>4 DEF Admitted, Code
    <2>2. QED
      BY <1>1, <1>2, <1>3, <1>4, <2>1, Fails
  <1>5. CASE /\ authorize(r.by, r.input.op)
             /\ NamesCustomer(r.input.op) /\ r.input.target \notin Customer
    <2>1. Goto(q, fail(r, "invalid_argument")) /\ "invalid_argument" \in Code
      BY <1>5 DEF Admitted, Code
    <2>2. QED
      BY <1>1, <1>2, <1>3, <2>1, Fails
  <1>6. CASE /\ authorize(r.by, r.input.op)
             /\ ~ (NamesCustomer(r.input.op) /\ r.input.target \notin Customer)
             /\ admission = "rate_limited"
    <2>1. Goto(q, fail(r, "rate_limited")) /\ "rate_limited" \in Code
      BY <1>6 DEF Admitted, Code
    <2>2. QED
      BY <1>1, <1>2, <1>3, <2>1, Fails
  <1>7. CASE /\ authorize(r.by, r.input.op)
             /\ ~ (NamesCustomer(r.input.op) /\ r.input.target \notin Customer)
             /\ admission # "rate_limited"
    <2>1. PICK y : y = [r EXCEPT !.phase = "store"]
      OBVIOUS
    <2>2. /\ y \in Request /\ y.phase = "store" /\ y.by = r.by /\ y.input = r.input
          /\ y.answer = "none" /\ y.evidence = "none" /\ y.cursor = r.cursor
          /\ y.scope = r.scope /\ y.bound = r.bound
      BY <2>1 DEF Request, Phase
    <2>3. PICK v \in Walk : v = walk[q]
      BY Known
    <2>4. PICK x \in Request : x = req[q] /\ Sound(q, x, v)
      BY <2>3, Known
    <2>5. Judged(y)
      BY <2>2 DEF Judged
    <2>6. Isolated(y, v)
      BY <2>2, <2>4 DEF Sound, Isolated
    <2>7. Walking(y, v)
      <3>1. y.cursor = x.cursor
        BY <2>2, <2>4
      <3>2. y.cursor # 0 => y.cursor \in DOMAIN table
        BY <2>4, <3>1 DEF Sound, Walking
      <3>3. y.cursor = 0 => \A c \in Customer : v.shown[c] = 0
        BY <2>4, <3>1 DEF Sound, Walking
      <3>4. ASSUME y.cursor # 0, v.anchored, y.bound = y.input, NEW c \in v.steady
            PROVE  /\ c \in DOMAIN table /\ Selects(y, table[c])
                   /\ v.shown[c] = IF Past(y, c) THEN 1 ELSE 0
        <4>1. x.phase = "paged" /\ x.bound = x.input
          BY <2>4, <3>1, <3>4 DEF Sound, Walking
        <4>2. y.input = x.input /\ y.scope = x.scope
          BY <2>2, <2>4, <3>4, <4>1
        <4>3. /\ c \in DOMAIN table /\ Selects(x, table[c])
              /\ v.shown[c] = IF Past(x, c) THEN 1 ELSE 0
          BY <2>4, <3>1, <3>4, <4>1 DEF Sound, Walking
        <4>4. Past(y, c) <=> Past(x, c)
          BY <2>2, <3>1, <4>1 DEF Past, CursorKey
        <4>5. QED
          BY <4>2, <4>3, <4>4 DEF Selects, businessIds
      <3>5. QED
        BY <2>2, <3>2, <3>3, <3>4 DEF Walking
    <2>8. NewId[q] \notin DOMAIN table
      BY <2>4 DEF Sound
    <2>9. y.cursor # 0 => y.scope = ScopeOf(y.by)
      BY <2>2, <2>4 DEF Sound
    <2>10. Sound(q, y, v)
      BY <1>1, <1>7, <2>2, <2>5, <2>6, <2>7, <2>8, <2>9 DEF Sound
    <2>11. req' = [req EXCEPT ![q] = y] /\ walk' = [walk EXCEPT ![q] = v]
      BY <1>7, <2>1, <2>3, Known DEF Goto, Admitted
    <2>12. QED
      BY <1>3, <2>2, <2>10, <2>11, FaultLemma, Becomes
  <1>8. QED
    BY <1>4, <1>5, <1>6, <1>7

LEMMA BeginLemma ==
    ASSUME IInv, NEW q \in Req, Begin(q)
    PROVE  IInv'
  <1>1. PICK admission \in Admission :
           /\ \/ /\ req[q].phase = "idle"
                 /\ \E p \in Principal, i \in Input :
                       Goto(q, Admitted([Idle EXCEPT !.by = p, !.input = i,
                                           !.degraded = admission = "unreachable"],
                                        admission))
              \/ /\ req[q].phase = "paged"
                 /\ \E i \in {req[q].input} \cup {j \in Input : Collects(j.op)} :
                       Goto(q, Admitted([req[q] EXCEPT !.input = i,
                                           !.degraded = admission = "unreachable"],
                                        admission))
           /\ IF admission = "unreachable" THEN Fault ELSE UNCHANGED faults
           /\ UNCHANGED <<table, audit, walk, wanted>>
    BY DEF Begin
  <1>2. PICK x \in Request : x = req[q] /\ Sound(q, x, walk[q])
    BY Known
  <1>3. PICK away \in BOOLEAN : away = (admission = "unreachable")
    OBVIOUS
  <1>4. CASE req[q].phase = "idle"
    <2>1. PICK p \in Principal, i \in Input :
            Goto(q, Admitted([Idle EXCEPT !.by = p, !.input = i, !.degraded = away],
                             admission))
      BY <1>1, <1>3, <1>4
    <2>2. PICK idle \in Request : idle = Idle /\ idle.cursor = 0
            /\ idle.answer = "none" /\ idle.evidence = "none"
      BY IdleType DEF Idle
    <2>3. PICK r : r = [idle EXCEPT !.by = p, !.input = i, !.degraded = away]
      OBVIOUS
    <2>4. /\ r \in Request /\ r.by = p /\ r.input = i /\ r.cursor = 0
          /\ r.answer = "none" /\ r.evidence = "none"
      <3>1. p \in Principal \cup {OrgWide} /\ i \in Input \cup {NoBody}
        OBVIOUS
      <3>2. r \in Request
        BY <2>3, <3>1 DEF Request
      <3>3. QED
        BY <2>2, <2>3, <3>2 DEF Request
    <2>5. req[q].cursor = 0
      BY <1>2, <1>4 DEF Sound
    <2>6. QED
      BY <1>1, <1>4, <2>1, <2>2, <2>3, <2>4, <2>5, AdmittedLemma
  <1>5. CASE req[q].phase = "paged"
    <2>1. PICK i \in {x.input} \cup {j \in Input : Collects(j.op)} :
            Goto(q, Admitted([x EXCEPT !.input = i, !.degraded = away], admission))
      BY <1>1, <1>2, <1>3, <1>5
    <2>2. /\ x.input \in Input /\ x.by \in Principal /\ Collects(x.input.op)
          /\ x.answer = "none" /\ x.evidence = "none"
      BY <1>2, <1>5 DEF Sound, Judged
    <2>3. i \in Input /\ Collects(i.op)
      BY <2>1, <2>2
    <2>4. PICK r : r = [x EXCEPT !.input = i, !.degraded = away]
      OBVIOUS
    <2>5. /\ r \in Request /\ r.by = x.by /\ r.input = i /\ r.cursor = x.cursor
          /\ r.scope = x.scope /\ r.bound = x.bound
          /\ r.answer = "none" /\ r.evidence = "none"
      BY <2>2, <2>3, <2>4 DEF Request
    <2>6. QED
      BY <1>1, <1>2, <1>5, <2>1, <2>2, <2>3, <2>4, <2>5, AdmittedLemma
  <1>6. QED
    BY <1>1, <1>4, <1>5

\* Request q goes on to y, and its walk waits.
LEMMA GoesOn ==
    ASSUME IInv, NEW q \in Req, NEW y \in Request,
           Goto(q, y), UNCHANGED <<table, audit, walk, wanted, faults>>,
           req[q].phase # "done", Sound(q, y, walk[q]),
           ~ (y.phase = "done" /\ y.answer = "ok" /\ Writes(y.input.op))
    PROVE  IInv'
  <1>1. PICK v \in Walk : v = walk[q] /\ Sound(q, y, v)
    BY Known
  <1>2. req' = [req EXCEPT ![q] = y] /\ walk' = [walk EXCEPT ![q] = v]
    BY <1>1, Known DEF Goto
  <1>3. QED
    BY <1>1, <1>2, FaultLemma, Becomes

LEMMA ScopeType ==
    ASSUME NEW p \in Principal
    PROVE  ScopeOf(p) \subseteq Business
  BY CustomerActionsAssumption DEF ScopeOf

\* What the looking up of store and businesses leaves of a request.
LEMMA LooksUp ==
    ASSUME IInv, NEW q \in Req, NEW x \in Request, x = req[q], NEW y \in Request,
           x.phase \in {"store", "businesses"}, y.phase \in {"businesses", "handle"},
           y.phase = "handle" => y.scope = ScopeOf(x.by),
           y.phase = "businesses" => Assigned[x.by] = OrgWide,
           x.cursor # 0 => y.scope = x.scope,
           y.by = x.by, y.input = x.input, y.cursor = x.cursor, y.bound = x.bound,
           y.answer = x.answer, y.evidence = x.evidence
    PROVE  Sound(q, y, walk[q])
  <1>1. PICK v \in Walk : v = walk[q] /\ Sound(q, x, v)
    BY Known
  <1>2. Judged(y)
    BY <1>1 DEF Sound, Judged
  <1>3. Isolated(y, v)
    BY <1>1 DEF Sound, Isolated
  <1>4. Walking(y, v)
    <2>1. x.cursor # 0 => \A row : Selects(y, row) <=> Selects(x, row)
      BY DEF Selects, businessIds
    <2>2. \A c : Past(y, c) <=> Past(x, c)
      BY DEF Past, CursorKey
    <2>3. QED
      BY <1>1, <2>1, <2>2 DEF Sound, Walking
  <1>5. QED
    BY <1>1, <1>2, <1>3, <1>4 DEF Sound

LEMMA OpenStoreLemma ==
    ASSUME IInv, NEW q \in Req, OpenStore(q)
    PROVE  IInv'
  <1>1. PICK x \in Request : x = req[q] /\ Sound(q, x, walk[q])
    BY Known
  <1>2. /\ x.phase = "store" /\ UNCHANGED <<table, audit, walk, wanted, faults>>
        /\ Goto(q, IF Assigned[x.by] = OrgWide
                   THEN [x EXCEPT !.phase = "businesses"]
                   ELSE [x EXCEPT !.phase = "handle", !.scope = Assigned[x.by]])
    BY <1>1 DEF OpenStore
  <1>3. x.by \in Principal /\ (x.cursor # 0 => x.scope = ScopeOf(x.by))
    BY <1>1, <1>2 DEF Sound
  <1>4. CASE Assigned[x.by] = OrgWide
    <2>1. PICK y : y = [x EXCEPT !.phase = "businesses"]
      OBVIOUS
    <2>2. /\ y \in Request /\ y.phase = "businesses" /\ y.scope = x.scope
          /\ y.by = x.by /\ y.input = x.input /\ y.cursor = x.cursor
          /\ y.bound = x.bound /\ y.answer = x.answer /\ y.evidence = x.evidence
      BY <2>1 DEF Request, Phase
    <2>3. Sound(q, y, walk[q])
      BY <1>1, <1>2, <1>3, <1>4, <2>2, LooksUp
    <2>4. Goto(q, y)
      BY <1>2, <1>4, <2>1
    <2>5. QED
      BY <1>1, <1>2, <2>2, <2>3, <2>4, GoesOn
  <1>5. CASE Assigned[x.by] # OrgWide
    <2>1. PICK scope \in SUBSET Business : scope = Assigned[x.by] /\ scope = ScopeOf(x.by)
      BY <1>3, <1>5, ScopeType DEF ScopeOf
    <2>2. PICK y : y = [x EXCEPT !.phase = "handle", !.scope = scope]
      OBVIOUS
    <2>3. /\ y \in Request /\ y.phase = "handle" /\ y.scope = scope
          /\ y.by = x.by /\ y.input = x.input /\ y.cursor = x.cursor
          /\ y.bound = x.bound /\ y.answer = x.answer /\ y.evidence = x.evidence
      BY <2>2 DEF Request, Phase
    <2>4. Sound(q, y, walk[q])
      BY <1>1, <1>2, <1>3, <2>1, <2>3, LooksUp
    <2>5. Goto(q, y)
      BY <1>2, <1>5, <2>1, <2>2
    <2>6. QED
      BY <1>1, <1>2, <2>3, <2>4, <2>5, GoesOn
  <1>6. QED
    BY <1>4, <1>5

LEMMA ReadBusinessesLemma ==
    ASSUME IInv, NEW q \in Req, ReadBusinesses(q)
    PROVE  IInv'
  <1>1. PICK x \in Request : x = req[q] /\ Sound(q, x, walk[q])
    BY Known
  <1>2. /\ x.phase = "businesses" /\ UNCHANGED <<table, audit, walk, wanted, faults>>
        /\ Goto(q, [x EXCEPT !.phase = "handle", !.scope = Business])
    BY <1>1 DEF ReadBusinesses
  <1>3. PICK y : y = [x EXCEPT !.phase = "handle", !.scope = Business]
    OBVIOUS
  <1>4. /\ y \in Request /\ y.phase = "handle" /\ y.scope = Business
        /\ y.by = x.by /\ y.input = x.input /\ y.cursor = x.cursor
        /\ y.bound = x.bound /\ y.answer = x.answer /\ y.evidence = x.evidence
    BY <1>3 DEF Request, Phase
  <1>5. Business = ScopeOf(x.by)
    BY <1>1, <1>2 DEF Sound, ScopeOf
  <1>6. Sound(q, y, walk[q])
    <2>1. x.cursor # 0 => x.scope = Business
      BY <1>1, <1>5 DEF Sound
    <2>2. QED
      BY <1>1, <1>2, <1>4, <1>5, <2>1, LooksUp
  <1>7. QED
    BY <1>1, <1>2, <1>3, <1>4, <1>6, GoesOn

-----------------------------------------------------------------------------
\* The handlers.

LEMMA ReservingType ==
    ASSUME NEW x \in Request, NEW row \in Row \cup {NoRow}, NEW entry \in Entry \cup {NoEntry},
           NEW set \in {Nothing} \cup {AskedFor(i) : i \in Input}
    PROVE  [x EXCEPT !.phase = "reserving", !.seen = row, !.set = set, !.entry = entry]
              \in Request
  <1>1. PICK phase \in Phase : phase = "reserving"
    BY DEF Phase
  <1>2. [x EXCEPT !.phase = phase, !.seen = row, !.set = set, !.entry = entry] \in Request
    BY DEF Request
  <1>3. QED
    BY <1>1, <1>2

\* Request q proposes its write.
LEMMA ProposeLemma ==
    ASSUME IInv, NEW q \in Req, NEW row \in Row \cup {NoRow}, NEW set,
           NEW related \in SUBSET Business,
           NEW changed \in SUBSET {"business", "status", "name", "mail"},
           Goto(q, Propose(q, row, set, related, changed)),
           UNCHANGED <<table, audit, walk, wanted, faults>>,
           req[q].phase = "handle", Writes(req[q].input.op),
           set = AskedFor(req[q].input),
           req[q].input.op \in {"create", "move"} =>
              req[q].input.asked["business"] \in Business,
           req[q].input.op # "create" => Own(req[q].input.target)
    PROVE  IInv'
  <1>1. PICK v \in Walk : v = walk[q]
    BY Known
  <1>2. PICK x \in Request : x = req[q] /\ Sound(q, x, v)
    BY <1>1, Known
  <1>3. /\ x.by \in Principal /\ x.input \in Input /\ x.cursor = 0
        /\ authorize(x.by, x.input.op) /\ x.scope = ScopeOf(x.by)
        /\ x.answer = "none" /\ x.evidence = "none"
        /\ NewId[q] \notin DOMAIN table
    BY <1>2 DEF Sound, Judged, Writes, Collects
  <1>4. \A c \in Customer : v.shown[c] = 0
    BY <1>2, <1>3 DEF Sound, Walking
  <1>5. CASE x.degraded
    <2>1. PICK y : y = Answered(x, "unavailable", "none")
      OBVIOUS
    <2>2. /\ y \in Request /\ y.phase = "done" /\ y.by = x.by /\ y.input = x.input
          /\ y.answer = "unavailable" /\ y.evidence = "none" /\ y.cursor = 0
      BY <2>1, AnsweredLemma DEF Answer
    <2>3. Judged(y)
      BY <2>2 DEF Judged, DenialReason
    <2>4. Isolated(y, v)
      BY <1>2, <2>2 DEF Sound, Isolated
    <2>5. Walking(y, v)
      BY <2>2 DEF Walking
    <2>6. Sound(q, y, v)
      BY <1>3, <2>2, <2>3, <2>4, <2>5 DEF Sound
    <2>7. Goto(q, y)
      BY <1>2, <1>5, <2>1 DEF Propose, MustDefer
    <2>8. QED
      BY <1>1, <1>2, <2>2, <2>6, <2>7, GoesOn
  <1>6. CASE ~ x.degraded
    <2>1. PICK entry : entry = [by |-> q, op |-> x.input.op,
                              customer |-> IF x.input.op = "create"
                                           THEN NewId[q] ELSE x.input.target,
                              related |-> related, changed |-> changed]
      OBVIOUS
    <2>2. /\ entry \in Entry /\ entry.by = q
          /\ entry.customer = IF x.input.op = "create" THEN NewId[q] ELSE x.input.target
      <3>1. x.input.op \in Op /\ NewId[q] \in Customer
        BY <1>3, BodyLemma, CustomerActionsAssumption
      <3>2. x.input.op # "create" => x.input.target \in Customer
        BY <1>2 DEF IInv, TypeOK, Own
      <3>3. QED
        BY <2>1, <3>1, <3>2 DEF Entry
    <2>3. PICK y : y = [x EXCEPT !.phase = "reserving", !.seen = row, !.set = set,
                                 !.entry = entry]
      OBVIOUS
    <2>4. /\ y \in Request /\ y.phase = "reserving" /\ y.by = x.by /\ y.input = x.input
          /\ y.degraded = x.degraded /\ y.scope = x.scope /\ y.cursor = x.cursor
          /\ y.set = set /\ y.entry = entry
          /\ y.answer = x.answer /\ y.evidence = x.evidence
      <3>1. set \in {Nothing} \cup {AskedFor(i) : i \in Input}
        BY <1>2, <1>3
      <3>2. y \in Request
        BY <2>2, <2>3, <3>1, ReservingType
      <3>3. QED
        BY <2>3, <3>2 DEF Request
    <2>5. Proposed(q, y)
      BY <1>2, <1>6, <2>2, <2>4 DEF Proposed
    <2>6. Judged(y)
      BY <1>3, <2>4 DEF Judged
    <2>7. Isolated(y, v)
      BY <1>2, <1>3, <2>4 DEF Sound, Isolated
    <2>8. Walking(y, v)
      BY <1>3, <1>4, <2>4 DEF Walking
    <2>9. Sound(q, y, v)
      BY <1>3, <2>4, <2>5, <2>6, <2>7, <2>8 DEF Sound
    <2>10. Goto(q, y)
      BY <1>2, <1>6, <2>1, <2>3 DEF Propose, MustDefer
    <2>11. QED
      BY <1>1, <1>2, <2>4, <2>9, <2>10, GoesOn
  <1>7. QED
    BY <1>5, <1>6

\* What looking up a customer, or a business, comes to.
LEMMA ResolveLemma ==
    ASSUME IInv, NEW r
    PROVE  /\ resolve(r) \in {"ok", "not_found", "forbidden"}
           /\ resolve(r) # "not_found" => Own(r.input.target)
           /\ resolve(r) = "ok" => table[r.input.target].business \in r.scope
  BY DEF resolve, findById, Own

LEMMA SuppliedLemma ==
    ASSUME NEW r, NEW business
    PROVE  /\ authorizeSuppliedBusiness(r, business) \in {"ok", "not_found", "forbidden"}
           /\ authorizeSuppliedBusiness(r, business) = "ok" => business \in r.scope
  BY DEF authorizeSuppliedBusiness

LEMMA CreateStep ==
    ASSUME IInv, NEW q \in Req, Create(q)
    PROVE  IInv'
  <1>1. PICK x \in Request : x = req[q] /\ Sound(q, x, walk[q])
    BY Known
  <1>2. PICK business : business = authorizeSuppliedBusiness(x, x.input.asked["business"])
    OBVIOUS
  <1>3. /\ x.phase = "handle" /\ x.input.op = "create"
        /\ UNCHANGED <<table, audit, walk, wanted, faults>>
    BY <1>1 DEF Create, Handling
  <1>4. x.input \in Input /\ x.scope = ScopeOf(x.by) /\ x.by \in Principal
    BY <1>1, <1>3 DEF Sound
  <1>5. CASE business # "ok"
    <2>1. Goto(q, fail(req[q], business)) /\ business \in Code
      BY <1>1, <1>2, <1>3, <1>5, SuppliedLemma DEF Create, Code
    <2>2. x.input.target \notin DOMAIN table
      <3>1. x.input.target = 0 /\ 0 \notin Customer
        BY <1>3, <1>4, BodyLemma, CustomerActionsAssumption DEF NamesCustomer
      <3>2. QED
        BY <3>1 DEF IInv, TypeOK
    <2>3. QED
      BY <1>1, <1>3, <2>1, <2>2, FailsNow
  <1>6. CASE business = "ok"
    <2>1. x.input.asked["business"] \in Business
      BY <1>2, <1>4, <1>6, SuppliedLemma, ScopeType
    <2>2. PICK related \in SUBSET Business : related = {x.input.asked["business"]}
      BY <2>1
    <2>3. PICK set : set = AskedFor(x.input)
      OBVIOUS
    <2>4. set = [org |-> "own", business |-> x.input.asked["business"],
                 status |-> "active", name |-> x.input.asked["name"],
                 mail |-> x.input.asked["mail"]]
      BY <1>3, <2>3 DEF AskedFor
    <2>5. PICK changed \in SUBSET {"business", "status", "name", "mail"} : changed = {}
      OBVIOUS
    <2>6. PICK row \in Row \cup {NoRow} : row = NoRow
      OBVIOUS
    <2>7. Goto(q, Propose(q, row, set, related, changed))
      BY <1>1, <1>2, <1>6, <2>2, <2>4, <2>5, <2>6 DEF Create, Goto
    <2>8. QED
      BY <1>1, <1>3, <2>1, <2>3, <2>7, ProposeLemma DEF Writes
  <1>7. QED
    BY <1>5, <1>6

LEMMA GetStep ==
    ASSUME IInv, NEW q \in Req, Get(q)
    PROVE  IInv'
  <1>1. PICK v \in Walk : v = walk[q]
    BY Known
  <1>2. PICK x \in Request : x = req[q] /\ Sound(q, x, v)
    BY <1>1, Known
  <1>3. /\ x.phase = "handle" /\ x.input.op = "get"
        /\ UNCHANGED <<table, audit, walk, wanted, faults>>
    BY <1>2 DEF Get, Handling
  <1>4. CASE resolve(x) # "ok"
    <2>1. PICK code \in Code : code = resolve(x)
      BY <1>4, ResolveLemma DEF Code
    <2>2. Goto(q, fail(req[q], code))
      BY <1>2, <1>4, <2>1 DEF Get
    <2>3. QED
      BY <1>2, <1>3, <2>1, <2>2, ResolveLemma, FailsNow
  <1>5. CASE resolve(x) = "ok"
    <2>1. PICK y : y = Answered(x, "ok", "none")
      OBVIOUS
    <2>2. /\ y \in Request /\ y.phase = "done" /\ y.by = x.by /\ y.input = x.input
          /\ y.answer = "ok" /\ y.evidence = "none" /\ y.cursor = 0
      <3>1. "ok" \in Answer
        BY DEF Answer
      <3>2. QED
        BY <2>1, <3>1, AnsweredLemma
    <2>3. x.by \in Principal /\ x.input \in Input /\ NewId[q] \notin DOMAIN table
      BY <1>2, <1>3 DEF Sound
    <2>4. Judged(y)
      BY <2>2 DEF Judged, DenialReason
    <2>5. Isolated(y, v)
      <3>1. Own(x.input.target)
        BY <1>5, ResolveLemma
      <3>2. QED
        BY <1>2, <2>2, <3>1 DEF Sound, Isolated, Own
    <2>6. Walking(y, v)
      BY <1>3, <2>2 DEF Walking, Collects
    <2>7. Sound(q, y, v)
      BY <2>2, <2>3, <2>4, <2>5, <2>6 DEF Sound
    <2>8. Goto(q, y)
      BY <1>2, <1>5, <2>1 DEF Get
    <2>9. QED
      BY <1>1, <1>2, <1>3, <2>2, <2>7, <2>8, GoesOn DEF Writes
  <1>6. QED
    BY <1>4, <1>5

\* A handler that resolves its customer and updates it.
LEMMA HandlerLemma ==
    ASSUME IInv, NEW q \in Req, NEW op \in {"update", "archive", "restore"},
           NEW may \in BOOLEAN, NEW set, NEW related, NEW changed,
           Handling(q, op),
           Goto(q, IF resolve(req[q]) # "ok" THEN fail(req[q], resolve(req[q]))
                   ELSE IF ~ may THEN fail(req[q], "failed_precondition")
                   ELSE Propose(q, table[req[q].input.target], set, related, changed)),
           UNCHANGED <<table, audit, walk, wanted, faults>>,
           set = AskedFor(req[q].input), related = {table[req[q].input.target].business},
           changed \in SUBSET {"business", "status", "name", "mail"}
    PROVE  IInv'
  <1>1. PICK x \in Request : x = req[q] /\ Sound(q, x, walk[q])
    BY Known
  <1>2. x.phase = "handle" /\ x.input.op = op /\ Writes(op) /\ op \notin {"create", "move"}
    BY <1>1 DEF Handling, Writes
  <1>3. CASE resolve(x) # "ok"
    <2>1. PICK code \in Code : code = resolve(x)
      BY <1>3, ResolveLemma DEF Code
    <2>2. Goto(q, fail(req[q], code))
      BY <1>1, <1>3, <2>1
    <2>3. QED
      BY <1>1, <1>2, <2>1, <2>2, ResolveLemma, FailsNow
  <1>4. CASE resolve(x) = "ok" /\ ~ may
    <2>1. Goto(q, fail(req[q], "failed_precondition")) /\ "failed_precondition" \in Code
      BY <1>1, <1>4 DEF Code
    <2>2. QED
      BY <1>1, <1>2, <2>1, FailsNow
  <1>5. CASE resolve(x) = "ok" /\ may
    <2>1. Own(x.input.target)
      BY <1>5, ResolveLemma
    <2>2. PICK row \in Row : row = table[x.input.target]
      BY <2>1 DEF IInv, TypeOK, Own
    <2>3. related \in SUBSET Business
      BY <1>1, <2>1 DEF IInv, TypeOK, Own
    <2>4. Goto(q, Propose(q, row, set, related, changed))
      BY <1>1, <1>5, <2>2
    <2>5. QED
      BY <1>1, <1>2, <2>1, <2>3, <2>4, ProposeLemma
  <1>6. QED
    BY <1>3, <1>4, <1>5

LEMMA UpdateStep ==
    ASSUME IInv, NEW q \in Req, Update(q)
    PROVE  IInv'
  <1>1. PICK x \in Request : x = req[q] /\ Sound(q, x, walk[q])
    BY Known
  <1>2. x.phase = "handle" /\ x.input.op = "update" /\ x.input \in Input
    BY <1>1 DEF Update, Handler, Handling, Sound
  <1>3. PICK may \in BOOLEAN : may <=> canUpdate(Target(q).status)
    OBVIOUS
  <1>4. x.input.asked = AskedFor(x.input)
    BY <1>2 DEF AskedFor
  <1>5. PICK changed : changed = ChangedFields(Target(q), x.input.asked)
    OBVIOUS
  <1>6. changed \in SUBSET {"business", "status", "name", "mail"}
    <2>1. \/ x.input.asked \in [name : Name] \/ x.input.asked \in [mail : Mail]
          \/ x.input.asked \in [name : Name, mail : Mail]
      BY <1>2, CustomerActionsAssumption DEF Body
    <2>2. DOMAIN x.input.asked \subseteq {"name", "mail"}
      BY <2>1
    <2>3. QED
      BY <1>5, <2>2 DEF ChangedFields
  <1>7. /\ Goto(q, IF resolve(req[q]) # "ok" THEN fail(req[q], resolve(req[q]))
                   ELSE IF ~ may THEN fail(req[q], "failed_precondition")
                   ELSE Propose(q, table[req[q].input.target], x.input.asked,
                                {table[req[q].input.target].business}, changed))
        /\ UNCHANGED <<table, audit, walk, wanted, faults>>
    BY <1>1, <1>3, <1>5 DEF Update, Handler, UpdateSet, Target, ReadBusiness, Goto
  <1>8. Handling(q, "update")
    BY DEF Update, Handler
  <1>9. QED
    BY <1>1, <1>4, <1>6, <1>7, <1>8, HandlerLemma

LEMMA ArchiveStep ==
    ASSUME IInv, NEW q \in Req, Archive(q)
    PROVE  IInv'
  <1>1. PICK may \in BOOLEAN : may <=> canArchive(Target(q).status)
    OBVIOUS
  <1>2. PICK set : set = [status |-> "archived"]
    OBVIOUS
  <1>3. Handling(q, "archive")
    BY DEF Archive, Handler
  <1>4. set = AskedFor(req[q].input)
    BY <1>2, <1>3 DEF Handling, AskedFor
  <1>5. /\ Goto(q, IF resolve(req[q]) # "ok" THEN fail(req[q], resolve(req[q]))
                   ELSE IF ~ may THEN fail(req[q], "failed_precondition")
                   ELSE Propose(q, table[req[q].input.target], set,
                                {table[req[q].input.target].business}, {"status"}))
        /\ UNCHANGED <<table, audit, walk, wanted, faults>>
    BY <1>1, <1>2 DEF Archive, Handler, Target, ReadBusiness, Goto
  <1>6. QED
    BY <1>3, <1>4, <1>5, HandlerLemma

LEMMA RestoreStep ==
    ASSUME IInv, NEW q \in Req, Restore(q)
    PROVE  IInv'
  <1>1. PICK may \in BOOLEAN : may <=> canRestore(Target(q).status)
    OBVIOUS
  <1>2. PICK set : set = [status |-> "active"]
    OBVIOUS
  <1>3. Handling(q, "restore")
    BY DEF Restore, Handler
  <1>4. set = AskedFor(req[q].input)
    BY <1>2, <1>3 DEF Handling, AskedFor
  <1>5. /\ Goto(q, IF resolve(req[q]) # "ok" THEN fail(req[q], resolve(req[q]))
                   ELSE IF ~ may THEN fail(req[q], "failed_precondition")
                   ELSE Propose(q, table[req[q].input.target], set,
                                {table[req[q].input.target].business}, {"status"}))
        /\ UNCHANGED <<table, audit, walk, wanted, faults>>
    BY <1>1, <1>2 DEF Restore, Handler, Target, ReadBusiness, Goto
  <1>6. QED
    BY <1>3, <1>4, <1>5, HandlerLemma

LEMMA MoveStep ==
    ASSUME IInv, NEW q \in Req, Move(q)
    PROVE  IInv'
  <1>1. PICK x \in Request : x = req[q] /\ Sound(q, x, walk[q])
    BY Known
  <1>2. PICK to, found, destination :
           /\ to = x.input.asked["business"] /\ found = resolve(x)
           /\ destination = authorizeSuppliedBusiness(x, to)
    OBVIOUS
  <1>3. /\ x.phase = "handle" /\ x.input.op = "move"
        /\ UNCHANGED <<table, audit, walk, wanted, faults>>
        /\ Goto(q, IF found # "ok" THEN fail(x, found)
                   ELSE IF destination # "ok" THEN fail(x, destination)
                   ELSE IF \/ ~ canMove(Target(q).status) \/ Target(q).business = to
                   THEN fail(x, "failed_precondition")
                   ELSE Propose(q, Target(q), [business |-> to],
                                {Target(q).business, to}, {"business"}))
    BY <1>1, <1>2 DEF Move, Handling
  <1>4. /\ x.input \in Input /\ x.scope = ScopeOf(x.by) /\ x.by \in Principal
    BY <1>1, <1>3 DEF Sound
  <1>5. CASE found # "ok"
    <2>1. found \in Code /\ Goto(q, fail(req[q], found))
      BY <1>1, <1>2, <1>3, <1>5, ResolveLemma DEF Code
    <2>2. QED
      BY <1>1, <1>2, <1>3, <2>1, ResolveLemma, FailsNow
  <1>6. CASE found = "ok"
    <2>1. Own(x.input.target)
      BY <1>2, <1>6, ResolveLemma
    <2>2. CASE destination # "ok"
      <3>1. destination \in Code /\ Goto(q, fail(req[q], destination))
        BY <1>1, <1>2, <1>3, <1>6, <2>2, SuppliedLemma DEF Code
      <3>2. QED
        BY <1>1, <1>3, <2>1, <3>1, FailsNow
    <2>3. CASE /\ destination = "ok"
               /\ (~ canMove(Target(q).status) \/ Target(q).business = to)
      <3>1. /\ "failed_precondition" \in Code
            /\ Goto(q, fail(req[q], "failed_precondition"))
        BY <1>1, <1>3, <1>6, <2>3 DEF Code
      <3>2. QED
        BY <1>1, <1>3, <2>1, <3>1, FailsNow
    <2>4. CASE /\ destination = "ok"
               /\ ~ (~ canMove(Target(q).status) \/ Target(q).business = to)
      <3>1. PICK row \in Row : row = table[x.input.target] /\ row = Target(q)
        BY <1>1, <2>1 DEF IInv, TypeOK, Own, Target
      <3>2. to \in Business
        BY <1>2, <1>4, <2>4, SuppliedLemma, ScopeType
      <3>3. PICK related \in SUBSET Business : related = {Target(q).business, to}
        BY <1>1, <2>1, <3>2 DEF IInv, TypeOK, Own, Target
      <3>4. PICK set : set = [business |-> to]
        OBVIOUS
      <3>5. set = AskedFor(x.input)
        <4>1. x.input.asked \in [business : Business \cup {Outside}]
          BY <1>3, <1>4, CustomerActionsAssumption DEF Body
        <4>2. AskedFor(x.input) = x.input.asked
          BY <1>3 DEF AskedFor
        <4>3. QED
          BY <1>2, <3>4, <4>1, <4>2
      <3>6. Goto(q, Propose(q, row, set, related, {"business"}))
        BY <1>3, <1>6, <2>4, <3>1, <3>3, <3>4
      <3>7. QED
        BY <1>1, <1>2, <1>3, <2>1, <3>2, <3>5, <3>6, ProposeLemma DEF Writes
    <2>5. QED
      BY <2>2, <2>3, <2>4
  <1>7. QED
    BY <1>5, <1>6

-----------------------------------------------------------------------------
\* The pages of a listing or a search.

\* A request that goes on with its collection keeps its place.
LEMMA WalksOn ==
    ASSUME IInv, NEW q \in Req, NEW x \in Request, x = req[q], NEW y \in Request,
           x.phase \in {"handle", "anchor"}, y.phase \in {"anchor", "page"},
           Collects(x.input.op), y.scope = x.scope,
           y.by = x.by, y.input = x.input, y.cursor = x.cursor, y.bound = x.bound,
           y.answer = x.answer, y.evidence = x.evidence,
           (y.phase = "page" /\ y.cursor # 0) =>
              /\ y.bound = y.input
              /\ y.key \in Name /\ y.key = table[x.cursor].name
    PROVE  Sound(q, y, walk[q])
  <1>1. PICK v \in Walk : v = walk[q] /\ Sound(q, x, v)
    BY Known
  <1>2. Judged(y)
    BY <1>1 DEF Sound, Judged
  <1>3. Isolated(y, v)
    BY <1>1 DEF Sound, Isolated
  <1>4. Walking(y, v)
    <2>1. \A row : Selects(y, row) <=> Selects(x, row)
      BY DEF Selects, businessIds
    <2>2. y.cursor # 0 => \A c : Past(y, c) <=> Past(x, c)
      BY DEF Past, CursorKey
    <2>3. QED
      BY <1>1, <2>1, <2>2 DEF Sound, Walking
  <1>5. QED
    BY <1>1, <1>2, <1>3, <1>4 DEF Sound

LEMMA CollectStep ==
    ASSUME IInv, NEW q \in Req, Collect(q)
    PROVE  IInv'
  <1>1. PICK x \in Request : x = req[q] /\ Sound(q, x, walk[q])
    BY Known
  <1>2. PICK named : named = authorizeSuppliedBusiness(x, x.input.asked.within)
    OBVIOUS
  <1>3. /\ x.phase = "handle" /\ Collects(x.input.op)
        /\ UNCHANGED <<table, audit, walk, wanted, faults>>
        /\ Goto(q, IF x.input.asked.within # OrgWide /\ named # "ok"
                   THEN fail(x, named)
                   ELSE [x EXCEPT !.phase = IF x.cursor = 0 THEN "page" ELSE "anchor"])
    BY <1>1, <1>2 DEF Collect
  <1>4. CASE x.input.asked.within # OrgWide /\ named # "ok"
    <2>1. named \in Code /\ Goto(q, fail(req[q], named))
      BY <1>1, <1>2, <1>3, <1>4, SuppliedLemma DEF Code
    <2>2. x.input.target \notin DOMAIN table
      <3>1. x.input \in Input
        BY <1>1, <1>3 DEF Sound
      <3>2. x.input.target = 0 /\ 0 \notin Customer
        BY <1>3, <3>1, BodyLemma, CustomerActionsAssumption DEF NamesCustomer
      <3>3. QED
        BY <3>2 DEF IInv, TypeOK
    <2>3. QED
      BY <1>1, <1>3, <2>1, <2>2, FailsNow
  <1>5. CASE ~ (x.input.asked.within # OrgWide /\ named # "ok")
    <2>1. PICK phase \in {"page", "anchor"} :
             phase = IF x.cursor = 0 THEN "page" ELSE "anchor"
      OBVIOUS
    <2>2. PICK y : y = [x EXCEPT !.phase = phase]
      OBVIOUS
    <2>3. phase \in Phase
      BY DEF Phase
    <2>4. /\ y \in Request /\ y.phase = phase /\ y.scope = x.scope
          /\ y.by = x.by /\ y.input = x.input /\ y.cursor = x.cursor
          /\ y.bound = x.bound /\ y.answer = x.answer /\ y.evidence = x.evidence
      BY <2>2, <2>3 DEF Request
    <2>5. ~ (y.phase = "page" /\ y.cursor # 0)
      BY <2>1, <2>4
    <2>6. Sound(q, y, walk[q])
      BY <1>1, <1>3, <2>4, <2>5, WalksOn
    <2>7. Goto(q, y)
      BY <1>3, <1>5, <2>1, <2>2
    <2>8. QED
      BY <1>1, <1>3, <2>4, <2>6, <2>7, GoesOn
  <1>6. QED
    BY <1>4, <1>5

LEMMA FindAnchorStep ==
    ASSUME IInv, NEW q \in Req, FindAnchor(q)
    PROVE  IInv'
  <1>1. PICK x \in Request : x = req[q] /\ Sound(q, x, walk[q])
    BY Known
  <1>2. /\ x.phase = "anchor" /\ UNCHANGED <<table, audit, walk, wanted, faults>>
        /\ \/ Goto(q, IF x.bound = x.input /\ findById(x.cursor)
                      THEN [x EXCEPT !.phase = "page", !.key = table[x.cursor].name]
                      ELSE fail(x, "invalid_argument"))
           \/ Goto(q, fail(x, "invalid_argument"))
    BY <1>1 DEF FindAnchor, decodes
  <1>3. CASE Goto(q, fail(x, "invalid_argument"))
    <2>1. "invalid_argument" \in Code
      BY DEF Code
    <2>2. QED
      BY <1>1, <1>2, <1>3, <2>1, FailsNow
  <1>4. CASE /\ x.bound = x.input /\ findById(x.cursor)
             /\ Goto(q, [x EXCEPT !.phase = "page", !.key = table[x.cursor].name])
    <2>1. PICK key \in Name : key = table[x.cursor].name
      BY <1>4 DEF IInv, TypeOK, findById, Row
    <2>2. PICK y : y = [x EXCEPT !.phase = "page", !.key = key]
      OBVIOUS
    <2>3. /\ y \in Request /\ y.phase = "page" /\ y.scope = x.scope /\ y.key = key
          /\ y.by = x.by /\ y.input = x.input /\ y.cursor = x.cursor
          /\ y.bound = x.bound /\ y.answer = x.answer /\ y.evidence = x.evidence
      BY <2>2 DEF Request, Phase
    <2>4. Collects(x.input.op)
      BY <1>1, <1>2 DEF Sound
    <2>5. Sound(q, y, walk[q])
      BY <1>1, <1>2, <1>4, <2>1, <2>3, <2>4, WalksOn
    <2>6. Goto(q, y)
      BY <1>4, <2>1, <2>2
    <2>7. QED
      BY <1>1, <1>2, <2>3, <2>5, <2>6, GoesOn
  <1>5. QED
    BY <1>2, <1>3, <1>4

-----------------------------------------------------------------------------
\* The pipeline after the handler.

LEMMA ReserveStep ==
    ASSUME IInv, NEW q \in Req, Reserve(q)
    PROVE  IInv'
  <1>1. PICK v \in Walk : v = walk[q]
    BY Known
  <1>2. PICK x \in Request : x = req[q] /\ Sound(q, x, v)
    BY <1>1, Known
  <1>3. /\ x.phase = "reserving" /\ UNCHANGED <<table, audit, walk, wanted, faults>>
        /\ \/ Goto(q, [x EXCEPT !.phase = "writing"])
           \/ Goto(q, fail(x, IF x.input.op = "create"
                              THEN "quota_exceeded" ELSE "unavailable"))
    BY <1>2 DEF Reserve
  <1>4. CASE Goto(q, [x EXCEPT !.phase = "writing"])
    <2>1. PICK y : y = [x EXCEPT !.phase = "writing"]
      OBVIOUS
    <2>2. /\ y \in Request /\ y.phase = "writing" /\ y.scope = x.scope
          /\ y.by = x.by /\ y.input = x.input /\ y.cursor = x.cursor
          /\ y.degraded = x.degraded /\ y.set = x.set /\ y.entry = x.entry
          /\ y.bound = x.bound /\ y.answer = x.answer /\ y.evidence = x.evidence
      BY <2>1 DEF Request, Phase
    <2>3. x.cursor = 0
      BY <1>2, <1>3 DEF Sound, Proposed, Writes, Collects
    <2>4. Proposed(q, y)
      BY <1>2, <1>3, <2>2 DEF Sound, Proposed
    <2>5. Judged(y)
      BY <1>2, <1>3, <2>2 DEF Sound, Judged
    <2>6. Isolated(y, v)
      BY <1>2, <2>2 DEF Sound, Isolated
    <2>7. Walking(y, v)
      BY <1>2, <1>3, <2>2, <2>3 DEF Sound, Walking
    <2>8. Sound(q, y, v)
      BY <1>2, <1>3, <2>2, <2>3, <2>4, <2>5, <2>6, <2>7 DEF Sound
    <2>9. QED
      BY <1>1, <1>2, <1>3, <1>4, <2>1, <2>2, <2>8, GoesOn
  <1>5. CASE Goto(q, fail(x, IF x.input.op = "create"
                             THEN "quota_exceeded" ELSE "unavailable"))
    <2>1. PICK code \in Code : /\ code # "forbidden"
                               /\ code = IF x.input.op = "create"
                                         THEN "quota_exceeded" ELSE "unavailable"
      BY DEF Code
    <2>2. QED
      BY <1>2, <1>3, <1>5, <2>1, FailsNow
  <1>6. QED
    BY <1>3, <1>4, <1>5

LEMMA CallFailsStep ==
    ASSUME IInv, NEW q \in Req, CallFails(q)
    PROVE  IInv'
  <1>1. "unavailable" \in Code
    BY DEF Code
  <1>2. /\ Goto(q, fail(req[q], "unavailable")) /\ Fault
        /\ UNCHANGED <<table, audit, walk, wanted>>
        /\ req[q].phase \notin {"idle", "denying", "done"}
    BY DEF CallFails
  <1>3. QED
    BY <1>1, <1>2, FailsNow

LEMMA RecordDenialStep ==
    ASSUME IInv, NEW q \in Req, RecordDenial(q)
    PROVE  IInv'
  <1>1. PICK v \in Walk : v = walk[q]
    BY Known
  <1>2. PICK x \in Request : x = req[q] /\ Sound(q, x, v)
    BY <1>1, Known
  <1>3. PICK evidence \in {"recorded", "announced"} :
           Goto(q, Answered(x, x.answer, evidence))
    BY <1>2 DEF RecordDenial
  <1>4. /\ x.phase = "denying" /\ UNCHANGED <<table, audit, walk, wanted>>
        /\ Fault \/ UNCHANGED faults
    BY <1>2 DEF RecordDenial
  <1>5. /\ x.by \in Principal /\ x.input \in Input /\ NewId[q] \notin DOMAIN table
        /\ AuditsOnDenial(x.input.op) /\ x.answer \in DenialReason
    BY <1>2, <1>4 DEF Sound, Judged
  <1>6. PICK y : y = Answered(x, x.answer, evidence)
    OBVIOUS
  <1>7. /\ y \in Request /\ y.phase = "done" /\ y.by = x.by /\ y.input = x.input
        /\ y.answer = x.answer /\ y.evidence = evidence /\ y.cursor = 0
    <2>1. x.answer \in Answer
      BY DEF Request
    <2>2. QED
      BY <1>6, <2>1, AnsweredLemma
  <1>8. Judged(y)
    BY <1>5, <1>7 DEF Judged
  <1>9. Isolated(y, v)
    BY <1>2, <1>7 DEF Sound, Isolated
  <1>10. y.answer # "ok"
    BY <1>5, <1>7 DEF DenialReason
  <1>11. Walking(y, v)
    BY <1>7, <1>10 DEF Walking
  <1>12. Sound(q, y, v)
    BY <1>5, <1>7, <1>8, <1>9, <1>11 DEF Sound
  <1>13. req' = [req EXCEPT ![q] = y] /\ walk' = [walk EXCEPT ![q] = v]
    BY <1>1, <1>3, <1>4, <1>6, Known DEF Goto
  <1>14. req[q].phase # "done"
    BY <1>2, <1>4
  <1>15. QED
    BY <1>1, <1>4, <1>7, <1>10, <1>12, <1>13, <1>14, FaultLemma, Becomes
-----------------------------------------------------------------------------
\* A page is read.

\* A selected customer comes after the anchor, or its place is past.
LEMMA AfterOrPast ==
    ASSUME TypeOK, NEW x \in Request, x.phase = "page", x.cursor # 0, x.key \in Name,
           NEW c \in DOMAIN table
    PROVE  After(table[c].name, c, x) <=> ~ Past(x, c)
  <1>1. table[c].name \in Nat /\ x.key \in Nat /\ c \in Nat /\ x.cursor \in Nat
    BY CustomerActionsAssumption DEF TypeOK, Row, Request
  <1>2. QED
    BY <1>1 DEF After, Past, CursorKey

\* What a page shows, of those that were selected all along: exactly those
\* after the anchor and up to its last.
LEMMA ShownLemma ==
    ASSUME IInv, NEW q \in Req, NEW x \in Request, x = req[q], x.phase = "page",
           NEW w \in Walk, w = walk[q], w.anchored,
           NEW steady, steady = IF x.cursor = 0 THEN Candidates(x) ELSE w.steady,
           NEW c \in steady
    PROVE  /\ c \in Candidates(x)
           /\ w.shown[c] = IF After(table[c].name, c, x) THEN 0 ELSE 1
  <1>1. Sound(q, x, w)
    BY Known
  <1>2. CASE x.cursor = 0
    <2>1. c \in Candidates(x) /\ c \in Customer
      BY <1>2 DEF IInv, TypeOK, Candidates
    <2>2. QED
      BY <1>1, <1>2, <2>1 DEF Sound, Walking, After
  <1>3. CASE x.cursor # 0
    <2>1. /\ c \in DOMAIN table /\ Selects(x, table[c]) /\ x.key \in Name
          /\ w.shown[c] = IF Past(x, c) THEN 1 ELSE 0
      BY <1>1, <1>3 DEF Sound, Walking
    <2>2. After(table[c].name, c, x) <=> ~ Past(x, c)
      BY <1>3, <2>1, AfterOrPast DEF IInv
    <2>3. QED
      BY <2>1, <2>2 DEF Candidates
  <1>4. QED
    BY <1>2, <1>3

LEMMA ReadPageStep ==
    ASSUME IInv, NEW q \in Req, ReadPage(q)
    PROVE  IInv'
  <1>1. PICK w \in Walk : w = walk[q]
    BY Known
  <1>2. PICK x \in Request : x = req[q] /\ Sound(q, x, w)
    BY <1>1, Known
  <1>3. PICK matching : matching = {c \in Candidates(x) : After(table[c].name, c, x)}
    OBVIOUS
  <1>4. x.phase = "page" /\ UNCHANGED <<table, audit, wanted, faults>>
    BY <1>2 DEF ReadPage
  <1>5. PICK page \in SUBSET {c \in Candidates(req[q]) : After(table[c].name, c, req[q])} :
          LET r == req[q]
              all == {c \in Candidates(r) : After(table[c].name, c, r)} IN
          /\ \A c \in page, d \in all \ page : Before(c, d)
          /\ IF page = all THEN Goto(q, Answered(r, "ok", "none"))
             ELSE \E last \in page :
                    /\ \A c \in page \ {last} : Before(c, last)
                    /\ Goto(q, [r EXCEPT !.phase = "paged", !.cursor = last,
                                         !.bound = r.input, !.key = 0])
          /\ walk' = [walk EXCEPT ![q] =
                [shown |-> [c \in Customer |->
                              walk[q].shown[c] + IF c \in page THEN 1 ELSE 0],
                 steady |-> IF r.cursor = 0 THEN Candidates(r) ELSE walk[q].steady,
                 anchored |-> walk[q].anchored]]
    BY DEF ReadPage
  <1>6. PICK shown : shown = [c \in Customer |-> w.shown[c] + IF c \in page THEN 1 ELSE 0]
    OBVIOUS
  <1>7. PICK steady : steady = IF x.cursor = 0 THEN Candidates(x) ELSE w.steady
    OBVIOUS
  <1>8. PICK v : v = [shown |-> shown, steady |-> steady, anchored |-> w.anchored]
    OBVIOUS
  <1>8a. page \subseteq matching
    BY <1>2, <1>3
  <1>8b. \A c \in page, d \in matching \ page : Before(c, d)
    BY <1>2, <1>3, <1>5
  <1>8c. page = matching => Goto(q, Answered(x, "ok", "none"))
    BY <1>2, <1>3, <1>5
  <1>8d. page # matching =>
          \E last \in page :
             /\ \A c \in page \ {last} : Before(c, last)
             /\ Goto(q, [x EXCEPT !.phase = "paged", !.cursor = last,
                                  !.bound = x.input, !.key = 0])
    BY <1>2, <1>3, <1>5
  <1>9. Candidates(x) \subseteq DOMAIN table /\ DOMAIN table \subseteq Customer
    BY DEF IInv, TypeOK, Candidates
  <1>10. shown \in [Customer -> Nat] /\ steady \subseteq Customer
    BY <1>6, <1>7, <1>9 DEF Walk
  <1>11. v \in Walk /\ v.shown = shown /\ v.steady = steady /\ v.anchored = w.anchored
    BY <1>8, <1>10 DEF Walk
  <1>12. walk' = [walk EXCEPT ![q] = v]
    <2>1. [shown |-> [c \in Customer |-> w.shown[c] + IF c \in page THEN 1 ELSE 0],
           steady |-> IF x.cursor = 0 THEN Candidates(x) ELSE w.steady,
           anchored |-> w.anchored] = v
      BY <1>6, <1>7, <1>8
    <2>2. QED
      BY <1>1, <1>2, <1>5, <2>1
  <1>13. /\ x.by \in Principal /\ x.input \in Input /\ Collects(x.input.op)
         /\ x.scope = ScopeOf(x.by) /\ NewId[q] \notin DOMAIN table
         /\ x.answer = "none" /\ x.evidence = "none"
    BY <1>2, <1>4 DEF Sound, Judged
  <1>14. x.input.target \notin DOMAIN table
    <2>1. x.input.target = 0 /\ 0 \notin Customer
      BY <1>13, BodyLemma, CustomerActionsAssumption DEF NamesCustomer
    <2>2. QED
      BY <1>9, <2>1
  <1>15. \A c \in DOMAIN table : table[c].org = "other" => v.shown[c] = 0
    <2>1. ASSUME NEW c \in DOMAIN table, table[c].org = "other" PROVE v.shown[c] = 0
      <3>1. w.shown[c] = 0 /\ c \in Customer
        BY <1>2, <1>9, <2>1 DEF Sound, Isolated
      <3>2. c \notin page
        BY <1>3, <1>8a, <2>1 DEF Candidates, Selects
      <3>3. QED
        BY <1>6, <1>11, <3>1, <3>2
    <2>2. QED
      BY <2>1
  <1>16. ASSUME w.anchored, NEW c \in steady
         PROVE  /\ c \in Candidates(x) /\ c \in Customer
                /\ c \in matching <=> After(table[c].name, c, x)
                /\ v.shown[c] = IF c \in page \/ c \notin matching THEN 1 ELSE 0
    <2>1. /\ c \in Candidates(x)
          /\ w.shown[c] = IF After(table[c].name, c, x) THEN 0 ELSE 1
      BY <1>1, <1>2, <1>4, <1>7, <1>16, ShownLemma
    <2>2. c \in matching <=> After(table[c].name, c, x)
      BY <1>3, <2>1
    <2>3. v.shown[c] = w.shown[c] + IF c \in page THEN 1 ELSE 0
      BY <1>6, <1>10, <1>11, <1>16
    <2>4. w.shown[c] = IF c \in matching THEN 0 ELSE 1
      BY <2>1, <2>2
    <2>5. v.shown[c] = IF c \in page \/ c \notin matching THEN 1 ELSE 0
      BY <1>8a, <2>3, <2>4
    <2>6. QED
      BY <1>10, <1>16, <2>1, <2>2, <2>5
  <1>17. CASE page = matching
    <2>1. PICK y : y = Answered(x, "ok", "none")
      OBVIOUS
    <2>2. /\ y \in Request /\ y.phase = "done" /\ y.by = x.by /\ y.input = x.input
          /\ y.answer = "ok" /\ y.evidence = "none" /\ y.cursor = 0
      <3>1. "ok" \in Answer
        BY DEF Answer
      <3>2. QED
        BY <2>1, <3>1, AnsweredLemma
    <2>3. Judged(y)
      BY <2>2 DEF Judged, DenialReason
    <2>4. Isolated(y, v)
      BY <1>14, <1>15, <2>2 DEF Isolated
    <2>5. w.anchored => \A c \in steady : v.shown[c] = 1
      BY <1>16, <1>17
    <2>6. Walking(y, v)
      BY <1>11, <2>2, <2>5 DEF Walking
    <2>7. Sound(q, y, v)
      BY <1>13, <2>2, <2>3, <2>4, <2>6 DEF Sound
    <2>8. req' = [req EXCEPT ![q] = y]
      BY <1>8c, <1>17, <2>1 DEF Goto
    <2>9. ~ Writes(y.input.op)
      BY <1>13, <2>2 DEF Writes, Collects
    <2>10. req[q].phase # "done" /\ faults' \in Nat
      BY <1>2, <1>4 DEF IInv, TypeOK
    <2>11. QED
      BY <1>4, <1>11, <1>12, <2>2, <2>7, <2>8, <2>9, <2>10, Becomes
  <1>18. CASE page # matching
    <2>1. PICK last \in page :
             /\ \A c \in page \ {last} : Before(c, last)
             /\ Goto(q, [x EXCEPT !.phase = "paged", !.cursor = last,
                                  !.bound = x.input, !.key = 0])
      BY <1>8d, <1>18
    <2>2. last \in DOMAIN table /\ last \in Customer /\ last # 0 /\ last \in matching
      BY <1>3, <1>9, <1>8a, CustomerActionsAssumption
    <2>3. PICK y : y = [x EXCEPT !.phase = "paged", !.cursor = last,
                                 !.bound = x.input, !.key = 0]
      OBVIOUS
    <2>4. /\ y \in Request /\ y.phase = "paged" /\ y.scope = x.scope
          /\ y.by = x.by /\ y.input = x.input /\ y.cursor = last
          /\ y.bound = x.input /\ y.answer = x.answer /\ y.evidence = x.evidence
      BY <1>13, <2>2, <2>3 DEF Request, Phase
    <2>5. Judged(y)
      BY <1>13, <2>4 DEF Judged
    <2>6. Isolated(y, v)
      BY <1>14, <1>15, <2>4 DEF Isolated
    <2>7. ASSUME w.anchored, NEW c \in steady
          PROVE  /\ c \in DOMAIN table /\ Selects(y, table[c])
                 /\ v.shown[c] = IF Past(y, c) THEN 1 ELSE 0
      <3>1. /\ c \in DOMAIN table /\ Selects(x, table[c])
            /\ c \in matching <=> After(table[c].name, c, x)
            /\ v.shown[c] = IF c \in page \/ c \notin matching THEN 1 ELSE 0
        BY <1>9, <1>16, <2>7 DEF Candidates
      <3>2. Selects(y, table[c])
        BY <2>4, <3>1 DEF Selects, businessIds
      <3>3. /\ table[c].name \in Nat /\ c \in Nat
            /\ table[last].name \in Nat /\ last \in Nat
        BY <1>9, <2>2, <3>1, CustomerActionsAssumption DEF IInv, TypeOK, Row
      <3>4. Past(y, c) <=> (c = last \/ Before(c, last))
        BY <2>4, <3>3 DEF Past, CursorKey, Before
      <3>5. CASE c \in page
        BY <2>1, <3>1, <3>2, <3>4, <3>5
      <3>6. CASE c \in matching \ page
        <4>1. Before(last, c) /\ c # last
          BY <1>8b, <3>6
        <4>2. ~ Before(c, last)
          BY <3>3, <4>1 DEF Before
        <4>3. QED
          BY <3>1, <3>2, <3>4, <3>6, <4>1, <4>2
      <3>7. CASE c \notin matching
        <4>1. x.cursor # 0 /\ x.key \in Name /\ x.key \in Nat /\ x.cursor \in Nat
          <5>1. x.cursor # 0
            BY <3>1, <3>7 DEF After
          <5>2. x.key \in Name
            BY <1>2, <1>4, <5>1 DEF Sound, Walking
          <5>3. QED
            BY <5>1, <5>2, CustomerActionsAssumption DEF Request
        <4>2. After(table[last].name, last, x)
          BY <1>3, <2>2
        <4>3. Before(c, last)
          BY <3>1, <3>3, <3>7, <4>1, <4>2 DEF After, Before
        <4>4. QED
          BY <3>1, <3>2, <3>4, <3>7, <4>3
      <3>8. QED
        BY <3>5, <3>6, <3>7
    <2>8. Walking(y, v)
      BY <1>11, <2>2, <2>4, <2>7 DEF Walking
    <2>9. Sound(q, y, v)
      BY <1>13, <2>4, <2>5, <2>6, <2>8 DEF Sound
    <2>10. req' = [req EXCEPT ![q] = y]
      BY <2>1, <2>3 DEF Goto
    <2>11. req[q].phase # "done" /\ faults' \in Nat
      BY <1>2, <1>4 DEF IInv, TypeOK
    <2>12. QED
      BY <1>4, <1>11, <1>12, <2>4, <2>9, <2>10, <2>11, Becomes
  <1>19. QED
    BY <1>17, <1>18

-----------------------------------------------------------------------------
\* The batch.

\* The table after the batch of request q: one own row is new or changed.
LEMMA WrittenLemma ==
    ASSUME IInv, NEW q \in Req, NEW x \in Request, x = req[q], x.phase = "writing",
           NEW c, c = x.entry.customer, NEW after, after = Written(table, x, x.set)
    PROVE  /\ c \in Customer /\ DOMAIN after = DOMAIN table \cup {c}
           /\ after \in [DOMAIN after -> Row]
           /\ \A d \in DOMAIN table \ {c} : after[d] = table[d]
           /\ after[c].org = "own" /\ after[c].business \in Business
           /\ c \in DOMAIN table => table[c].org = "own"
           /\ \A l \in Req \ {q} : NewId[l] = c => c \in DOMAIN table
           /\ x.input.op # "create" => c = x.input.target
  <1>1. /\ x.input \in Input /\ Writes(x.input.op) /\ x.set = AskedFor(x.input)
        /\ x.entry \in Entry
        /\ c = IF x.input.op = "create" THEN NewId[q] ELSE x.input.target
        /\ x.input.op \in {"create", "move"} => x.input.asked["business"] \in Business
        /\ x.input.op # "create" => Own(x.input.target)
        /\ NewId[q] \notin DOMAIN table
    BY Known DEF Sound, Proposed
  <1>2. c \in Customer
    BY <1>1 DEF Entry
  <1>3. table \in [DOMAIN table -> Row]
    BY DEF IInv, TypeOK
  <1>4. CASE x.input.op = "create"
    <2>1. after = [d \in DOMAIN table \cup {c} |-> IF d = c THEN x.set ELSE table[d]]
      BY <1>4 DEF Written
    <2>2. c = NewId[q] /\ c \notin DOMAIN table
      BY <1>1, <1>4
    <2>3. x.set \in Row /\ x.set.org = "own" /\ x.set.business \in Business
      BY <1>1, <1>4, CreateLemma
    <2>4. \A l \in Req \ {q} : NewId[l] # c
      BY <2>2, CustomerActionsAssumption
    <2>5. QED
      BY <1>2, <1>3, <1>4, <2>1, <2>2, <2>3, <2>4
  <1>5. CASE x.input.op # "create"
    <2>1. c = x.input.target /\ Own(c)
      BY <1>1, <1>5
    <2>2. PICK row : row = write(table[c], x.set)
      OBVIOUS
    <2>3. after = [table EXCEPT ![c] = row]
      BY <1>5, <2>1, <2>2 DEF Written
    <2>4. c \in DOMAIN table /\ table[c].org = "own" /\ table[c].business \in Business
          /\ table[c] \in Row
      BY <1>3, <2>1 DEF Own, IInv, TypeOK
    <2>5. x.input.op \in {"update", "archive", "restore", "move"}
      BY <1>1, <1>5 DEF Writes
    <2>6. row \in Row /\ row.org = "own" /\ row.business \in Business
      BY <1>1, <2>2, <2>4, <2>5, WriteLemma
    <2>7. QED
      BY <1>2, <1>3, <2>1, <2>3, <2>4, <2>6
  <1>6. QED
    BY <1>4, <1>5

\* What a batch means to the walk of request l.
LEMMA WalkedLemma ==
    ASSUME IInv, NEW c, NEW after, NEW l \in Req, NEW w \in Walk, w = walk[l],
           NEW r \in Request, r = req[l], NEW v, v = Walked(c, table, after)[l]
    PROVE  /\ v \in Walk /\ v.shown = w.shown /\ v.steady \subseteq w.steady
           /\ v.anchored => w.anchored
           /\ (c \in DOMAIN table /\ c \in v.steady) =>
                 after[c].name = table[c].name /\ Selects(r, after[c])
           /\ (c \in DOMAIN table /\ v.anchored /\ r.cursor = c /\ r.phase # "page") =>
                 after[c].name = table[c].name
  <1>1. CASE c \notin DOMAIN table
    <2>1. v = w
      BY <1>1 DEF Walked
    <2>2. QED
      BY <1>1, <2>1
  <1>2. CASE c \in DOMAIN table
    <2>1. PICK steady : steady = {d \in w.steady :
              d # c \/ (~ (table[c].name # after[c].name) /\ Selects(r, after[c]))}
      OBVIOUS
    <2>2. PICK anchored \in BOOLEAN : anchored <=>
              (w.anchored /\ ~ (/\ table[c].name # after[c].name
                                /\ r.cursor = c /\ r.phase # "page"))
      OBVIOUS
    <2>3. v = [shown |-> w.shown, steady |-> steady, anchored |-> anchored]
      BY <1>2, <2>1, <2>2 DEF Walked
    <2>4. v.shown = w.shown /\ v.steady = steady /\ v.anchored = anchored
      BY <2>3
    <2>5. v \in Walk
      BY <2>1, <2>3 DEF Walk
    <2>6. c \in steady => after[c].name = table[c].name /\ Selects(r, after[c])
      BY <2>1
    <2>7. QED
      BY <2>1, <2>2, <2>4, <2>5, <2>6
  <1>3. QED
    BY <1>1, <1>2

\* The batch of request q leaves what is sound of the others.
LEMMA OthersSound ==
    ASSUME IInv, NEW q \in Req, NEW x \in Request, x = req[q], x.phase = "writing",
           NEW c, c = x.entry.customer, table' = Written(table, x, x.set),
           NEW l \in Req \ {q}, NEW r \in Request, r = req[l],
           NEW v, v = Walked(c, table, table')[l]
    PROVE  Sound(l, r, v)'
  <1>1. PICK w \in Walk : w = walk[l] /\ Sound(l, r, w)
    BY Known
  <1>2. PICK after : after = table' /\ after = Written(table, x, x.set)
    OBVIOUS
  <1>3. /\ c \in Customer /\ DOMAIN after = DOMAIN table \cup {c}
        /\ \A d \in DOMAIN table \ {c} : after[d] = table[d]
        /\ after[c].org = "own"
        /\ c \in DOMAIN table => table[c].org = "own"
        /\ NewId[l] = c => c \in DOMAIN table
    BY <1>2, WrittenLemma
  <1>4. /\ v \in Walk /\ v.shown = w.shown /\ v.steady \subseteq w.steady
        /\ v.anchored => w.anchored
        /\ (c \in DOMAIN table /\ c \in v.steady) =>
              after[c].name = table[c].name /\ Selects(r, after[c])
        /\ (c \in DOMAIN table /\ v.anchored /\ r.cursor = c /\ r.phase # "page") =>
              after[c].name = table[c].name
    BY <1>1, <1>2, WalkedLemma
  <1>5. NewId[l] \in DOMAIN after => r.phase = "done"
    BY <1>1, <1>3 DEF Sound
  <1>6. \A d : Own(d) => d \in DOMAIN after /\ after[d].org = "own"
    BY <1>3 DEF Own
  <1>7. Isolated(r, v)'
    <2>1. ASSUME NEW d \in DOMAIN after, after[d].org = "other"
          PROVE  /\ v.shown[d] = 0
                 /\ (r.input.target = d /\ authorize(r.by, r.input.op)) =>
                       r.answer \notin {"ok", "forbidden"}
      <3>1. d \in DOMAIN table /\ table[d].org = "other"
        BY <1>3, <2>1
      <3>2. QED
        BY <1>1, <1>4, <3>1 DEF Sound, Isolated
    <2>2. QED
      BY <1>2, <2>1 DEF Isolated
  <1>8. r.cursor # 0 => r.cursor \in DOMAIN table
    BY <1>1 DEF Sound, Walking
  <1>9. ASSUME r.cursor # 0, v.anchored, r.bound = r.input, NEW d \in v.steady
        PROVE  /\ d \in DOMAIN table' /\ Selects(r, table'[d])
               /\ v.shown[d] = IF Past(r, d)' THEN 1 ELSE 0
    <2>1. /\ d \in DOMAIN table /\ Selects(r, table[d])
          /\ w.shown[d] = IF Past(r, d) THEN 1 ELSE 0
      BY <1>1, <1>4, <1>9 DEF Sound, Walking
    <2>2. d \in DOMAIN after /\ after[d].name = table[d].name /\ Selects(r, after[d])
      BY <1>3, <1>4, <1>9, <2>1
    <2>3. r.phase # "page" => after[r.cursor].name = table[r.cursor].name
      BY <1>3, <1>4, <1>8, <1>9
    <2>4. Past(r, d)' <=> Past(r, d)
      BY <1>2, <2>2, <2>3 DEF Past, CursorKey
    <2>5. QED
      BY <1>2, <1>4, <2>1, <2>2, <2>4
  <1>10. Walking(r, v)'
    <2>1. /\ r.cursor # 0 => r.cursor \in DOMAIN table'
          /\ (r.cursor = 0 /\ r.phase # "done") => \A d \in Customer : v.shown[d] = 0
          /\ r.phase = "paged" => r.cursor # 0 /\ r.bound = r.input
          /\ (r.phase = "page" /\ r.cursor # 0) => r.bound = r.input /\ r.key \in Name
      BY <1>1, <1>2, <1>3, <1>4, <1>8 DEF Sound, Walking
    <2>2. (r.phase = "done" /\ r.answer = "ok" /\ Collects(r.input.op) /\ v.anchored)
             => \A d \in v.steady : v.shown[d] = 1
      BY <1>1, <1>4 DEF Sound, Walking
    <2>3. (r.cursor # 0 /\ v.anchored /\ r.bound = r.input) =>
             \A d \in v.steady : /\ d \in DOMAIN table' /\ Selects(r, table'[d])
                                 /\ v.shown[d] = IF Past(r, d)' THEN 1 ELSE 0
      BY <1>9
    <2>4. QED
      BY <2>1, <2>2, <2>3 DEF Walking, Past, CursorKey, Selects, businessIds
  <1>11. (r.phase \in {"reserving", "writing"} => Proposed(l, r))'
    BY <1>1, <1>2, <1>6 DEF Sound, Proposed, Own
  <1>12. Judged(r)'
    BY <1>1 DEF Sound, Judged
  <1>13. QED
    BY <1>1, <1>2, <1>5, <1>7, <1>10, <1>11, <1>12 DEF Sound

LEMMA CommitStep ==
    ASSUME IInv, NEW q \in Req, Commit(q)
    PROVE  IInv'
  <1>1. PICK x \in Request : x = req[q] /\ Sound(q, x, walk[q])
    BY Known
  <1>2. PICK c : c = x.entry.customer
    OBVIOUS
  <1>3. /\ x.phase = "writing" /\ table' = Written(table, x, x.set)
        /\ audit' = Append(audit, x.entry)
        /\ wanted' = Written(wanted, x, AskedFor(x.input))
        /\ walk' = Walked(c, table, table')
        /\ Fault \/ UNCHANGED faults
    BY <1>1, <1>2 DEF Commit
  <1>4. PICK answer \in {"ok", "unavailable"} : Goto(q, Answered(x, answer, "none"))
    BY <1>1 DEF Commit
  <1>5. PICK y : y = Answered(x, answer, "none")
    OBVIOUS
  <1>6. /\ y \in Request /\ y.phase = "done" /\ y.by = x.by /\ y.input = x.input
        /\ y.degraded = x.degraded /\ y.answer = answer /\ y.evidence = "none"
        /\ y.cursor = 0
    <2>1. answer \in Answer
      BY DEF Answer
    <2>2. QED
      BY <1>5, <2>1, AnsweredLemma
  <1>7. req' = [req EXCEPT ![q] = y]
    BY <1>4, <1>5 DEF Goto
  <1>8. req \in [Req -> Request] /\ walk \in [Req -> Walk]
    BY DEF IInv, TypeOK
  <1>9. req'[q] = y /\ \A l \in Req \ {q} : req'[l] = req[l]
    BY <1>7, <1>8
  <1>10. PICK after : after = table' /\ after = Written(table, x, x.set)
    BY <1>3
  <1>11. /\ c \in Customer /\ DOMAIN after = DOMAIN table \cup {c}
         /\ after \in [DOMAIN after -> Row]
         /\ \A d \in DOMAIN table \ {c} : after[d] = table[d]
         /\ after[c].org = "own" /\ after[c].business \in Business
         /\ c \in DOMAIN table => table[c].org = "own"
         /\ x.input.op # "create" => c = x.input.target
    <2>1. x = req[q] /\ x.phase = "writing" /\ after = Written(table, x, x.set)
      BY <1>1, <1>3, <1>10
    <2>2. QED
      BY <1>2, <2>1, WrittenLemma
  <1>12. /\ x.by \in Principal /\ x.input \in Input /\ Writes(x.input.op) /\ ~ x.degraded
         /\ x.set = AskedFor(x.input) /\ x.entry \in Entry /\ x.entry.by = q
    BY <1>1, <1>3 DEF Sound, Proposed
  <1>13. \A l \in Req : walk'[l] \in Walk /\ walk'[l].shown = walk[l].shown
    <2>1. ASSUME NEW l \in Req
          PROVE  walk'[l] \in Walk /\ walk'[l].shown = walk[l].shown
      <3>1. PICK w \in Walk, r \in Request : w = walk[l] /\ r = req[l]
        BY <1>8
      <3>2. PICK v : v = Walked(c, table, after)[l]
        OBVIOUS
      <3>3. v \in Walk /\ v.shown = w.shown
        BY <3>1, <3>2, WalkedLemma
      <3>4. QED
        BY <1>3, <1>10, <3>1, <3>2, <3>3
    <2>2. QED
      BY <2>1
  <1>14. TypeOK'
    <2>1. DOMAIN table' \subseteq Customer /\ table' \in [DOMAIN table' -> Row]
      BY <1>10, <1>11 DEF IInv, TypeOK
    <2>2. \A d \in DOMAIN table' : table'[d].org = "own" => table'[d].business \in Business
      BY <1>10, <1>11 DEF IInv, TypeOK
    <2>3. audit' \in Seq(Entry)
      BY <1>3, <1>12 DEF IInv, TypeOK
    <2>4. req' \in [Req -> Request]
      BY <1>6, <1>7, <1>8
    <2>5. walk' \in [Req -> Walk]
      <3>1. walk' = [l \in Req |-> walk'[l]]
        BY <1>3 DEF Walked
      <3>2. QED
        BY <1>13, <3>1
    <2>6. faults' \in Nat
      BY <1>3, FaultLemma
    <2>7. QED
      BY <2>1, <2>2, <2>3, <2>4, <2>5, <2>6 DEF TypeOK
  <1>15. EachSound'
    <2>1. ASSUME NEW l \in Req, l # q PROVE Sound(l, req[l], walk[l])'
      <3>1. PICK r \in Request : r = req[l] /\ r = req'[l]
        BY <1>8, <1>9, <2>1
      <3>2. PICK v : v = Walked(c, table, table')[l] /\ v = walk'[l]
        BY <1>3
      <3>3. Sound(l, r, v)'
        BY <1>1, <1>2, <1>3, <2>1, <3>1, <3>2, OthersSound
      <3>4. QED
        BY <3>1, <3>2, <3>3 DEF Sound, Proposed, Judged, Isolated, Walking, Past, CursorKey,
                          Own
    <2>2. Sound(q, req[q], walk[q])'
      <3>1. PICK v \in Walk : v = walk'[q] /\ v.shown = walk[q].shown
        BY <1>13
      <3>2. Judged(y)'
        BY <1>6 DEF Judged, DenialReason
      <3>3. Isolated(y, v)'
        <4>1. ASSUME NEW d \in DOMAIN after, after[d].org = "other"
              PROVE  v.shown[d] = 0 /\ y.input.target # d
          <5>1. d \in DOMAIN table /\ table[d].org = "other" /\ d # c
            BY <1>11, <4>1
          <5>2. v.shown[d] = 0
            BY <1>1, <3>1, <5>1 DEF Sound, Isolated
          <5>3. y.input.target # d
            <6>1. x.input.op = "create" => x.input.target = 0
              BY <1>12, BodyLemma DEF NamesCustomer
            <6>2. d # 0
              BY <5>1, CustomerActionsAssumption DEF IInv, TypeOK
            <6>3. QED
              BY <1>6, <1>11, <5>1, <6>1, <6>2
          <5>4. QED
            BY <5>2, <5>3
        <4>2. QED
          BY <1>10, <4>1 DEF Isolated
      <3>4. Walking(y, v)'
        BY <1>6, <1>12 DEF Walking, Writes, Collects
      <3>5. Sound(q, y, v)'
        BY <1>6, <1>12, <3>2, <3>3, <3>4 DEF Sound
      <3>6. QED
        BY <1>9, <3>1, <3>5 DEF Sound, Proposed, Judged, Isolated, Walking, Past,
                               CursorKey, Own
    <2>3. QED
      BY <2>1, <2>2 DEF EachSound
  <1>16. Trail'
    <2>1. /\ audit \in Seq(Entry) /\ \A i \in DOMAIN audit : audit[i] \in Entry
      BY DEF IInv, TypeOK
    <2>2. PICK n \in Nat : n = Len(audit)
      BY <2>1
    <2>3. /\ DOMAIN audit = 1..n /\ DOMAIN audit' = 1..(n + 1)
          /\ audit'[n + 1] = x.entry /\ \A i \in 1..n : audit'[i] = audit[i]
      BY <1>3, <1>12, <2>1, <2>2
    <2>4. \A i \in 1..n : audit[i].by \in Req \ {q}
      BY <1>1, <1>3, <2>1, <2>3 DEF IInv, Trail, Entry
    <2>5. \A d : Own(d) => d \in DOMAIN table' /\ table'[d].org = "own"
      BY <1>10, <1>11 DEF Own
    <2>6. \A i \in DOMAIN audit' :
             /\ req'[audit'[i].by].phase = "done" /\ ~ req'[audit'[i].by].degraded
             /\ req'[audit'[i].by].answer \in {"ok", "unavailable"}
             /\ audit'[i].customer \in DOMAIN table'
             /\ table'[audit'[i].customer].org = "own"
      <3>1. ASSUME NEW i \in 1..n
            PROVE  /\ req'[audit'[i].by].phase = "done" /\ ~ req'[audit'[i].by].degraded
                   /\ req'[audit'[i].by].answer \in {"ok", "unavailable"}
                   /\ audit'[i].customer \in DOMAIN table'
                   /\ table'[audit'[i].customer].org = "own"
        BY <1>9, <2>3, <2>4, <2>5 DEF IInv, Trail
      <3>2. /\ req'[audit'[n + 1].by].phase = "done"
            /\ ~ req'[audit'[n + 1].by].degraded
            /\ req'[audit'[n + 1].by].answer \in {"ok", "unavailable"}
            /\ audit'[n + 1].customer \in DOMAIN table'
            /\ table'[audit'[n + 1].customer].org = "own"
        BY <1>2, <1>6, <1>9, <1>10, <1>11, <1>12, <2>3
      <3>3. \A i \in 1..(n + 1) : i \in 1..n \/ i = n + 1
        OBVIOUS
      <3>4. QED
        BY <2>3, <3>1, <3>2, <3>3
    <2>7. \A i, j \in DOMAIN audit' : audit'[i].by = audit'[j].by => i = j
      <3>1. \A i, j \in 1..n : audit[i].by = audit[j].by => i = j
        BY <2>3 DEF IInv, Trail
      <3>2. QED
        BY <1>12, <2>3, <2>4, <3>1
    <2>8. ASSUME NEW l \in Req, req'[l].phase = "done", req'[l].answer = "ok",
                 Writes(req'[l].input.op)
          PROVE  \E i \in DOMAIN audit' : audit'[i].by = l
      <3>1. CASE l = q
        <4>1. n + 1 \in DOMAIN audit' /\ audit'[n + 1].by = l
          BY <1>12, <2>3, <3>1
        <4>2. QED
          BY <4>1
      <3>2. CASE l # q
        <4>1. PICK i \in DOMAIN audit : audit[i].by = l
          BY <1>9, <2>8, <3>2 DEF IInv, Trail
        <4>2. i \in DOMAIN audit' /\ audit'[i].by = l
          BY <2>3, <4>1
        <4>3. QED
          BY <4>2
      <3>3. QED
        BY <3>1, <3>2
    <2>9. QED
      BY <2>6, <2>7, <2>8 DEF Trail, Own
  <1>17. LastAskedStands'
    BY <1>3, <1>12 DEF IInv, LastAskedStands
  <1>18. QED
    BY <1>14, <1>15, <1>16, <1>17 DEF IInv

-----------------------------------------------------------------------------
\* The invariant.

LEMMA InitHolds ==
    ASSUME Init
    PROVE  IInv
  <1>1. /\ table \in [DOMAIN table -> Row] /\ DOMAIN table \subseteq Customer
        /\ \A c \in DOMAIN table : table[c].org = "own" => table[c].business \in Business
        /\ \A q \in Req : NewId[q] \notin DOMAIN table
    BY CustomerActionsAssumption DEF Init
  <1>2. PICK y \in Request : y = Idle
    BY IdleType
  <1>3. /\ y.phase = "idle" /\ y.cursor = 0 /\ y.input = NoBody /\ y.answer = "none"
        /\ y.evidence = "none"
    BY <1>2 DEF Idle
  <1>4. PICK v : v = NoWalk
    OBVIOUS
  <1>5. v \in Walk /\ \A c \in Customer : v.shown[c] = 0
    BY <1>4 DEF NoWalk, Walk
  <1>6. req = [q \in Req |-> y] /\ walk = [q \in Req |-> v]
    BY <1>2, <1>4 DEF Init
  <1>7. TypeOK
    BY <1>1, <1>5, <1>6 DEF Init, TypeOK
  <1>8. EachSound
    <2>1. ASSUME NEW q \in Req PROVE Sound(q, y, v)
      <3>1. Judged(y)
        BY <1>3 DEF Judged
      <3>2. Isolated(y, v)
        BY <1>1, <1>3, <1>5 DEF Isolated
      <3>3. Walking(y, v)
        BY <1>3, <1>5 DEF Walking
      <3>4. QED
        BY <1>1, <1>3, <3>1, <3>2, <3>3 DEF Sound
    <2>2. QED
      BY <1>6, <2>1 DEF EachSound
  <1>9. Trail
    BY <1>3, <1>6 DEF Init, Trail
  <1>10. QED
    BY <1>7, <1>8, <1>9 DEF IInv, Init, LastAskedStands

LEMMA NextKeeps ==
    ASSUME IInv, [Next]_vars
    PROVE  IInv'
  <1>1. CASE UNCHANGED vars
    <2>1. UNCHANGED <<table, audit, req, walk, wanted, faults>>
      BY <1>1 DEF vars
    <2>2. TypeOK'
      BY <2>1 DEF IInv, TypeOK
    <2>3. EachSound'
      BY <2>1 DEF IInv, EachSound, Sound, Proposed, Judged, Isolated, Walking, Past,
                  CursorKey, Own
    <2>4. Trail'
      BY <2>1 DEF IInv, Trail, Own
    <2>5. QED
      BY <2>1, <2>2, <2>3, <2>4 DEF IInv, LastAskedStands
  <1>2. ASSUME NEW q \in Req, Step(q)
        PROVE  IInv'
    <2>1. CASE Begin(q)
      BY <2>1, BeginLemma
    <2>2. CASE OpenStore(q)
      BY <2>2, OpenStoreLemma
    <2>3. CASE ReadBusinesses(q)
      BY <2>3, ReadBusinessesLemma
    <2>4. CASE Create(q)
      BY <2>4, CreateStep
    <2>5. CASE Get(q)
      BY <2>5, GetStep
    <2>6. CASE Update(q)
      BY <2>6, UpdateStep
    <2>7. CASE Archive(q)
      BY <2>7, ArchiveStep
    <2>8. CASE Restore(q)
      BY <2>8, RestoreStep
    <2>9. CASE Move(q)
      BY <2>9, MoveStep
    <2>10. CASE Collect(q)
      BY <2>10, CollectStep
    <2>11. CASE FindAnchor(q)
      BY <2>11, FindAnchorStep
    <2>12. CASE ReadPage(q)
      BY <2>12, ReadPageStep
    <2>13. CASE Reserve(q)
      BY <2>13, ReserveStep
    <2>14. CASE Commit(q)
      BY <2>14, CommitStep
    <2>15. CASE CallFails(q)
      BY <2>15, CallFailsStep
    <2>16. CASE RecordDenial(q)
      BY <2>16, RecordDenialStep
    <2>17. QED
      BY <1>2, <2>1, <2>2, <2>3, <2>4, <2>5, <2>6, <2>7, <2>8, <2>9, <2>10, <2>11,
         <2>12, <2>13, <2>14, <2>15, <2>16 DEF Step
  <1>3. QED
    BY <1>1, <1>2 DEF Next

LEMMA Invariance == Spec => []IInv
  <1>1. Init => IInv
    BY InitHolds
  <1>2. IInv /\ [Next]_vars => IInv'
    BY NextKeeps
  <1>3. QED
    BY <1>1, <1>2, PTL DEF Spec

-----------------------------------------------------------------------------
\* Decisions, when they are carried out.

\* What request r, that is to update a customer, has decided on the row it saw.
Decided(r) ==
    (r.phase \in {"reserving", "writing"} /\ r.seen # NoRow) =>
        /\ r.seen \in Row /\ r.input.op \in {"update", "archive", "restore", "move"}
        /\ r.input.op \in {"update", "archive"} => r.seen.status = "active"
        /\ r.input.op = "restore" => r.seen.status = "archived"
        /\ {r.seen.business, write(r.seen, r.set).business} \subseteq ScopeOf(r.by)
        /\ r.entry.related = {r.seen.business, write(r.seen, r.set).business}
        /\ r.entry.changed =
              {col \in DOMAIN r.seen : r.seen[col] # write(r.seen, r.set)[col]}

EachDecided == \A q \in Req : Decided(req[q])

\* Only the request that takes a step changes.
LEMMA OneMoves ==
    ASSUME IInv, NEW q \in Req, Step(q)
    PROVE  \A l \in Req \ {q} : req'[l] = req[l]
  <1>1. ASSUME NEW y, Goto(q, y)
        PROVE  \A l \in Req \ {q} : req'[l] = req[l]
    BY <1>1 DEF Goto, IInv, TypeOK
  <1>2. CASE Begin(q)
    BY <1>1, <1>2 DEF Begin
  <1>3. CASE OpenStore(q) \/ ReadBusinesses(q) \/ Create(q) \/ Get(q)
    BY <1>1, <1>3 DEF OpenStore, ReadBusinesses, Create, Get
  <1>4. CASE Update(q) \/ Archive(q) \/ Restore(q) \/ Move(q)
    BY <1>1, <1>4 DEF Update, Archive, Restore, Handler, Move
  <1>5. CASE Collect(q) \/ FindAnchor(q)
    BY <1>1, <1>5 DEF Collect, FindAnchor
  <1>6. CASE ReadPage(q)
    BY <1>1, <1>6 DEF ReadPage
  <1>7. CASE Reserve(q) \/ Commit(q) \/ CallFails(q) \/ RecordDenial(q)
    BY <1>1, <1>7 DEF Reserve, Commit, CallFails, RecordDenial
  <1>8. QED
    BY <1>2, <1>3, <1>4, <1>5, <1>6, <1>7 DEF Step

\* Request q comes to y, which has decided nothing yet, or no longer.
LEMMA Undecided ==
    ASSUME IInv, NEW q \in Req, NEW y, Goto(q, y),
           y.phase \notin {"reserving", "writing"}
    PROVE  Decided(req[q])'
  <1>1. req'[q] = y
    BY DEF Goto, IInv, TypeOK
  <1>2. QED
    BY <1>1 DEF Decided

LEMMA FailsUndecided ==
    ASSUME IInv, NEW q \in Req, NEW r \in Request, NEW code \in Code,
           Goto(q, fail(r, code))
    PROVE  Decided(req[q])'
  <1>1. PICK y : y = fail(r, code)
    OBVIOUS
  <1>2. y.phase \notin {"reserving", "writing"}
    BY <1>1, FailLemma
  <1>3. QED
    BY <1>1, <1>2, Undecided

LEMMA AnsweredUndecided ==
    ASSUME IInv, NEW q \in Req, NEW r \in Request, NEW answer \in Answer,
           NEW evidence \in {"none", "recorded", "announced"},
           Goto(q, Answered(r, answer, evidence))
    PROVE  Decided(req[q])'
  <1>1. PICK y : y = Answered(r, answer, evidence)
    OBVIOUS
  <1>2. y.phase = "done"
    BY <1>1, AnsweredLemma
  <1>3. QED
    BY <1>1, <1>2, Undecided

\* What is proposed for a row that was seen has been decided on it.
LEMMA ProposeDecides ==
    ASSUME IInv, NEW q \in Req, NEW row \in Row, NEW set, NEW related, NEW changed,
           Goto(q, Propose(q, row, set, related, changed)),
           req[q].input.op \in {"update", "archive", "restore", "move"},
           req[q].input.op \in {"update", "archive"} => row.status = "active",
           req[q].input.op = "restore" => row.status = "archived",
           {row.business, write(row, set).business} \subseteq ScopeOf(req[q].by),
           related = {row.business, write(row, set).business},
           changed = {col \in DOMAIN row : row[col] # write(row, set)[col]}
    PROVE  Decided(req[q])'
  <1>1. PICK x \in Request : x = req[q]
    BY Known
  <1>2. CASE x.degraded
    <2>1. Goto(q, Answered(x, "unavailable", "none")) /\ "unavailable" \in Answer
      BY <1>1, <1>2 DEF Propose, MustDefer, Answer
    <2>2. QED
      BY <2>1, AnsweredUndecided
  <1>3. CASE ~ x.degraded
    <2>1. PICK entry : entry = [by |-> q, op |-> x.input.op,
                              customer |-> IF x.input.op = "create"
                                           THEN NewId[q] ELSE x.input.target,
                              related |-> related, changed |-> changed]
      OBVIOUS
    <2>2. PICK y : y = [x EXCEPT !.phase = "reserving", !.seen = row, !.set = set,
                                 !.entry = entry]
      OBVIOUS
    <2>3. /\ y.seen = row /\ y.set = set /\ y.entry = entry
          /\ y.by = x.by /\ y.input = x.input
          /\ entry.related = related /\ entry.changed = changed
      BY <2>1, <2>2 DEF Request
    <2>4. Decided(y)
      BY <1>1, <2>3 DEF Decided
    <2>5. req'[q] = y
      BY <1>1, <1>3, <2>1, <2>2 DEF Propose, MustDefer, Goto, IInv, TypeOK
    <2>6. QED
      BY <2>4, <2>5 DEF Decided
  <1>4. QED
    BY <1>2, <1>3

\* A handler that updates the row it resolved decides within the lifecycle.
LEMMA HandlerDecides ==
    ASSUME IInv, NEW q \in Req, NEW op \in {"update", "archive", "restore"},
           NEW may \in BOOLEAN, NEW set, NEW related, NEW changed,
           Handling(q, op),
           Goto(q, IF resolve(req[q]) # "ok" THEN fail(req[q], resolve(req[q]))
                   ELSE IF ~ may THEN fail(req[q], "failed_precondition")
                   ELSE Propose(q, table[req[q].input.target], set, related, changed)),
           set = AskedFor(req[q].input), related = {table[req[q].input.target].business},
           may => /\ op \in {"update", "archive"} => Target(q).status = "active"
                  /\ op = "restore" => Target(q).status = "archived",
           (may /\ Target(q) \in Row) =>
              changed = {col \in DOMAIN Target(q) :
                            Target(q)[col] # write(Target(q), set)[col]}
    PROVE  Decided(req[q])'
  <1>1. PICK x \in Request : x = req[q] /\ Sound(q, x, walk[q])
    BY Known
  <1>2. /\ x.phase = "handle" /\ x.input.op = op /\ x.input \in Input
        /\ x.scope = ScopeOf(x.by)
    BY <1>1 DEF Handling, Sound
  <1>3. CASE resolve(x) # "ok"
    <2>1. PICK code \in Code : code = resolve(x)
      BY <1>3, ResolveLemma DEF Code
    <2>2. Goto(q, fail(x, code))
      BY <1>1, <1>3, <2>1
    <2>3. QED
      BY <2>2, FailsUndecided
  <1>4. CASE resolve(x) = "ok" /\ ~ may
    <2>1. Goto(q, fail(x, "failed_precondition")) /\ "failed_precondition" \in Code
      BY <1>1, <1>4 DEF Code
    <2>2. QED
      BY <2>1, FailsUndecided
  <1>5. CASE resolve(x) = "ok" /\ may
    <2>1. Own(x.input.target) /\ table[x.input.target].business \in x.scope
      BY <1>5, ResolveLemma
    <2>2. PICK row \in Row : row = table[x.input.target] /\ row = Target(q)
      BY <1>1, <2>1 DEF IInv, TypeOK, Own, Target
    <2>3. write(row, set).business = row.business
      BY <1>1, <1>2, WriteLemma
    <2>4. /\ op \in {"update", "archive"} => row.status = "active"
          /\ op = "restore" => row.status = "archived"
          /\ changed = {col \in DOMAIN row : row[col] # write(row, set)[col]}
      BY <1>5, <2>2
    <2>5. /\ related = {row.business, write(row, set).business}
          /\ {row.business, write(row, set).business} \subseteq ScopeOf(x.by)
      BY <1>1, <1>2, <2>1, <2>2, <2>3
    <2>6. Goto(q, Propose(q, row, set, related, changed))
      BY <1>1, <1>5, <2>2
    <2>7. QED
      BY <1>1, <1>2, <2>4, <2>5, <2>6, ProposeDecides
  <1>6. QED
    BY <1>3, <1>4, <1>5

\* The columns in which a row differs once some have been set.
LEMMA Differs ==
    ASSUME NEW i \in Input, NEW row \in Row
    PROVE  /\ i.op = "update" =>
                ChangedFields(row, i.asked)
                   = {col \in DOMAIN row : row[col] # write(row, AskedFor(i))[col]}
           /\ (i.op = "archive" /\ row.status = "active") =>
                {"status"} = {col \in DOMAIN row : row[col] # write(row, AskedFor(i))[col]}
           /\ (i.op = "restore" /\ row.status = "archived") =>
                {"status"} = {col \in DOMAIN row : row[col] # write(row, AskedFor(i))[col]}
           /\ (i.op = "move" /\ row.business # i.asked["business"]) =>
                {"business"} = {col \in DOMAIN row : row[col] # write(row, AskedFor(i))[col]}
  <1>1. i \in Body
    BY CustomerActionsAssumption
  <1>2. DOMAIN row = {"org", "business", "status", "name", "mail"}
    BY DEF Row
  <1>3. PICK new : new = write(row, AskedFor(i))
    OBVIOUS
  <1>4. /\ new["org"] = row["org"]
        /\ new["business"] = Column(row, AskedFor(i), "business")
        /\ new["status"] = Column(row, AskedFor(i), "status")
        /\ new["name"] = Column(row, AskedFor(i), "name")
        /\ new["mail"] = Column(row, AskedFor(i), "mail")
    BY <1>3 DEF write
  <1>5. CASE i.op = "update"
    <2>1. AskedFor(i) = i.asked
      BY <1>5 DEF AskedFor
    <2>2. /\ DOMAIN i.asked \subseteq {"name", "mail"}
      <3>1. \/ i.asked \in [name : Name] \/ i.asked \in [mail : Mail]
            \/ i.asked \in [name : Name, mail : Mail]
        BY <1>1, <1>5 DEF Body
      <3>2. QED
        BY <3>1
    <2>3. /\ new["org"] = row["org"] /\ new["business"] = row["business"]
          /\ new["status"] = row["status"]
          /\ new["name"] = IF "name" \in DOMAIN i.asked THEN i.asked["name"] ELSE row["name"]
          /\ new["mail"] = IF "mail" \in DOMAIN i.asked THEN i.asked["mail"] ELSE row["mail"]
      BY <1>4, <2>1, <2>2 DEF Column
    <2>4. ASSUME NEW col
          PROVE  col \in ChangedFields(row, i.asked)
                    <=> col \in {k \in DOMAIN row : row[k] # new[k]}
      BY <1>2, <2>2, <2>3 DEF ChangedFields
    <2>5. QED
      BY <1>3, <1>5, <2>4
  <1>6. CASE i.op = "archive"
    <2>1. AskedFor(i) = [status |-> "archived"]
      BY <1>6 DEF AskedFor
    <2>2. /\ new["org"] = row["org"] /\ new["business"] = row["business"]
          /\ new["status"] = "archived" /\ new["name"] = row["name"]
          /\ new["mail"] = row["mail"]
      BY <1>4, <2>1 DEF Column
    <2>3. QED
      BY <1>2, <1>3, <1>6, <2>2
  <1>7. CASE i.op = "restore"
    <2>1. AskedFor(i) = [status |-> "active"]
      BY <1>7 DEF AskedFor
    <2>2. /\ new["org"] = row["org"] /\ new["business"] = row["business"]
          /\ new["status"] = "active" /\ new["name"] = row["name"]
          /\ new["mail"] = row["mail"]
      BY <1>4, <2>1 DEF Column
    <2>3. QED
      BY <1>2, <1>3, <1>7, <2>2
  <1>8. CASE i.op = "move"
    <2>1. AskedFor(i) = i.asked /\ DOMAIN i.asked = {"business"}
      BY <1>1, <1>8 DEF AskedFor, Body
    <2>2. /\ new["org"] = row["org"] /\ new["business"] = i.asked["business"]
          /\ new["status"] = row["status"] /\ new["name"] = row["name"]
          /\ new["mail"] = row["mail"]
      BY <1>4, <2>1 DEF Column
    <2>3. QED
      BY <1>2, <1>3, <1>8, <2>2
  <1>9. QED
    BY <1>5, <1>6, <1>7, <1>8

LEMMA WritesDecide ==
    ASSUME IInv, NEW q \in Req, Update(q) \/ Archive(q) \/ Restore(q)
    PROVE  Decided(req[q])'
  <1>1. PICK x \in Request : x = req[q] /\ Sound(q, x, walk[q])
    BY Known
  <1>2. x.phase = "handle" /\ x.input \in Input
    BY <1>1 DEF Update, Archive, Restore, Handler, Handling, Sound
  <1>3. CASE Update(q)
    <2>1. Handling(q, "update") /\ x.input.op = "update"
      BY <1>1, <1>3 DEF Update, Handler, Handling
    <2>2. PICK may \in BOOLEAN : may <=> canUpdate(Target(q).status)
      OBVIOUS
    <2>3. PICK changed : changed = ChangedFields(Target(q), x.input.asked)
      OBVIOUS
    <2>4. x.input.asked = AskedFor(x.input)
      BY <2>1 DEF AskedFor
    <2>5. Goto(q, IF resolve(req[q]) # "ok" THEN fail(req[q], resolve(req[q]))
                  ELSE IF ~ may THEN fail(req[q], "failed_precondition")
                  ELSE Propose(q, table[req[q].input.target], x.input.asked,
                               {table[req[q].input.target].business}, changed))
      BY <1>1, <1>3, <2>2, <2>3
         DEF Update, Handler, UpdateSet, Target, ReadBusiness, Goto
    <2>6. may => Target(q).status = "active"
      BY <2>2 DEF canUpdate
    <2>7. Target(q) \in Row => changed = {col \in DOMAIN Target(q) :
              Target(q)[col] # write(Target(q), x.input.asked)[col]}
      BY <1>2, <2>1, <2>3, <2>4, Differs
    <2>8. QED
      BY <1>1, <2>1, <2>4, <2>5, <2>6, <2>7, HandlerDecides
  <1>4. CASE Archive(q)
    <2>1. Handling(q, "archive") /\ x.input.op = "archive"
      BY <1>1, <1>4 DEF Archive, Handler, Handling
    <2>2. PICK may \in BOOLEAN : may <=> canArchive(Target(q).status)
      OBVIOUS
    <2>3. PICK set : set = [status |-> "archived"] /\ set = AskedFor(x.input)
      BY <2>1 DEF AskedFor
    <2>4. Goto(q, IF resolve(req[q]) # "ok" THEN fail(req[q], resolve(req[q]))
                  ELSE IF ~ may THEN fail(req[q], "failed_precondition")
                  ELSE Propose(q, table[req[q].input.target], set,
                               {table[req[q].input.target].business}, {"status"}))
      BY <1>4, <2>2, <2>3 DEF Archive, Handler, Target, ReadBusiness, Goto
    <2>5. may => Target(q).status = "active"
      BY <2>2 DEF canArchive
    <2>6. (may /\ Target(q) \in Row) => {"status"} = {col \in DOMAIN Target(q) :
              Target(q)[col] # write(Target(q), set)[col]}
      BY <1>2, <2>1, <2>3, <2>5, Differs
    <2>7. QED
      BY <1>1, <2>1, <2>3, <2>4, <2>5, <2>6, HandlerDecides
  <1>5. CASE Restore(q)
    <2>1. Handling(q, "restore") /\ x.input.op = "restore"
      BY <1>1, <1>5 DEF Restore, Handler, Handling
    <2>2. PICK may \in BOOLEAN : may <=> canRestore(Target(q).status)
      OBVIOUS
    <2>3. PICK set : set = [status |-> "active"] /\ set = AskedFor(x.input)
      BY <2>1 DEF AskedFor
    <2>4. Goto(q, IF resolve(req[q]) # "ok" THEN fail(req[q], resolve(req[q]))
                  ELSE IF ~ may THEN fail(req[q], "failed_precondition")
                  ELSE Propose(q, table[req[q].input.target], set,
                               {table[req[q].input.target].business}, {"status"}))
      BY <1>5, <2>2, <2>3 DEF Restore, Handler, Target, ReadBusiness, Goto
    <2>5. may => Target(q).status = "archived"
      BY <2>2 DEF canRestore
    <2>6. (may /\ Target(q) \in Row) => {"status"} = {col \in DOMAIN Target(q) :
              Target(q)[col] # write(Target(q), set)[col]}
      BY <1>2, <2>1, <2>3, <2>5, Differs
    <2>7. QED
      BY <1>1, <2>1, <2>3, <2>4, <2>5, <2>6, HandlerDecides
  <1>6. QED
    BY <1>3, <1>4, <1>5

LEMMA MoveDecides ==
    ASSUME IInv, NEW q \in Req, Move(q)
    PROVE  Decided(req[q])'
  <1>1. PICK x \in Request : x = req[q] /\ Sound(q, x, walk[q])
    BY Known
  <1>2. PICK to, found, destination :
           /\ to = x.input.asked["business"] /\ found = resolve(x)
           /\ destination = authorizeSuppliedBusiness(x, to)
    OBVIOUS
  <1>3. /\ x.phase = "handle" /\ x.input.op = "move"
        /\ Goto(q, IF found # "ok" THEN fail(x, found)
                   ELSE IF destination # "ok" THEN fail(x, destination)
                   ELSE IF \/ ~ canMove(Target(q).status) \/ Target(q).business = to
                   THEN fail(x, "failed_precondition")
                   ELSE Propose(q, Target(q), [business |-> to],
                                {Target(q).business, to}, {"business"}))
    BY <1>1, <1>2 DEF Move, Handling
  <1>4. x.input \in Input /\ x.scope = ScopeOf(x.by)
    BY <1>1, <1>3 DEF Sound
  <1>5. CASE found # "ok"
    <2>1. found \in Code /\ Goto(q, fail(x, found))
      BY <1>2, <1>3, <1>5, ResolveLemma DEF Code
    <2>2. QED
      BY <2>1, FailsUndecided
  <1>6. CASE found = "ok" /\ destination # "ok"
    <2>1. destination \in Code /\ Goto(q, fail(x, destination))
      BY <1>2, <1>3, <1>6, SuppliedLemma DEF Code
    <2>2. QED
      BY <2>1, FailsUndecided
  <1>7. CASE /\ found = "ok" /\ destination = "ok"
             /\ (~ canMove(Target(q).status) \/ Target(q).business = to)
    <2>1. "failed_precondition" \in Code /\ Goto(q, fail(x, "failed_precondition"))
      BY <1>3, <1>7 DEF Code
    <2>2. QED
      BY <2>1, FailsUndecided
  <1>8. CASE /\ found = "ok" /\ destination = "ok"
             /\ ~ (~ canMove(Target(q).status) \/ Target(q).business = to)
    <2>1. Own(x.input.target) /\ table[x.input.target].business \in x.scope
      BY <1>2, <1>8, ResolveLemma
    <2>2. PICK row \in Row : row = table[x.input.target] /\ row = Target(q)
      BY <1>1, <2>1 DEF IInv, TypeOK, Own, Target
    <2>3. to \in x.scope
      BY <1>2, <1>8, SuppliedLemma
    <2>4. PICK set : set = [business |-> to] /\ set = AskedFor(x.input)
      <3>1. x.input.asked \in [business : Business \cup {Outside}]
        BY <1>3, <1>4, CustomerActionsAssumption DEF Body
      <3>2. AskedFor(x.input) = x.input.asked
        BY <1>3 DEF AskedFor
      <3>3. QED
        BY <1>2, <3>1, <3>2
    <2>5. write(row, set).business = to
      BY <1>2, <1>3, <1>4, <2>4, WriteLemma
    <2>6. {"business"} = {col \in DOMAIN row : row[col] # write(row, set)[col]}
      BY <1>2, <1>3, <1>4, <1>8, <2>2, <2>4, Differs
    <2>7. PICK related : related = {row.business, to}
      OBVIOUS
    <2>8. Goto(q, Propose(q, row, set, related, {"business"}))
      BY <1>3, <1>8, <2>2, <2>4, <2>7
    <2>9. /\ related = {row.business, write(row, set).business}
          /\ {row.business, write(row, set).business} \subseteq ScopeOf(req[q].by)
      BY <1>1, <1>4, <2>1, <2>2, <2>3, <2>5, <2>7
    <2>10. QED
      BY <1>1, <1>3, <2>6, <2>8, <2>9, ProposeDecides
  <1>9. QED
    BY <1>5, <1>6, <1>7, <1>8

\* A creation saw no row, and the other steps decide nothing.
LEMMA CreateDecides ==
    ASSUME IInv, NEW q \in Req, Create(q)
    PROVE  Decided(req[q])'
  <1>1. PICK x \in Request : x = req[q]
    BY Known
  <1>2. PICK business : business = authorizeSuppliedBusiness(x, x.input.asked["business"])
    OBVIOUS
  <1>3. CASE business # "ok"
    <2>1. Goto(q, fail(x, business)) /\ business \in Code
      BY <1>1, <1>2, <1>3, SuppliedLemma DEF Create, Code
    <2>2. QED
      BY <2>1, FailsUndecided
  <1>4. CASE business = "ok" /\ x.degraded
    <2>1. Goto(q, Answered(x, "unavailable", "none")) /\ "unavailable" \in Answer
      BY <1>1, <1>2, <1>4 DEF Create, Propose, MustDefer, Answer
    <2>2. QED
      BY <2>1, AnsweredUndecided
  <1>5. CASE business = "ok" /\ ~ x.degraded
    <2>1. PICK set, entry : Goto(q, [x EXCEPT !.phase = "reserving", !.seen = NoRow,
                                              !.set = set, !.entry = entry])
      BY <1>1, <1>2, <1>5 DEF Create, Propose, MustDefer, Goto
    <2>2. PICK y : y = [x EXCEPT !.phase = "reserving", !.seen = NoRow,
                                 !.set = set, !.entry = entry]
      OBVIOUS
    <2>3. req'[q] = y
      BY <2>1, <2>2 DEF Goto, IInv, TypeOK
    <2>4. y.seen = NoRow
      BY <2>2 DEF Request
    <2>5. QED
      BY <2>3, <2>4 DEF Decided
  <1>6. QED
    BY <1>3, <1>4, <1>5

LEMMA AdmittedUndecided ==
    ASSUME IInv, NEW q \in Req, NEW r \in Request, NEW admission,
           Goto(q, Admitted(r, admission))
    PROVE  Decided(req[q])'
  <1>1. CASE \E code \in Code : Goto(q, fail(r, code))
    BY <1>1, FailsUndecided
  <1>2. CASE Goto(q, [r EXCEPT !.phase = "store"])
    <2>1. PICK y : y = [r EXCEPT !.phase = "store"]
      OBVIOUS
    <2>2. y.phase = "store"
      BY <2>1 DEF Request
    <2>3. QED
      BY <1>2, <2>1, <2>2, Undecided
  <1>3. {"forbidden", "invalid_argument", "rate_limited"} \subseteq Code
    BY DEF Code
  <1>4. QED
    BY <1>1, <1>2, <1>3 DEF Admitted

LEMMA BeginDecides ==
    ASSUME IInv, NEW q \in Req, Begin(q)
    PROVE  Decided(req[q])'
  <1>1. PICK x \in Request : x = req[q]
    BY Known
  <1>2. PICK admission \in Admission :
           \/ \E p \in Principal, i \in Input :
                 Goto(q, Admitted([Idle EXCEPT !.by = p, !.input = i,
                                     !.degraded = admission = "unreachable"],
                                  admission))
           \/ \E i \in {x.input} \cup {j \in Input : Collects(j.op)} :
                 Goto(q, Admitted([x EXCEPT !.input = i,
                                     !.degraded = admission = "unreachable"],
                                  admission))
    BY <1>1 DEF Begin
  <1>3. PICK away \in BOOLEAN : away = (admission = "unreachable")
    OBVIOUS
  <1>4. CASE \E p \in Principal, i \in Input :
                 Goto(q, Admitted([Idle EXCEPT !.by = p, !.input = i, !.degraded = away],
                                  admission))
    <2>1. PICK p \in Principal, i \in Input :
                 Goto(q, Admitted([Idle EXCEPT !.by = p, !.input = i, !.degraded = away],
                                  admission))
      BY <1>4
    <2>2. PICK idle \in Request : idle = Idle
      BY IdleType
    <2>3. PICK r : r = [idle EXCEPT !.by = p, !.input = i, !.degraded = away]
      OBVIOUS
    <2>4. p \in Principal \cup {OrgWide} /\ i \in Input \cup {NoBody}
      OBVIOUS
    <2>5. r \in Request
      BY <2>3, <2>4 DEF Request
    <2>6. QED
      BY <2>1, <2>2, <2>3, <2>5, AdmittedUndecided
  <1>5. CASE \E i \in {x.input} \cup {j \in Input : Collects(j.op)} :
                 Goto(q, Admitted([x EXCEPT !.input = i, !.degraded = away], admission))
    <2>1. PICK i \in {x.input} \cup {j \in Input : Collects(j.op)} :
                 Goto(q, Admitted([x EXCEPT !.input = i, !.degraded = away], admission))
      BY <1>5
    <2>2. PICK r : r = [x EXCEPT !.input = i, !.degraded = away]
      OBVIOUS
    <2>3. i \in Input \cup {NoBody}
      BY DEF Request
    <2>4. r \in Request
      BY <2>2, <2>3 DEF Request
    <2>5. QED
      BY <2>1, <2>2, <2>4, AdmittedUndecided
  <1>6. QED
    BY <1>2, <1>3, <1>4, <1>5

LEMMA GetDecides ==
    ASSUME IInv, NEW q \in Req, Get(q)
    PROVE  Decided(req[q])'
  <1>1. PICK x \in Request : x = req[q]
    BY Known
  <1>2. CASE resolve(x) # "ok"
    <2>1. PICK code \in Code : code = resolve(x)
      BY <1>2, ResolveLemma DEF Code
    <2>2. Goto(q, fail(x, code))
      BY <1>1, <1>2, <2>1 DEF Get
    <2>3. QED
      BY <2>2, FailsUndecided
  <1>3. CASE resolve(x) = "ok"
    <2>1. Goto(q, Answered(x, "ok", "none")) /\ "ok" \in Answer
      BY <1>1, <1>3 DEF Get, Answer
    <2>2. QED
      BY <2>1, AnsweredUndecided
  <1>4. QED
    BY <1>2, <1>3

LEMMA LookingDecides ==
    ASSUME IInv, NEW q \in Req, OpenStore(q) \/ ReadBusinesses(q)
    PROVE  Decided(req[q])'
  <1>1. PICK x \in Request : x = req[q]
    BY Known
  <1>2. ASSUME NEW scope, Goto(q, [x EXCEPT !.phase = "handle", !.scope = scope])
        PROVE  Decided(req[q])'
    <2>1. PICK y : y = [x EXCEPT !.phase = "handle", !.scope = scope]
      OBVIOUS
    <2>2. y.phase = "handle"
      BY <2>1 DEF Request
    <2>3. QED
      BY <1>2, <2>1, <2>2, Undecided
  <1>3. CASE Goto(q, [x EXCEPT !.phase = "businesses"])
    <2>1. PICK y : y = [x EXCEPT !.phase = "businesses"]
      OBVIOUS
    <2>2. y.phase = "businesses"
      BY <2>1 DEF Request
    <2>3. QED
      BY <1>3, <2>1, <2>2, Undecided
  <1>4. CASE OpenStore(q)
    BY <1>1, <1>2, <1>3, <1>4 DEF OpenStore
  <1>5. CASE ReadBusinesses(q)
    BY <1>1, <1>2, <1>5 DEF ReadBusinesses
  <1>6. QED
    BY <1>4, <1>5

LEMMA PagesDecide ==
    ASSUME IInv, NEW q \in Req, Collect(q) \/ FindAnchor(q) \/ ReadPage(q)
    PROVE  Decided(req[q])'
  <1>1. PICK x \in Request : x = req[q]
    BY Known
  <1>2. CASE \E code \in Code : Goto(q, fail(x, code))
    BY <1>2, FailsUndecided
  <1>3. ASSUME NEW y, Goto(q, y), y.phase \in {"page", "anchor", "paged"}
        PROVE  Decided(req[q])'
    BY <1>3, Undecided
  <1>4. CASE Collect(q)
    <2>1. PICK named : named = authorizeSuppliedBusiness(x, x.input.asked.within)
      OBVIOUS
    <2>2. CASE x.input.asked.within # OrgWide /\ named # "ok"
      <3>1. Goto(q, fail(x, named)) /\ named \in Code
        BY <1>1, <1>4, <2>1, <2>2, SuppliedLemma DEF Collect, Code
      <3>2. QED
        BY <1>2, <3>1
    <2>3. CASE ~ (x.input.asked.within # OrgWide /\ named # "ok")
      <3>1. PICK y : y = [x EXCEPT !.phase = IF x.cursor = 0 THEN "page" ELSE "anchor"]
        OBVIOUS
      <3>2. Goto(q, y)
        BY <1>1, <1>4, <2>1, <2>3, <3>1 DEF Collect
      <3>3. y.phase \in {"page", "anchor", "paged"}
        BY <3>1 DEF Request
      <3>4. QED
        BY <1>3, <3>2, <3>3
    <2>4. QED
      BY <2>2, <2>3
  <1>5. CASE FindAnchor(q)
    <2>1. \/ Goto(q, [x EXCEPT !.phase = "page", !.key = table[x.cursor].name])
          \/ Goto(q, fail(x, "invalid_argument"))
      BY <1>1, <1>5 DEF FindAnchor
    <2>2. CASE Goto(q, fail(x, "invalid_argument"))
      BY <1>2, <2>2 DEF Code
    <2>3. CASE Goto(q, [x EXCEPT !.phase = "page", !.key = table[x.cursor].name])
      <3>1. PICK key : key = table[x.cursor].name
        OBVIOUS
      <3>2. PICK y : y = [x EXCEPT !.phase = "page", !.key = key]
        OBVIOUS
      <3>3. y.phase \in {"page", "anchor", "paged"}
        BY <3>2 DEF Request
      <3>4. QED
        BY <1>3, <2>3, <3>1, <3>2, <3>3
    <2>4. QED
      BY <2>1, <2>2, <2>3
  <1>6. CASE ReadPage(q)
    <2>1. \/ Goto(q, Answered(x, "ok", "none"))
          \/ \E last : Goto(q, [x EXCEPT !.phase = "paged", !.cursor = last,
                                         !.bound = x.input, !.key = 0])
      BY <1>1, <1>6 DEF ReadPage
    <2>2. CASE Goto(q, Answered(x, "ok", "none"))
      <3>1. "ok" \in Answer
        BY DEF Answer
      <3>2. QED
        BY <2>2, <3>1, AnsweredUndecided
    <2>3. CASE \E last : Goto(q, [x EXCEPT !.phase = "paged", !.cursor = last,
                                           !.bound = x.input, !.key = 0])
      <3>1. PICK last : Goto(q, [x EXCEPT !.phase = "paged", !.cursor = last,
                                          !.bound = x.input, !.key = 0])
        BY <2>3
      <3>2. PICK y : y = [x EXCEPT !.phase = "paged", !.cursor = last,
                                   !.bound = x.input, !.key = 0]
        OBVIOUS
      <3>3. y.phase \in {"page", "anchor", "paged"}
        BY <3>2 DEF Request
      <3>4. QED
        BY <1>3, <3>1, <3>2, <3>3
    <2>4. QED
      BY <2>1, <2>2, <2>3
  <1>7. QED
    BY <1>4, <1>5, <1>6

LEMMA EndingDecides ==
    ASSUME IInv, NEW q \in Req, Decided(req[q]),
           Reserve(q) \/ Commit(q) \/ CallFails(q) \/ RecordDenial(q)
    PROVE  Decided(req[q])'
  <1>1. PICK x \in Request : x = req[q]
    BY Known
  <1>2. \/ x.phase = "reserving" /\ Goto(q, [x EXCEPT !.phase = "writing"])
        \/ Goto(q, fail(x, "quota_exceeded")) \/ Goto(q, fail(x, "unavailable"))
        \/ Goto(q, Answered(x, "ok", "none")) \/ Goto(q, Answered(x, "unavailable", "none"))
        \/ Goto(q, Answered(x, x.answer, "recorded"))
        \/ Goto(q, Answered(x, x.answer, "announced"))
    BY <1>1 DEF Reserve, Commit, CallFails, RecordDenial
  <1>3. CASE x.phase = "reserving" /\ Goto(q, [x EXCEPT !.phase = "writing"])
    <2>1. PICK y : y = [x EXCEPT !.phase = "writing"]
      OBVIOUS
    <2>2. /\ y.seen = x.seen /\ y.set = x.set /\ y.entry = x.entry /\ y.by = x.by
          /\ y.input = x.input
      BY <2>1 DEF Request
    <2>3. Decided(y)
      BY <1>1, <1>3, <2>2 DEF Decided
    <2>4. req'[q] = y
      BY <1>3, <2>1 DEF Goto, IInv, TypeOK
    <2>5. QED
      BY <2>3, <2>4 DEF Decided
  <1>4. CASE Goto(q, fail(x, "quota_exceeded")) \/ Goto(q, fail(x, "unavailable"))
    BY <1>4, FailsUndecided DEF Code
  <1>5. x.answer \in Answer /\ "ok" \in Answer /\ "unavailable" \in Answer
    BY DEF Request, Answer
  <1>6. CASE \/ Goto(q, Answered(x, "ok", "none"))
             \/ Goto(q, Answered(x, "unavailable", "none"))
             \/ Goto(q, Answered(x, x.answer, "recorded"))
             \/ Goto(q, Answered(x, x.answer, "announced"))
    BY <1>5, <1>6, AnsweredUndecided
  <1>7. QED
    BY <1>2, <1>3, <1>4, <1>6

LEMMA NextDecides ==
    ASSUME IInv, EachDecided, [Next]_vars
    PROVE  EachDecided'
  <1>1. CASE UNCHANGED vars
    BY <1>1 DEF vars, EachDecided, Decided
  <1>2. ASSUME NEW q \in Req, Step(q)
        PROVE  EachDecided'
    <2>1. Decided(req[q])'
      BY <1>2, BeginDecides, LookingDecides, CreateDecides, GetDecides, WritesDecide,
         MoveDecides, PagesDecide, EndingDecides DEF Step, EachDecided
    <2>2. ASSUME NEW l \in Req, l # q PROVE Decided(req[l])'
      <3>1. req'[l] = req[l] /\ Decided(req[l])
        BY <1>2, <2>2, OneMoves DEF EachDecided
      <3>2. QED
        BY <3>1 DEF Decided
    <2>3. QED
      BY <2>1, <2>2 DEF EachDecided
  <1>3. QED
    BY <1>1, <1>2 DEF Next

\* The status of a row that an update was applied to.
LEMMA StatusLemma ==
    ASSUME NEW i \in Input, i.op \in {"update", "archive", "restore", "move"},
           NEW row \in Row
    PROVE  write(row, AskedFor(i)).status = CASE i.op = "archive" -> "archived"
                                              [] i.op = "restore" -> "active"
                                              [] OTHER -> row.status
  <1>1. i \in Body
    BY CustomerActionsAssumption
  <1>2. write(row, AskedFor(i)).status = Column(row, AskedFor(i), "status")
    BY DEF write
  <1>3. CASE i.op = "archive"
    <2>1. AskedFor(i) = [status |-> "archived"]
      BY <1>3 DEF AskedFor
    <2>2. write(row, AskedFor(i)).status = "archived"
      BY <1>2, <2>1 DEF Column
    <2>3. QED
      BY <1>3, <2>2
  <1>4. CASE i.op = "restore"
    <2>1. AskedFor(i) = [status |-> "active"]
      BY <1>4 DEF AskedFor
    <2>2. write(row, AskedFor(i)).status = "active"
      BY <1>2, <2>1 DEF Column
    <2>3. QED
      BY <1>4, <2>2
  <1>5. CASE i.op \in {"update", "move"}
    <2>1. AskedFor(i) = i.asked
      BY <1>5 DEF AskedFor
    <2>2. "status" \notin DOMAIN i.asked
      <3>1. \/ i.asked \in [name : Name] \/ i.asked \in [mail : Mail]
            \/ i.asked \in [name : Name, mail : Mail]
            \/ i.asked \in [business : Business \cup {Outside}]
        BY <1>1, <1>5 DEF Body
      <3>2. QED
        BY <3>1
    <2>3. write(row, AskedFor(i)).status = row.status
      BY <1>2, <2>1, <2>2 DEF Column
    <2>4. QED
      BY <1>5, <2>3
  <1>6. QED
    BY <1>3, <1>4, <1>5

\* Only a batch adds to the trail.
LEMMA OnlyCommits ==
    ASSUME NEW q \in Req, Step(q), audit' # audit
    PROVE  Commit(q)
  <1>1. ~ (Begin(q) \/ OpenStore(q) \/ ReadBusinesses(q) \/ Create(q) \/ Get(q))
    BY DEF Begin, OpenStore, ReadBusinesses, Create, Get
  <1>2. ~ (Update(q) \/ Archive(q) \/ Restore(q) \/ Move(q))
    BY DEF Update, Archive, Restore, Handler, Move
  <1>3. ~ (Collect(q) \/ FindAnchor(q) \/ ReadPage(q))
    BY DEF Collect, FindAnchor, ReadPage
  <1>4. ~ (Reserve(q) \/ CallFails(q) \/ RecordDenial(q))
    BY DEF Reserve, CallFails, RecordDenial
  <1>5. QED
    BY <1>1, <1>2, <1>3, <1>4 DEF Step

\* A batch on the row its handler saw does what was decided.
LEMMA CommitIsLegal ==
    ASSUME IInv, NEW q \in Req, Decided(req[q]), Commit(q), req[q].seen # NoRow,
           table[req[q].entry.customer] = req[q].seen
    PROVE  /\ LegalWrite(q)
           /\ \A d \in DOMAIN table :
                 d # req[q].entry.customer => table'[d] = table[d]
  <1>1. PICK x \in Request : x = req[q] /\ Sound(q, x, walk[q])
    BY Known
  <1>2. /\ x.phase = "writing" /\ table' = Written(table, x, x.set)
        /\ audit' = Append(audit, x.entry)
    BY <1>1 DEF Commit
  <1>3. PICK row \in Row : row = x.seen
    BY <1>1, <1>2 DEF Decided
  <1>4. PICK new : new = write(row, x.set)
    OBVIOUS
  <1>5. /\ x.input.op \in {"update", "archive", "restore", "move"}
        /\ x.input.op \in {"update", "archive"} => row.status = "active"
        /\ x.input.op = "restore" => row.status = "archived"
        /\ {row.business, new.business} \subseteq ScopeOf(x.by)
        /\ x.entry.related = {row.business, new.business}
        /\ x.entry.changed = {col \in DOMAIN row : row[col] # new[col]}
    BY <1>1, <1>2, <1>3, <1>4 DEF Decided
  <1>6. /\ x.input \in Input /\ x.set = AskedFor(x.input) /\ Own(x.input.target)
        /\ x.entry \in Entry /\ x.entry.customer = x.input.target
    BY <1>1, <1>2, <1>5 DEF Sound, Proposed
  <1>7. PICK c : c = x.input.target /\ c \in DOMAIN table /\ table[c] = row
    BY <1>1, <1>3, <1>6 DEF Own
  <1>8. table' = [table EXCEPT ![c] = new]
    BY <1>2, <1>3, <1>4, <1>5, <1>7 DEF Written
  <1>9. table'[c] = new /\ \A d \in DOMAIN table : d # c => table'[d] = table[d]
    BY <1>7, <1>8 DEF IInv, TypeOK
  <1>10. new.status = CASE x.input.op = "archive" -> "archived"
                       [] x.input.op = "restore" -> "active" [] OTHER -> row.status
    BY <1>3, <1>4, <1>5, <1>6, StatusLemma
  <1>11. audit'[Len(audit')] = x.entry
    BY <1>2, <1>6 DEF IInv, TypeOK
  <1>12. LegalWrite(q)
    BY <1>1, <1>5, <1>6, <1>7, <1>9, <1>10, <1>11 DEF LegalWrite, ScopeOf
  <1>13. QED
    BY <1>1, <1>6, <1>7, <1>9, <1>12

-----------------------------------------------------------------------------
\* The theorems.

\* Everything keeps its type, and a customer of the Organization its place in
\* one of the Organization's businesses (CustomerRow and the Action inputs).
THEOREM CustomersTypeCorrect == Spec => []TypeOK
  <1>1. IInv => TypeOK
    BY DEF IInv
  <1>2. QED
    BY <1>1, Invariance, PTL

\* Columns hold what was last asked of them, however handlers interleave: an
\* update writes the columns of its body only (updateOperation).
THEOREM ColumnsHoldWhatWasAsked == Spec => []LastAskedStands
  <1>1. IInv => LastAskedStands
    BY DEF IInv
  <1>2. QED
    BY <1>1, Invariance, PTL

\* What a caller is told agrees with the audit trail, a lost answer and an
\* unreachable coordinator included (invokeAction).
THEOREM AnswersAgreeWithTrail == Spec => []AnswerMatchesTrail
  <1>1. ASSUME IInv PROVE AnswerMatchesTrail
    <2>1. ASSUME NEW q \in Req, NEW rows,
                 rows = {i \in DOMAIN audit : audit[i].by = q}, req[q].phase = "done"
          PROVE  /\ \A i, j \in rows : i = j
                 /\ req[q].answer = "ok" /\ Writes(req[q].input.op) => rows # {}
                 /\ req[q].answer \notin {"ok", "unavailable"} \/ req[q].degraded
                       => rows = {}
      BY <1>1, <2>1 DEF IInv, Trail
    <2>2. QED
      BY <2>1 DEF AnswerMatchesTrail
  <1>2. QED
    BY <1>1, Invariance, PTL

\* Every denial that is audited leaves evidence, or its loss is announced
\* (fail, in invokeAction).
THEOREM DenialsLeaveEvidence == Spec => []DenialHasEvidence
  <1>1. ASSUME IInv PROVE DenialHasEvidence
    BY <1>1 DEF IInv, EachSound, Sound, Judged, DenialHasEvidence
  <1>2. QED
    BY <1>1, Invariance, PTL

\* Nothing that is listed, answered or audited tells of a customer of another
\* Organization (the tenant predicate, resolveAuthorizedCustomer).
THEOREM TenantsStayIsolated == Spec => []TenantIsolation
  <1>1. ASSUME IInv PROVE TenantIsolation
    <2>1. ASSUME NEW c \in DOMAIN table, table[c].org = "other", NEW q \in Req
          PROVE  /\ walk[q].shown[c] = 0
                 /\ req[q].input.target = c /\ authorize(req[q].by, req[q].input.op)
                       => req[q].answer \notin {"ok", "forbidden"}
      BY <1>1, <2>1 DEF IInv, EachSound, Sound, Isolated
    <2>2. ASSUME NEW i \in DOMAIN audit
          PROVE  audit[i].customer \notin {c \in DOMAIN table : table[c].org = "other"}
      BY <1>1, <2>2 DEF IInv, Trail, Own
    <2>3. QED
      BY <2>1, <2>2 DEF TenantIsolation
  <1>2. QED
    BY <1>1, Invariance, PTL

\* A listing or search that reaches its end has shown, exactly once, whatever
\* it selected all along, for any table, filters and page size (readPage).
THEOREM WalksAreComplete == Spec => []WalkIsComplete
  <1>1. ASSUME IInv PROVE WalkIsComplete
    BY <1>1 DEF IInv, EachSound, Sound, Walking, WalkIsComplete
  <1>2. QED
    BY <1>1, Invariance, PTL

\* A batch whose row is still the one its handler read is legal: it obeys the
\* lifecycle and its principal's businesses, and its entry tells the change
\* (updateOperation, decided by canUpdate and its like two awaits before).
THEOREM FreshWritesAreLegal == Spec => FreshWriteIsLegal
  <1>1. Init => EachDecided
    <2>1. PICK y \in Request : y = Idle
      BY IdleType
    <2>2. y.phase = "idle"
      BY <2>1 DEF Idle
    <2>3. QED
      BY <2>1, <2>2 DEF Init, EachDecided, Decided
  <1>2. IInv /\ EachDecided /\ [Next]_vars => EachDecided'
    BY NextDecides
  <1>3. IInv /\ EachDecided /\ [Next]_vars =>
          [\A q \in Req :
             (/\ req[q].phase = "writing" /\ audit' # audit
              /\ req'[q].phase = "done" /\ req[q].seen # NoRow
              /\ table[req[q].entry.customer] = req[q].seen)
             => /\ LegalWrite(q)
                /\ \A d \in DOMAIN table :
                      d # req[q].entry.customer => table'[d] = table[d]]_vars
    <2>1. ASSUME IInv, EachDecided, Next, NEW q \in Req, req[q].phase = "writing",
                 audit' # audit, req'[q].phase = "done", req[q].seen # NoRow,
                 table[req[q].entry.customer] = req[q].seen
          PROVE  /\ LegalWrite(q)
                 /\ \A d \in DOMAIN table :
                       d # req[q].entry.customer => table'[d] = table[d]
      <3>1. PICK l \in Req : Step(l)
        BY <2>1 DEF Next
      <3>2. l = q
        BY <2>1, <3>1, OneMoves
      <3>3. Commit(q)
        BY <2>1, <3>1, <3>2, OnlyCommits
      <3>4. QED
        BY <2>1, <3>3, CommitIsLegal DEF EachDecided
    <2>2. QED
      BY <2>1
  <1>4. QED
    BY <1>1, <1>2, <1>3, Invariance, PTL DEF Spec, FreshWriteIsLegal
=============================================================================
