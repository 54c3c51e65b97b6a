-------------------------- MODULE FrontGatesProofs --------------------------
(* The ceilings of both gates, that of a source across its coordinators, and *)
(* the trace of each refusal, for any Organizations, subjects, limits,       *)
(* limiters, requests and windows.                                           *)
EXTENDS FrontGates, FiniteSetTheorems, WellFoundedInduction, TLAPS

\* What a coordinator that knows r of a subject, and has seen window latest,
\* may still let through in window w is covered by what is allowed: n have
\* passed, and a full limit more may pass as long as it has not counted w.
Covered(s, n, allowed, r, w, latest) ==
    /\ n <= allowed
    /\ r.window = w /\ ~OverLimit(s, r) => n + limit(s) <= allowed + r.count
    /\ w >= latest /\ r.window # w => n + limit(s) <= allowed

\* What a coordinator knows of a subject: being over its limit is a row, and
\* what it may still let through is covered by the allowance and its slips.
RateSound ==
    \A o \in Org, s \in Subject :
        /\ OverLimit(s, rate[o][s]) <=> rate[o][s].exceededPersisted
        /\ OverLimit(s, rate[o][s]) => /\ block[o][s] = rate[o][s].window
                                       /\ block[o][s] # -1
        /\ rate[o][s].window <= newest[o] /\ block[o][s] <= newest[o]
        /\ \A w \in Window :
              Covered(s, passed[o][s][w],
                      allowance[o][s][w] + slips[o] * limit(s),
                      rate[o][s], w, newest[o])

\* What is let through by each key.
Most(e, k) == IF k \in Source THEN EntryLimit[e] ELSE IdentifierLimit

\* n attempts were let through in window w by a limiter that knows r of the
\* key: a limit's worth beyond what was forgiven, no more than it has counted,
\* and of a window it has not begun to count, only what was forgiven.
Within(most, n, forgiven, r, w, latest) ==
    /\ n <= forgiven + most
    /\ r.window <= latest
    /\ r.window = w => n <= forgiven + r.count
    /\ w >= latest /\ r.window # w => n <= forgiven

\* A limiter has let through no more than it counted, and a limit for each slip.
TriesSound ==
    \A l \in Limiter, e \in EntryPoint, k \in Key, w \in Window :
        Within(Most(e, k), reached[l][e][k][w], slips[l] * Most(e, k),
               tries[l][e][k], w, newest[l])

\* A refusal the entry point declares, or one of the limiter.
Declared(e) == Refusal \cap ({"rate_limited"} \cup outcomes(e))

\* A trace is left when the request is over, and of a refusal only.
Traced(r) ==
    /\ r.phase \in {"admit", "report", "apply"} => r.kind = "app"
    /\ r.phase \in {"source", "identifier", "handle", "evidence"}
          => r.kind = "attempt"
    /\ r.phase # "done" => r.trace = "none"
    /\ r.phase = "evidence" => r.answer \in Declared(r.entry)
    /\ r.phase = "done" /\ r.kind = "attempt" =>
          /\ r.answer \in Refusal =>
                \/ r.trace # "none"
                \/ <<"evidence_recorder_absent", r.entry>> \in notices
                \/ <<"handler_absent", r.entry>> \in notices
          /\ r.trace = "counted" => r.answer \in Declared(r.entry)

TraceSound == \A q \in Req : Traced(req[q])

IInv == TypeOK /\ RateSound /\ TriesSound /\ TraceSound

-----------------------------------------------------------------------------
LEMMA LimitNat == \A s : limit(s) \in Nat
  BY FrontGatesAssumption DEF limit

LEMMA MostNat == \A e \in EntryPoint : \A k : Most(e, k) \in Nat
  BY FrontGatesAssumption DEF Most

LEMMA WindowInt == Window \subseteq Nat /\ Window \cup {-1} \subseteq Int
  <1>1. Window \subseteq Nat
    BY FrontGatesAssumption DEF Window
  <1>2. -1 \in Int
    OBVIOUS
  <1>3. QED
    BY <1>1, <1>2

LEMMA IdleType == Idle \in Request
  <1>1. /\ (CHOOSE o \in Org : TRUE) \in Org
        /\ (CHOOSE u \in Actor : TRUE) \in Actor
        /\ (CHOOSE a \in Source : TRUE) \in Source
        /\ (CHOOSE e \in EntryPoint : TRUE) \in EntryPoint
        /\ (CHOOSE l \in Limiter : TRUE) \in Limiter
    BY FrontGatesAssumption
  <1>2. 0 \in Window
    BY FrontGatesAssumption DEF Window
  <1>3. QED
    BY <1>1, <1>2 DEF Idle, Request, Phase

LEMMA OutcomeFacts ==
    /\ \A e \in EntryPoint : collapseTo(e) \in outcomes(e)
    /\ \A e \in EntryPoint : outcomes(e) \subseteq OutcomeKind
    /\ \A e \in EntryPoint : \A said :
          FinalOutcome(e, said) \in outcomes(e)
  <1>1. \A e \in EntryPoint : collapseTo(e) \in outcomes(e)
    BY FrontGatesAssumption DEF collapseTo, outcomes, Delegated
  <1>2. \A e \in EntryPoint : outcomes(e) \subseteq OutcomeKind
    BY FrontGatesAssumption DEF outcomes, OutcomeKind, Delegated
  <1>3. QED
    BY <1>1, <1>2 DEF FinalOutcome

RateType == [window : Window \cup {-1}, count : Nat, exceededPersisted : BOOLEAN]

LEMMA CountedType ==
    ASSUME NEW s \in Subject, NEW r \in RateType, NEW w \in Window
    PROVE  /\ Counted(s, r, w) \in RateType
           /\ Counted(s, r, w).window = w
           /\ OverLimit(s, Counted(s, r, w)) <=> Counted(s, r, w).exceededPersisted
           /\ r.window = w => /\ OverLimit(s, r) => Counted(s, r, w).count = r.count
                              /\ ~OverLimit(s, r) => Counted(s, r, w).count = r.count + 1
           /\ r.window # w => Counted(s, r, w).count = 1
  <1> DEFINE n == IF r.window = w THEN r.count ELSE 0
             c == IF n <= limit(s) THEN n + 1 ELSE n
  <1>1. limit(s) \in Nat /\ n \in Nat /\ c \in Nat
    BY LimitNat DEF RateType
  <1>2. Counted(s, r, w) = [window |-> w, count |-> c,
                            exceededPersisted |-> c > limit(s)]
    BY DEF Counted
  <1>3. (c > limit(s)) \in BOOLEAN
    OBVIOUS
  <1>4. Counted(s, r, w) \in RateType
    BY <1>1, <1>2, <1>3 DEF RateType
  <1>5. r.window = w => /\ OverLimit(s, r) => c = r.count
                        /\ ~OverLimit(s, r) => c = r.count + 1
    BY <1>1 DEF OverLimit, RateType
  <1>6. r.window # w => c = 1
    BY <1>1
  <1> HIDE DEF c
  <1>7. /\ Counted(s, r, w).window = w /\ Counted(s, r, w).count = c
        /\ Counted(s, r, w).exceededPersisted = (c > limit(s))
    BY <1>2
  <1>8. QED
    BY <1>4, <1>5, <1>6, <1>7 DEF OverLimit

SourceType == [window : Window \cup {-1}, localCount : Nat,
               reportedCount : Nat, blocked : BOOLEAN]

LEMMA SourceCountedType ==
    ASSUME NEW c \in SourceType, NEW w \in Window
    PROVE  SourceCounted(c, w) \in SourceType
  <1> DEFINE old == IF c.window = w THEN c
                    ELSE [UnseenSource EXCEPT !.window = w]
             n == old.localCount + 1
  <1>1. old \in SourceType
    BY DEF SourceType, UnseenSource
  <1>2. n \in Nat
    BY <1>1 DEF SourceType
  <1>3. SourceCounted(c, w) =
           [old EXCEPT !.localCount = n, !.blocked = @ \/ n > SourceLimit]
    BY DEF SourceCounted
  <1>4. (old.blocked \/ n > SourceLimit) \in BOOLEAN
    OBVIOUS
  <1> HIDE DEF n, old
  <1>5. QED
    BY <1>1, <1>2, <1>3, <1>4 DEF SourceType

-----------------------------------------------------------------------------
LEMMA InitIInv == Init => IInv
  <1> SUFFICES ASSUME Init PROVE IInv
    OBVIOUS
  <1>1. req \in [Req -> Request] /\ 0 \in Window
    BY IdleType, FrontGatesAssumption DEF Init, Window
  <1>2. TypeOK
    <2>1. /\ rate \in [Org -> [Subject -> RateType]]
          /\ source \in [Org -> [Source -> SourceType]]
      BY <1>1 DEF Init, Unseen, UnseenSource, RateType, SourceType
    <2>2. /\ passed \in [Org -> [Subject -> [Window -> Nat]]]
          /\ allowance \in [Org -> [Subject -> [Window -> Nat]]]
      BY LimitNat DEF Init, None
    <2>3. /\ tries \in [Limiter -> [EntryPoint -> [Key ->
                     [window : Window \cup {-1}, count : Nat]]]]
          /\ reached \in [Limiter -> [EntryPoint -> [Key -> [Window -> Nat]]]]
      BY DEF Init, Untried
    <2>4. <<wired, kinds>> \in Setups
      <3>1. PICK s \in Setups : wired = s[1] /\ kinds = s[2]
        BY DEF Init
      <3>2. s = <<s[1], s[2]>>
        BY FrontGatesAssumption
      <3>3. QED
        BY <3>1, <3>2
    <2>5. QED
      BY <1>1, <2>1, <2>2, <2>3, <2>4, FrontGatesAssumption
        DEF Init, TypeOK, RateType, SourceType
  <1>3. RateSound
    <2> SUFFICES ASSUME NEW o \in Org, NEW s \in Subject
                 PROVE  /\ rate[o][s] = Unseen /\ newest[o] = 0 /\ block[o][s] = -1
                        /\ slips[o] = 0
                        /\ \A w \in Window : /\ passed[o][s][w] = 0
                                             /\ allowance[o][s][w] = limit(s)
      BY LimitNat DEF RateSound, Covered, OverLimit, Unseen, Window
    <2>1. QED
      BY DEF Init, None
  <1>4. TriesSound
    <2> SUFFICES ASSUME NEW l \in Limiter, NEW e \in EntryPoint, NEW k \in Key,
                        NEW w \in Window
                 PROVE  /\ tries[l][e][k] = Untried /\ newest[l] = 0
                        /\ slips[l] = 0 /\ reached[l][e][k][w] = 0
      BY MostNat DEF TriesSound, Within, Untried, Window
    <2>1. QED
      BY DEF Init
  <1>5. TraceSound
    BY DEF Init, TraceSound, Traced, Idle
  <1>6. QED
    BY <1>2, <1>3, <1>4, <1>5 DEF IInv

-----------------------------------------------------------------------------
\* The parts of the invariant read few variables each.
LEMMA RateUntouched ==
    ASSUME IInv, UNCHANGED <<rate, block, passed, allowance>>,
           \A o \in Org : newest'[o] = newest[o] /\ slips'[o] = slips[o]
    PROVE  RateSound'
  BY DEF IInv, RateSound

LEMMA TriesUntouched ==
    ASSUME IInv, UNCHANGED <<tries, reached>>,
           \A l \in Limiter : newest'[l] = newest[l] /\ slips'[l] = slips[l]
    PROVE  TriesSound'
  BY DEF IInv, TriesSound

LEMMA TraceMoves ==
    ASSUME IInv, NEW q \in Req, NEW r \in Request, Traced(r)',
           req' = [req EXCEPT ![q] = r], notices \subseteq notices'
    PROVE  req' \in [Req -> Request] /\ TraceSound'
  <1>1. /\ req' \in [Req -> Request] /\ req'[q] = r
        /\ \A p \in Req : p # q => req'[p] = req[p]
    BY DEF IInv, TypeOK
  <1>2. ASSUME NEW p \in Req PROVE Traced(req[p])'
    <2>1. CASE p = q
      BY <1>1, <2>1 DEF Traced
    <2>2. CASE p # q
      <3>1. Traced(req[p]) /\ req'[p] = req[p]
        BY <1>1, <2>2 DEF IInv, TraceSound
      <3>2. QED
        BY <3>1 DEF Traced
    <2>3. QED
      BY <2>1, <2>2
  <1>3. QED
    BY <1>1, <1>2 DEF TraceSound

\* The types of what neither gate's counts are.
RestOK ==
    /\ clock \in Window
    /\ source \in [Org -> [Source -> SourceType]]
    /\ shard \in [Source -> [Window -> Int]]
    /\ <<wired, kinds>> \in Setups
    /\ notices \subseteq {"handler_absent", "identifier_level_absent",
                          "evidence_recorder_absent"} \X EntryPoint
    /\ rough \subseteq Source
    /\ evictions \in 0 .. MaxEvictions
    /\ faults \in 0 .. MaxFaults

\* A step of one request that touches neither rates nor tries.
LEMMA RequestMoves ==
    ASSUME IInv, NEW q \in Req, NEW r \in Request, Traced(r)',
           req' = [req EXCEPT ![q] = r], notices \subseteq notices', RestOK',
           UNCHANGED <<rate, block, passed, allowance, tries, reached,
                       newest, slips>>
    PROVE  IInv'
  <1>1. req' \in [Req -> Request] /\ TraceSound'
    BY TraceMoves
  <1>2. RateSound'
    BY RateUntouched
  <1>3. TriesSound'
    BY TriesUntouched
  <1>4. TypeOK'
    BY <1>1 DEF IInv, TypeOK, RestOK, SourceType
  <1>5. QED
    BY <1>1, <1>2, <1>3, <1>4 DEF IInv

\* The fields a request keeps when its phase, decision, trace and answer change.
Becomes(r, x) ==
    /\ x \in Request
    /\ r \in Request
    /\ r.kind = x.kind /\ r.entry = x.entry

LEMMA RestUntouched ==
    ASSUME IInv, UNCHANGED <<clock, source, shard, wired, kinds, notices, rough,
                             evictions>>,
           faults' \in 0 .. MaxFaults
    PROVE  RestOK'
  BY DEF IInv, TypeOK, RestOK, SourceType

LEMMA FaultType == ASSUME IInv, Fault PROVE faults' \in 0 .. MaxFaults
  BY FrontGatesAssumption DEF IInv, TypeOK, Fault

LEMMA InvokeStep == ASSUME IInv, NEW q \in Req, Invoke(q) PROVE IInv'
  <1>1. PICK o \in Org, u \in Actor, a \in Source :
          req' = [req EXCEPT ![q] = [Idle EXCEPT !.phase = "admit",
                    !.kind = "app", !.window = clock, !.org = o,
                    !.actor = u, !.source = a]]
    BY DEF Invoke
  <1> DEFINE r == [Idle EXCEPT !.phase = "admit", !.kind = "app",
                     !.window = clock, !.org = o, !.actor = u, !.source = a]
  <1>2. r \in Request
    BY IdleType DEF IInv, TypeOK, Request, Phase
  <1>3. /\ r.phase = "admit" /\ r.kind = "app" /\ r.trace = "none"
    BY DEF Idle
  <1>4. PICK x \in Request : x = r
    BY <1>2
  <1>5. Traced(x)'
    BY <1>3, <1>4 DEF Traced
  <1> HIDE DEF r
  <1>6. req' = [req EXCEPT ![q] = x]
    BY <1>1, <1>4 DEF r
  <1>7. UNCHANGED <<clock, countVars, appHistory, attemptVars, world, newest,
                    slips, evictions, faults>>
    BY DEF Invoke
  <1>8. RestOK'
    BY <1>7, RestUntouched DEF countVars, appHistory, attemptVars, world, IInv, TypeOK
  <1>9. QED
    BY <1>5, <1>6, <1>7, <1>8, RequestMoves
       DEF countVars, appHistory, attemptVars

LEMMA AttemptStep == ASSUME IInv, NEW q \in Req, Attempt(q) PROVE IInv'
  <1>1. PICK e \in EntryPoint, a \in Source, l \in Limiter :
          req' = [req EXCEPT ![q] = [Idle EXCEPT !.phase = "source",
                    !.kind = "attempt", !.window = clock, !.entry = e,
                    !.source = a, !.limiter = l]]
    BY DEF Attempt
  <1> DEFINE r == [Idle EXCEPT !.phase = "source", !.kind = "attempt",
                     !.window = clock, !.entry = e, !.source = a,
                     !.limiter = l]
  <1>2. r \in Request
    BY IdleType DEF IInv, TypeOK, Request, Phase
  <1>3. /\ r.phase = "source" /\ r.kind = "attempt" /\ r.trace = "none"
    BY DEF Idle
  <1>4. PICK x \in Request : x = r
    BY <1>2
  <1>5. Traced(x)'
    BY <1>3, <1>4 DEF Traced
  <1> HIDE DEF r
  <1>6. req' = [req EXCEPT ![q] = x]
    BY <1>1, <1>4 DEF r
  <1>7. UNCHANGED <<clock, countVars, appHistory, attemptVars, world, newest,
                    slips, evictions, faults>>
    BY DEF Attempt
  <1>8. RestOK'
    BY <1>7, RestUntouched DEF countVars, appHistory, attemptVars, world, IInv, TypeOK
  <1>9. QED
    BY <1>5, <1>6, <1>7, <1>8, RequestMoves
       DEF countVars, appHistory, attemptVars

LEMMA TickStep == ASSUME IInv, Tick PROVE IInv'
  <1>1. clock' \in Window
    BY FrontGatesAssumption DEF Tick, IInv, TypeOK, Window
  <1>2. UNCHANGED <<countVars, appHistory, attemptVars, world, req, newest,
                    slips, evictions, faults>>
    BY DEF Tick
  <1>3. RateSound' /\ TriesSound'
    BY <1>2, RateUntouched, TriesUntouched DEF countVars, appHistory, attemptVars
  <1>4. TypeOK'
    BY <1>1, <1>2 DEF IInv, TypeOK, countVars, appHistory, attemptVars, world
  <1>5. TraceSound'
    BY <1>2 DEF IInv, TraceSound, Traced, attemptVars
  <1>6. QED
    BY <1>3, <1>4, <1>5 DEF IInv

\* A slip forgives one limit more.
LEMMA SlipForgives ==
    ASSUME NEW n \in Nat, NEW most \in Nat
    PROVE  /\ n * most \in Nat
           /\ (n + 1) * most = n * most + most
  OBVIOUS

\* What counting one more request makes of one window of a subject.
LEMMA CoveredCounted ==
    ASSUME NEW s \in Subject, NEW r \in RateType, NEW w \in Window,
           NEW v \in Window, NEW latest \in Window, NEW n \in Nat,
           NEW allowed \in Nat, NEW refused \in BOOLEAN,
           OverLimit(s, Counted(s, r, w)) => refused,
           r.window <= latest, Covered(s, n, allowed, r, v, latest)
    PROVE  Covered(s, IF ~refused /\ v = w THEN n + 1 ELSE n,
                   IF w < latest THEN allowed + limit(s) ELSE allowed,
                   Counted(s, r, w), v, IF w > latest THEN w ELSE latest)
  <1> DEFINE c == Counted(s, r, w)
  <1>1. /\ limit(s) \in Nat /\ v \in Nat /\ w \in Nat /\ latest \in Nat
        /\ r.window \in Int /\ r.count \in Nat
    <2>1. r.window \in Window \cup {-1} /\ r.count \in Nat
      BY DEF RateType
    <2>2. QED
      BY <2>1, WindowInt, LimitNat
  <1>2. /\ c \in RateType /\ c.window = w
        /\ r.window = w => /\ OverLimit(s, r) => c.count = r.count
                           /\ ~OverLimit(s, r) => c.count = r.count + 1
        /\ r.window # w => c.count = 1
    BY CountedType
  <1>3. /\ OverLimit(s, r) <=> r.count > limit(s)
        /\ OverLimit(s, c) <=> c.count > limit(s)
        /\ c.count \in Nat
    BY <1>2 DEF OverLimit, RateType
  <1> HIDE DEF c
  <1>4. /\ n <= allowed
        /\ r.window = v /\ ~OverLimit(s, r) => n + limit(s) <= allowed + r.count
        /\ v >= latest /\ r.window # v => n + limit(s) <= allowed
    BY DEF Covered
  <1>5. OverLimit(s, c) => refused
    BY DEF c
  <1>6. CASE v # w
    <2>1. w < latest => n + limit(s) <= allowed + limit(s)
      BY <1>1, <1>4
    <2>2. w >= latest /\ v >= w => n + limit(s) <= allowed
      BY <1>1, <1>4, <1>6
    <2>3. QED
      BY <1>1, <1>2, <1>4, <1>6, <2>1, <2>2 DEF Covered, c
  <1>7. CASE v = w /\ refused
    <2>1. ~OverLimit(s, c) => n + limit(s) <= allowed + limit(s) + c.count
      BY <1>1, <1>3, <1>4
    <2>2. w >= latest /\ ~OverLimit(s, c) => n + limit(s) <= allowed + c.count
      BY <1>1, <1>2, <1>3, <1>4, <1>7
    <2>3. n <= allowed + limit(s)
      BY <1>1, <1>4
    <2>4. QED
      BY <1>1, <1>2, <1>4, <1>7, <2>1, <2>2, <2>3 DEF Covered, c
  <1>8. CASE v = w /\ ~refused
    <2>1. ~OverLimit(s, c) /\ c.count >= 1 /\ c.count <= limit(s)
      BY <1>1, <1>2, <1>3, <1>5, <1>8
    <2>2. n + 1 + limit(s) <= allowed + limit(s) + c.count
      BY <1>1, <1>3, <1>4, <2>1
    <2>3. w >= latest => n + 1 + limit(s) <= allowed + c.count
      BY <1>1, <1>2, <1>3, <1>4, <1>8, <2>1
    <2>4. QED
      BY <1>1, <1>2, <1>3, <1>8, <2>1, <2>2, <2>3 DEF Covered, c
  <1>9. QED
    BY <1>6, <1>7, <1>8

\* What the coordinator's turn makes of one subject that it counts.
LEMMA SubjectAdmitted ==
    ASSUME IInv, NEW o \in Org, NEW s \in Subject, NEW w \in Window,
           NEW refused \in BOOLEAN,
           OverLimit(s, Counted(s, rate[o][s], w)) => refused,
           rate'[o][s] = Counted(s, rate[o][s], w),
           block'[o][s] = Persisted(s, rate[o][s], rate'[o][s], block[o][s]),
           passed'[o][s] = IF refused THEN passed[o][s]
                           ELSE [passed[o][s] EXCEPT ![w] = @ + 1],
           allowance'[o][s] = allowance[o][s],
           newest'[o] = IF w > newest[o] THEN w ELSE newest[o],
           slips'[o] = IF w < newest[o] THEN slips[o] + 1 ELSE slips[o]
    PROVE  /\ OverLimit(s, rate'[o][s]) <=> rate'[o][s].exceededPersisted
           /\ OverLimit(s, rate'[o][s]) => /\ block'[o][s] = rate'[o][s].window
                                           /\ block'[o][s] # -1
           /\ rate'[o][s].window <= newest'[o] /\ block'[o][s] <= newest'[o]
           /\ \A v \in Window :
                 Covered(s, passed'[o][s][v],
                         allowance'[o][s][v] + slips'[o] * limit(s),
                         rate'[o][s], v, newest'[o])
  <1> DEFINE r == rate[o][s]
             n == Counted(s, r, w)
  <1>1. /\ r \in RateType /\ limit(s) \in Nat /\ newest[o] \in Nat /\ w \in Nat
        /\ slips[o] \in Nat /\ newest[o] \in Window
        /\ \A v \in Window : v \in Nat /\ passed[o][s][v] \in Nat
                                       /\ allowance[o][s][v] \in Nat
        /\ passed[o][s] \in [Window -> Nat]
    <2>1. Window \subseteq Nat
      BY FrontGatesAssumption DEF Window
    <2>2. r \in RateType
      BY DEF IInv, TypeOK, RateType
    <2>3. newest[o] \in Window /\ slips[o] \in Nat
      BY DEF IInv, TypeOK
    <2>4. passed[o][s] \in [Window -> Nat] /\ allowance[o][s] \in [Window -> Nat]
      BY DEF IInv, TypeOK
    <2>5. QED
      BY <2>1, <2>2, <2>3, <2>4, LimitNat
  <1>2. /\ n \in RateType /\ n.window = w
        /\ OverLimit(s, n) <=> n.exceededPersisted
        /\ r.window = w => /\ OverLimit(s, r) => n.count = r.count
                           /\ ~OverLimit(s, r) => n.count = r.count + 1
        /\ r.window # w => n.count = 1
    BY <1>1, CountedType
  <1>3. /\ OverLimit(s, r) <=> r.exceededPersisted
        /\ OverLimit(s, r) => block[o][s] = r.window /\ block[o][s] # -1
        /\ r.window <= newest[o] /\ block[o][s] <= newest[o]
        /\ \A v \in Window :
              Covered(s, passed[o][s][v], allowance[o][s][v] + slips[o] * limit(s),
                      r, v, newest[o])
    BY DEF IInv, RateSound
  <1>4. rate'[o][s] = n
    OBVIOUS
  <1>5. /\ OverLimit(s, rate'[o][s]) <=> rate'[o][s].exceededPersisted
        /\ rate'[o][s].window <= newest'[o]
    BY <1>1, <1>2, <1>4 DEF OverLimit
  <1>6. OverLimit(s, rate'[o][s]) => /\ block'[o][s] = rate'[o][s].window
                                     /\ block'[o][s] # -1
    BY <1>1, <1>2, <1>3, <1>4 DEF Persisted, OverLimit
  <1>7. block'[o][s] <= newest'[o]
    <2>1. block[o][s] \in Int
      <3>1. block[o][s] \in Window \cup {-1}
        BY DEF IInv, TypeOK
      <3>2. QED
        BY <3>1, WindowInt
    <2>2. block'[o][s] \in {w, block[o][s]}
      BY <1>2, <1>4 DEF Persisted
    <2>3. QED
      BY <1>1, <1>3, <2>1, <2>2
  <1>8. ASSUME NEW v \in Window
        PROVE  Covered(s, passed'[o][s][v],
                       allowance'[o][s][v] + slips'[o] * limit(s),
                       rate'[o][s], v, newest'[o])
    <2>1. PICK a \in Nat : a = slips[o] * limit(s)
      BY <1>1, SlipForgives
    <2>2. slips'[o] * limit(s) = IF w < newest[o] THEN a + limit(s) ELSE a
      <3>1. (slips[o] + 1) * limit(s) = slips[o] * limit(s) + limit(s)
        BY <1>1, SlipForgives
      <3>2. QED
        BY <2>1, <3>1
    <2>3. passed'[o][s][v] = IF ~refused /\ v = w THEN passed[o][s][v] + 1
                             ELSE passed[o][s][v]
      BY <1>1
    <2>4. PICK m \in Nat : m = passed[o][s][v]
      BY <1>1
    <2>5. PICK b \in Nat : b = allowance[o][s][v] + a
      BY <1>1, <2>1
    <2>6. Covered(s, m, b, r, v, newest[o])
      BY <1>3, <2>1, <2>4, <2>5
    <2>7. Covered(s, IF ~refused /\ v = w THEN m + 1 ELSE m,
                  IF w < newest[o] THEN b + limit(s) ELSE b,
                  n, v, IF w > newest[o] THEN w ELSE newest[o])
      BY <1>1, <1>3, <2>6, CoveredCounted
    <2>8. allowance'[o][s][v] + slips'[o] * limit(s) =
             IF w < newest[o] THEN b + limit(s) ELSE b
      <3>1. PICK c \in Nat : c = limit(s)
        BY <1>1
      <3>2. PICK d \in Nat : d = allowance[o][s][v]
        BY <1>1
      <3>3. slips'[o] * limit(s) = IF w < newest[o] THEN a + c ELSE a
        BY <2>2, <3>1
      <3>4. allowance'[o][s][v] = d
        BY <3>2
      <3>5. QED
        BY <2>1, <2>5, <3>1, <3>2, <3>3, <3>4
    <2>9. QED
      BY <1>4, <2>3, <2>4, <2>7, <2>8
  <1>9. QED
    BY <1>5, <1>6, <1>7, <1>8

\* Each coordinator or limiter that sees a window remembers the latest.
LEMMA SeesType ==
    ASSUME IInv, NEW x \in Org \cup Limiter, NEW w \in Window, Sees(x, w)
    PROVE  /\ newest' \in [Org \cup Limiter -> Window]
           /\ slips' \in [Org \cup Limiter -> Nat]
           /\ newest'[x] = IF w > newest[x] THEN w ELSE newest[x]
           /\ slips'[x] = IF w < newest[x] THEN slips[x] + 1 ELSE slips[x]
           /\ \A y \in Org \cup Limiter : y # x =>
                 newest'[y] = newest[y] /\ slips'[y] = slips[y]
  <1>1. /\ newest \in [Org \cup Limiter -> Window]
        /\ slips \in [Org \cup Limiter -> Nat]
    BY DEF IInv, TypeOK
  <1>2. /\ newest' = [newest EXCEPT ![x] = IF w > newest[x] THEN w ELSE newest[x]]
        /\ slips' = [slips EXCEPT ![x] =
                        IF w < newest[x] THEN slips[x] + 1 ELSE slips[x]]
    BY DEF Sees
  <1>3. /\ (IF w > newest[x] THEN w ELSE newest[x]) \in Window
        /\ (IF w < newest[x] THEN slips[x] + 1 ELSE slips[x]) \in Nat
    BY <1>1
  <1>4. QED
    BY <1>1, <1>2, <1>3

LEMMA AdmitStep == ASSUME IInv, NEW q \in Req, Admit(q) PROVE IInv'
  <1> DEFINE o == req[q].org
             a == req[q].source
             w == req[q].window
             mine == {req[q].actor, "organization"}
             counted == [s \in Subject |-> IF s \in mine
                                           THEN Counted(s, rate[o][s], w)
                                           ELSE rate[o][s]]
             seen == SourceCounted(source[o][a], w)
             refused == seen.blocked \/ \E s \in mine : OverLimit(s, counted[s])
             decision == IF refused THEN "rate_limited" ELSE "admitted"
             due == [req[q] EXCEPT !.phase = "report", !.decision = decision,
                        !.delta = seen.localCount - seen.reportedCount]
             over == [Answered(q, decision) EXCEPT !.decision = decision]
             kept == IF Due(seen)
                     THEN [seen EXCEPT !.reportedCount = seen.localCount]
                     ELSE seen
  <1>1. /\ rate' = [rate EXCEPT ![o] = counted]
        /\ block' = [block EXCEPT ![o] =
              [s \in Subject |-> IF s \in mine
                    THEN Persisted(s, rate[o][s], counted[s], block[o][s])
                    ELSE block[o][s]]]
        /\ source' = [source EXCEPT ![o][a] = kept]
        /\ req' = [req EXCEPT ![q] = IF Due(seen) THEN due ELSE over]
        /\ passed' = IF refused THEN passed
              ELSE [passed EXCEPT ![o] = [s \in Subject |->
                      IF s \in mine THEN [passed[o][s] EXCEPT ![w] = @ + 1]
                      ELSE passed[o][s]]]
        /\ rough' \in {rough, rough \cup {a}}
        /\ Sees(o, w)
        /\ UNCHANGED <<clock, shard, allowance, attemptVars, world, evictions,
                       faults>>
        /\ req[q].phase = "admit"
    BY DEF Admit
  <1>2. /\ req[q] \in Request /\ o \in Org /\ a \in Source /\ w \in Window
        /\ req[q].actor \in Actor /\ mine \subseteq Subject
        /\ o \in Org \cup Limiter /\ o \notin Limiter
    BY FrontGatesAssumption DEF IInv, TypeOK, Request, Subject
  <1>3. \A p \in Org, s \in Subject :
           /\ rate[p][s] \in RateType /\ block[p][s] \in Window \cup {-1}
           /\ passed[p][s] \in [Window -> Nat]
    BY DEF IInv, TypeOK, RateType
  <1>4. counted \in [Subject -> RateType]
    BY <1>2, <1>3, CountedType
  <1>5. kept \in SourceType /\ seen \in SourceType
    <2>1. source[o][a] \in SourceType
      BY <1>2 DEF IInv, TypeOK, SourceType
    <2>2. seen \in SourceType
      BY <1>2, <2>1, SourceCountedType
    <2> HIDE DEF seen
    <2>3. QED
      BY <2>2 DEF SourceType
  <1>6. decision \in {"admitted", "rate_limited"} /\ refused \in BOOLEAN
    OBVIOUS
  <1>7. due \in Request /\ over \in Request
    <2>1. seen.localCount - seen.reportedCount \in Int
      BY <1>5 DEF SourceType
    <2> HIDE DEF decision, seen
    <2>2. over = [req[q] EXCEPT !.phase = "done", !.answer = decision,
                                !.decision = decision]
      BY DEF Answered
    <2>3. QED
      BY <1>2, <1>6, <2>1, <2>2 DEF Request, Phase, Refusal
  <1>8. /\ due.phase = "report" /\ due.kind = "app" /\ due.trace = "none"
        /\ over.phase = "done" /\ over.kind = "app"
    BY <1>1, <1>2 DEF IInv, TraceSound, Traced, Request, Answered
  <1> PICK x \in Request : x = IF Due(seen) THEN due ELSE over
    BY <1>7
  <1>9. Traced(x)'
    BY <1>8 DEF Traced
  <1> HIDE DEF due, over, decision
  <1>10. req' \in [Req -> Request] /\ TraceSound'
    BY <1>1, <1>9, TraceMoves DEF attemptVars
  <1>11. /\ newest' \in [Org \cup Limiter -> Window]
         /\ slips' \in [Org \cup Limiter -> Nat]
         /\ newest'[o] = IF w > newest[o] THEN w ELSE newest[o]
         /\ slips'[o] = IF w < newest[o] THEN slips[o] + 1 ELSE slips[o]
         /\ \A y \in Org \cup Limiter : y # o =>
               newest'[y] = newest[y] /\ slips'[y] = slips[y]
    BY <1>1, <1>2, SeesType
  <1>12. TriesSound'
    BY <1>1, <1>2, <1>11, TriesUntouched DEF attemptVars
  <1> HIDE DEF seen, kept
  <1>13. TypeOK'
    <2>1. /\ rate' \in [Org -> [Subject -> RateType]]
          /\ source' \in [Org -> [Source -> SourceType]]
      BY <1>1, <1>4, <1>5 DEF IInv, TypeOK, RateType, SourceType
    <2>2. block' \in [Org -> [Subject -> Window \cup {-1}]]
      BY <1>1, <1>2, <1>3, <1>4 DEF IInv, TypeOK, Persisted, RateType
    <2>3. [s \in Subject |-> IF s \in mine THEN [passed[o][s] EXCEPT ![w] = @ + 1]
                             ELSE passed[o][s]] \in [Subject -> [Window -> Nat]]
      BY <1>2, <1>3
    <2>4. passed' \in [Org -> [Subject -> [Window -> Nat]]]
      BY <1>1, <2>3 DEF IInv, TypeOK
    <2>5. rough' \subseteq Source
      BY <1>1, <1>2 DEF IInv, TypeOK
    <2>6. QED
      BY <1>1, <1>10, <1>11, <2>1, <2>2, <2>4, <2>5
         DEF IInv, TypeOK, attemptVars, world, RateType, SourceType
  <1>14. ASSUME NEW s \in mine
         PROVE  /\ rate'[o][s] = Counted(s, rate[o][s], w)
                /\ block'[o][s] = Persisted(s, rate[o][s], rate'[o][s], block[o][s])
                /\ passed'[o][s] = IF refused THEN passed[o][s]
                                   ELSE [passed[o][s] EXCEPT ![w] = @ + 1]
                /\ allowance'[o][s] = allowance[o][s]
                /\ OverLimit(s, Counted(s, rate[o][s], w)) => refused
    <2>1. s \in Subject /\ counted[s] = Counted(s, rate[o][s], w)
      BY <1>2, <1>14
    <2>2. rate'[o][s] = counted[s]
      BY <1>1, <1>2, <2>1 DEF IInv, TypeOK
    <2>3. block'[o][s] = Persisted(s, rate[o][s], counted[s], block[o][s])
      BY <1>1, <1>2, <1>14, <2>1 DEF IInv, TypeOK
    <2>4. passed'[o][s] = IF refused THEN passed[o][s]
                          ELSE [passed[o][s] EXCEPT ![w] = @ + 1]
      BY <1>1, <1>2, <1>14, <2>1 DEF IInv, TypeOK
    <2>5. OverLimit(s, counted[s]) => refused
      BY <1>14
    <2>6. QED
      BY <1>1, <2>1, <2>2, <2>3, <2>4, <2>5
  <1>15. ASSUME NEW p \in Org, NEW s \in Subject, p # o \/ s \notin mine
         PROVE  /\ rate'[p][s] = rate[p][s] /\ block'[p][s] = block[p][s]
                /\ passed'[p][s] = passed[p][s]
                /\ allowance'[p][s] = allowance[p][s]
    BY <1>1, <1>2, <1>15 DEF IInv, TypeOK
  <1> HIDE DEF o, w, mine, refused, counted, a
  <1>16. RateSound'
    <2> SUFFICES ASSUME NEW p \in Org, NEW s \in Subject
                 PROVE  /\ OverLimit(s, rate'[p][s]) <=> rate'[p][s].exceededPersisted
                        /\ OverLimit(s, rate'[p][s]) =>
                              /\ block'[p][s] = rate'[p][s].window
                              /\ block'[p][s] # -1
                        /\ rate'[p][s].window <= newest'[p]
                        /\ block'[p][s] <= newest'[p]
                        /\ \A v \in Window :
                              Covered(s, passed'[p][s][v],
                                      allowance'[p][s][v] + slips'[p] * limit(s),
                                      rate'[p][s], v, newest'[p])
      BY DEF RateSound
    <2>1. CASE p = o /\ s \in mine
      <3>1. /\ rate'[o][s] = Counted(s, rate[o][s], w)
            /\ block'[o][s] = Persisted(s, rate[o][s], rate'[o][s], block[o][s])
            /\ passed'[o][s] = IF refused THEN passed[o][s]
                               ELSE [passed[o][s] EXCEPT ![w] = @ + 1]
            /\ allowance'[o][s] = allowance[o][s]
            /\ OverLimit(s, Counted(s, rate[o][s], w)) => refused
        BY <1>14, <2>1
      <3>2. PICK oo \in Org, ww \in Window, rr \in BOOLEAN :
               oo = o /\ ww = w /\ rr = refused
        BY <1>2, <1>6
      <3>3. /\ OverLimit(s, Counted(s, rate[oo][s], ww)) => rr
            /\ rate'[oo][s] = Counted(s, rate[oo][s], ww)
            /\ block'[oo][s] = Persisted(s, rate[oo][s], rate'[oo][s], block[oo][s])
            /\ passed'[oo][s] = IF rr THEN passed[oo][s]
                                ELSE [passed[oo][s] EXCEPT ![ww] = @ + 1]
            /\ allowance'[oo][s] = allowance[oo][s]
        BY <3>1, <3>2
      <3>4. /\ newest'[oo] = IF ww > newest[oo] THEN ww ELSE newest[oo]
            /\ slips'[oo] = IF ww < newest[oo] THEN slips[oo] + 1 ELSE slips[oo]
        BY <1>11, <3>2
      <3>5. p = oo
        BY <2>1, <3>2
      <3>6. /\ OverLimit(s, rate'[oo][s]) <=> rate'[oo][s].exceededPersisted
            /\ OverLimit(s, rate'[oo][s]) => /\ block'[oo][s] = rate'[oo][s].window
                                             /\ block'[oo][s] # -1
            /\ rate'[oo][s].window <= newest'[oo] /\ block'[oo][s] <= newest'[oo]
            /\ \A v \in Window :
                  Covered(s, passed'[oo][s][v],
                          allowance'[oo][s][v] + slips'[oo] * limit(s),
                          rate'[oo][s], v, newest'[oo])
        BY <3>3, <3>4, SubjectAdmitted
      <3>7. QED
        BY <3>5, <3>6
    <2>2. CASE ~(p = o /\ s \in mine)
      <3>1. /\ rate'[p][s] = rate[p][s] /\ block'[p][s] = block[p][s]
            /\ passed'[p][s] = passed[p][s] /\ allowance'[p][s] = allowance[p][s]
        BY <1>15, <2>2
      <3>2. /\ newest[p] \in Nat /\ newest'[p] \in Nat /\ newest'[p] >= newest[p]
            /\ slips[p] \in Nat /\ slips'[p] \in {slips[p], slips[p] + 1}
        <4>1. /\ Window \subseteq Nat /\ newest[p] \in Window
              /\ newest'[p] \in Window /\ slips[p] \in Nat
          BY <1>11, FrontGatesAssumption DEF IInv, TypeOK, Window
        <4>2. w \in Nat /\ newest[p] \in Nat /\ newest'[p] \in Nat
          BY <1>2, <4>1
        <4>3. CASE p = o
          BY <1>11, <4>1, <4>2, <4>3
        <4>4. CASE p # o
          BY <1>11, <4>1, <4>2, <4>4
        <4>5. QED
          BY <4>3, <4>4
      <3>3. /\ rate[p][s].window \in Int /\ block[p][s] \in Int
            /\ \A v \in Window : v \in Nat
        <4>1. \A v \in Window : v \in Nat
          BY FrontGatesAssumption DEF Window
        <4>2. /\ rate[p][s].window \in Window \cup {-1}
              /\ block[p][s] \in Window \cup {-1}
          BY <1>3 DEF RateType
        <4>3. QED
          BY <4>1, <4>2
      <3>4. /\ OverLimit(s, rate[p][s]) <=> rate[p][s].exceededPersisted
            /\ OverLimit(s, rate[p][s]) => block[p][s] = rate[p][s].window
                                           /\ block[p][s] # -1
            /\ rate[p][s].window <= newest[p] /\ block[p][s] <= newest[p]
            /\ \A v \in Window :
                  Covered(s, passed[p][s][v],
                          allowance[p][s][v] + slips[p] * limit(s),
                          rate[p][s], v, newest[p])
        BY DEF IInv, RateSound
      <3>5. rate'[p][s].window <= newest'[p] /\ block'[p][s] <= newest'[p]
        BY <3>1, <3>2, <3>3, <3>4
      <3>6. ASSUME NEW v \in Window
            PROVE  Covered(s, passed'[p][s][v],
                           allowance'[p][s][v] + slips'[p] * limit(s),
                           rate'[p][s], v, newest'[p])
        <4>1. /\ passed[p][s][v] \in Nat /\ allowance[p][s][v] \in Nat
              /\ limit(s) \in Nat /\ rate[p][s].count \in Nat
          BY <1>3, LimitNat DEF IInv, TypeOK, RateType
        <4>2. PICK had \in Nat : had = slips[p] * limit(s)
          BY <3>2, <4>1, SlipForgives
        <4>3. PICK has \in Nat : has = slips'[p] * limit(s) /\ has >= had
          <5>1. (slips[p] + 1) * limit(s) = had + limit(s)
            BY <3>2, <4>1, <4>2, SlipForgives
          <5>2. CASE slips'[p] = slips[p]
            BY <4>2, <5>2
          <5>3. CASE slips'[p] = slips[p] + 1
            <6>1. PICK c \in Nat : c = limit(s)
              BY <4>1
            <6>2. slips'[p] * limit(s) = had + c
              BY <5>1, <5>3, <6>1
            <6>3. QED
              BY <6>2
          <5>4. QED
            BY <3>2, <5>2, <5>3
        <4>4. Covered(s, passed[p][s][v], allowance[p][s][v] + had,
                      rate[p][s], v, newest[p])
          BY <3>4, <4>2
        <4>5. Covered(s, passed[p][s][v], allowance[p][s][v] + has,
                      rate[p][s], v, newest'[p])
          BY <3>2, <3>3, <4>1, <4>3, <4>4 DEF Covered
        <4>6. QED
          BY <3>1, <4>3, <4>5
      <3>7. QED
        BY <3>1, <3>4, <3>5, <3>6
    <2>3. QED
      BY <2>1, <2>2
  <1>17. QED
    BY <1>10, <1>12, <1>13, <1>16 DEF IInv

\* The record a request ends with.
LEMMA AnsweredFacts ==
    ASSUME IInv, NEW q \in Req,
           NEW answer \in {"admitted", "degraded", "static", "invalid", "internal"}
                              \cup Refusal \cup OutcomeKind
    PROVE  /\ Answered(q, answer) \in Request
           /\ Answered(q, answer).phase = "done"
           /\ Answered(q, answer).answer = answer
           /\ Answered(q, answer).kind = req[q].kind
           /\ Answered(q, answer).entry = req[q].entry
           /\ Answered(q, answer).trace = req[q].trace
  <1>1. req[q] \in Request
    BY DEF IInv, TypeOK
  <1>2. "done" \in Phase
    BY DEF Phase
  <1>3. QED
    BY <1>1, <1>2 DEF Answered, Request

\* An App's request that is over owes no trace.
LEMMA AppMoves ==
    ASSUME IInv, NEW q \in Req, NEW x \in Request, x.kind = "app",
           x.phase \in {"apply", "done"}, x.trace = "none",
           req' = [req EXCEPT ![q] = x], notices' = notices, RestOK',
           UNCHANGED <<rate, block, passed, allowance, tries, reached,
                       newest, slips>>
    PROVE  IInv'
  <1>1. Traced(x)'
    BY DEF Traced
  <1>2. QED
    BY <1>1, RequestMoves

LEMMA AppRequest ==
    ASSUME IInv, NEW q \in Req, req[q].phase \in {"admit", "report", "apply"}
    PROVE  req[q] \in Request /\ req[q].kind = "app" /\ req[q].trace = "none"
  BY DEF IInv, TypeOK, TraceSound, Traced

LEMMA UnreachedStep == ASSUME IInv, NEW q \in Req, Unreached(q) PROVE IInv'
  <1>1. /\ req[q].phase = "admit" /\ Fault
        /\ req' = [req EXCEPT ![q] = Answered(q, "degraded")]
        /\ UNCHANGED <<clock, countVars, appHistory, attemptVars, world, newest,
                       slips, evictions>>
    BY DEF Unreached
  <1>2. PICK x \in Request : x = Answered(q, "degraded")
    BY AnsweredFacts
  <1>3. x.kind = "app" /\ x.phase = "done" /\ x.trace = "none"
    BY <1>1, <1>2, AnsweredFacts, AppRequest
  <1>4. RestOK'
    BY <1>1, FaultType, RestUntouched DEF countVars, appHistory, attemptVars, world
  <1>5. QED
    BY <1>1, <1>2, <1>3, <1>4, AppMoves DEF countVars, appHistory, attemptVars

LEMMA ReportStep == ASSUME IInv, NEW q \in Req, Report(q) PROVE IInv'
  <1> DEFINE a == req[q].source
             w == req[q].window
             total == shard[a][w] + req[q].delta
             counts == [v \in Window |-> IF v < w - Keep THEN 0
                                         ELSE IF v = w THEN total ELSE shard[a][v]]
             y == [req[q] EXCEPT !.phase = "apply", !.total = total]
  <1>1. /\ req[q].phase = "report"
        /\ shard' = [shard EXCEPT ![a] = counts]
        /\ req' = [req EXCEPT ![q] = y]
        /\ rough' \in {rough, rough \cup {a}}
        /\ UNCHANGED <<clock, rate, block, source, passed, allowance, attemptVars,
                       world, newest, slips, evictions, faults>>
    BY DEF Report
  <1>2. /\ req[q] \in Request /\ req[q].kind = "app" /\ req[q].trace = "none"
    BY <1>1, AppRequest
  <1>3. a \in Source /\ w \in Window /\ req[q].delta \in Int
    BY <1>2 DEF Request
  <1>4. shard \in [Source -> [Window -> Int]]
    BY DEF IInv, TypeOK
  <1>5. total \in Int
    BY <1>3, <1>4
  <1> HIDE DEF total
  <1>6. counts \in [Window -> Int]
    BY <1>4, <1>3, <1>5
  <1>7. shard' \in [Source -> [Window -> Int]]
    BY <1>1, <1>4, <1>6
  <1>8. y \in Request /\ y.kind = "app" /\ y.phase = "apply" /\ y.trace = "none"
    <2>1. PICK n \in Int : n = total
      BY <1>5
    <2>2. y = [req[q] EXCEPT !.phase = "apply", !.total = n]
      BY <2>1
    <2> DEFINE z == [req[q] EXCEPT !.phase = "apply", !.total = n]
    <2>3. z \in Request /\ z.kind = "app" /\ z.phase = "apply" /\ z.trace = "none"
      BY <1>2 DEF Request, Phase
    <2>4. y = z
      BY <2>2
    <2> HIDE DEF y, z
    <2>5. QED
      BY <2>3, <2>4
  <1>9. PICK x \in Request : x = y
    BY <1>8
  <1>10. RestOK'
    BY <1>1, <1>3, <1>7 DEF IInv, TypeOK, RestOK, SourceType, attemptVars, world
  <1>11. QED
    BY <1>1, <1>8, <1>9, <1>10, AppMoves DEF attemptVars

LEMMA ReportFailsStep == ASSUME IInv, NEW q \in Req, ReportFails(q) PROVE IInv'
  <1> DEFINE y == [req[q] EXCEPT !.phase = "apply", !.total = -1]
  <1>1. /\ req[q].phase \in {"report", "apply"} /\ Fault
        /\ req' = [req EXCEPT ![q] = y]
        /\ rough' = rough \cup {req[q].source}
        /\ UNCHANGED <<clock, countVars, passed, allowance, attemptVars, world,
                       newest, slips, evictions>>
    BY DEF ReportFails
  <1>2. req[q] \in Request /\ req[q].kind = "app" /\ req[q].trace = "none"
    BY <1>1, AppRequest
  <1>3. y \in Request /\ y.kind = "app" /\ y.phase = "apply" /\ y.trace = "none"
    <2>1. PICK n \in Int : n = -1
      OBVIOUS
    <2> DEFINE z == [req[q] EXCEPT !.phase = "apply", !.total = n]
    <2>2. z \in Request /\ z.kind = "app" /\ z.phase = "apply" /\ z.trace = "none"
      BY <1>2 DEF Request, Phase
    <2>3. y = z
      BY <2>1
    <2> HIDE DEF y, z
    <2>4. QED
      BY <2>2, <2>3
  <1>4. PICK x \in Request : x = y
    BY <1>3
  <1>5. req[q].source \in Source
    BY <1>2 DEF Request
  <1>6. RestOK'
    BY <1>1, <1>5, FaultType
       DEF IInv, TypeOK, RestOK, SourceType, countVars, attemptVars, world
  <1>7. QED
    BY <1>1, <1>3, <1>4, <1>6, AppMoves DEF countVars, attemptVars

LEMMA ApplyStep == ASSUME IInv, NEW q \in Req, Apply(q) PROVE IInv'
  <1> DEFINE o == req[q].org
             a == req[q].source
             w == req[q].window
             blocks == BlocksSource(source[o][a], w, req[q].total)
             now == [source[o][a] EXCEPT !.blocked = @ \/ blocks]
             answer == IF now.window = w /\ now.blocked THEN "rate_limited"
                       ELSE req[q].decision
  <1>1. /\ req[q].phase = "apply"
        /\ source' = [source EXCEPT ![o][a] = now]
        /\ req' = [req EXCEPT ![q] = Answered(q, IF now.window = w /\ now.blocked
                                                 THEN "rate_limited"
                                                 ELSE req[q].decision)]
        /\ UNCHANGED <<clock, rate, block, shard, appHistory, attemptVars, world,
                       newest, slips, evictions, faults>>
    BY DEF Apply
  <1>2. req[q] \in Request /\ req[q].kind = "app" /\ req[q].trace = "none"
    BY <1>1, AppRequest
  <1>3. o \in Org /\ a \in Source
    BY <1>2 DEF Request
  <1>4. source[o][a] \in SourceType /\ source \in [Org -> [Source -> SourceType]]
    BY <1>3 DEF IInv, TypeOK, SourceType
  <1>5. blocks \in BOOLEAN
    BY DEF BlocksSource
  <1> HIDE DEF blocks
  <1>6. now \in SourceType
    BY <1>4, <1>5 DEF SourceType
  <1>7. source' \in [Org -> [Source -> SourceType]]
    BY <1>1, <1>3, <1>4, <1>6
  <1> HIDE DEF now
  <1>8. answer \in {"none", "admitted"} \cup Refusal \cup OutcomeKind
    BY <1>2 DEF Request, Refusal
  <1>9. PICK z \in {"none", "admitted"} \cup Refusal \cup OutcomeKind : z = answer
    BY <1>8
  <1>10. req' = [req EXCEPT ![q] = Answered(q, z)]
    BY <1>1, <1>9
  <1> HIDE DEF answer
  <1>11. /\ Answered(q, z) \in Request /\ Answered(q, z).kind = "app"
         /\ Answered(q, z).phase = "done" /\ Answered(q, z).trace = "none"
    BY <1>2 DEF Answered, Request, Phase
  <1>12. PICK x \in Request : x = Answered(q, z)
    BY <1>11
  <1>13. RestOK'
    BY <1>1, <1>7 DEF IInv, TypeOK, RestOK, SourceType, appHistory, attemptVars,
                      world
  <1>14. QED
    BY <1>1, <1>10, <1>11, <1>12, <1>13, AppMoves DEF appHistory, attemptVars

\* An eviction: who was over is over; who was not may start again.
LEMMA EvictStep == ASSUME IInv, NEW o \in Org, Evict(o) PROVE IInv'
  <1> DEFINE back == [s \in Subject |-> Hydrated(s, block[o][s])]
             more == [s \in Subject |->
          [w \in Window |-> IF rate[o][s].window = w /\ ~OverLimit(s, rate[o][s])
                            THEN allowance[o][s][w] + limit(s)
                            ELSE allowance[o][s][w]]]
  <1>1. /\ evictions < MaxEvictions /\ evictions' = evictions + 1
        /\ rate' = [rate EXCEPT ![o] = back]
        /\ source' = [source EXCEPT ![o] = [a \in Source |-> UnseenSource]]
        /\ req' = [q \in Req |->
              IF req[q].phase \in {"report", "apply"} /\ req[q].org = o
              THEN Answered(q, "degraded") ELSE req[q]]
        /\ allowance' = [allowance EXCEPT ![o] = more]
        /\ rough' = rough \cup {a \in Source : source[o][a] # UnseenSource}
        /\ UNCHANGED <<clock, block, shard, passed, attemptVars, world, newest,
                       slips, faults>>
    BY DEF Evict
  <1>2. Window \subseteq Nat
    BY FrontGatesAssumption DEF Window
  <1>3. \A s \in Subject :
           /\ rate[o][s] \in RateType /\ block[o][s] \in Window \cup {-1}
           /\ allowance[o][s] \in [Window -> Nat] /\ passed[o][s] \in [Window -> Nat]
           /\ limit(s) \in Nat
    BY LimitNat DEF IInv, TypeOK, RateType
  <1>4. \A s \in Subject :
           /\ Hydrated(s, block[o][s]) \in RateType
           /\ Hydrated(s, block[o][s]).window = block[o][s]
           /\ block[o][s] # -1 => /\ Hydrated(s, block[o][s]).count = limit(s) + 1
                                  /\ Hydrated(s, block[o][s]).exceededPersisted
           /\ block[o][s] = -1 => /\ Hydrated(s, block[o][s]).count = 0
                                  /\ ~Hydrated(s, block[o][s]).exceededPersisted
    BY <1>3 DEF Hydrated, Unseen, RateType
  <1>5. TypeOK'
    <2>1. rate' \in [Org -> [Subject -> RateType]]
      BY <1>1, <1>4 DEF IInv, TypeOK, RateType
    <2>2. [a \in Source |-> UnseenSource] \in [Source -> SourceType]
      BY DEF UnseenSource, SourceType
    <2>3. source' \in [Org -> [Source -> SourceType]]
      BY <1>1, <2>2 DEF IInv, TypeOK, SourceType
    <2>4. more \in [Subject -> [Window -> Nat]]
      BY <1>3
    <2>5. allowance' \in [Org -> [Subject -> [Window -> Nat]]]
      BY <1>1, <2>4 DEF IInv, TypeOK
    <2>6. \A q \in Req : Answered(q, "degraded") \in Request /\ req[q] \in Request
      BY AnsweredFacts DEF IInv, TypeOK
    <2>7. req' \in [Req -> Request]
      BY <1>1, <2>6
    <2>8. evictions' \in 0 .. MaxEvictions
      BY <1>1, FrontGatesAssumption DEF IInv, TypeOK
    <2>9. QED
      BY <1>1, <2>1, <2>3, <2>5, <2>7, <2>8
         DEF IInv, TypeOK, RateType, SourceType, attemptVars, world
  <1>6. TriesSound'
    BY <1>1, TriesUntouched DEF attemptVars
  <1>7. TraceSound'
    <2> SUFFICES ASSUME NEW q \in Req PROVE Traced(req[q])'
      BY DEF TraceSound
    <2>1. CASE req[q].phase \in {"report", "apply"} /\ req[q].org = o
      <3>1. req'[q] = Answered(q, "degraded") /\ req[q].kind = "app"
        BY <1>1, <2>1, AppRequest
      <3>2. QED
        BY <3>1, AnsweredFacts DEF Traced
    <2>2. CASE ~(req[q].phase \in {"report", "apply"} /\ req[q].org = o)
      <3>1. req'[q] = req[q] /\ notices' = notices /\ Traced(req[q])
        BY <1>1, <2>2 DEF IInv, TraceSound, attemptVars
      <3>2. QED
        BY <3>1 DEF Traced
    <2>3. QED
      BY <2>1, <2>2
  <1>8. RateSound'
    <2> SUFFICES ASSUME NEW p \in Org, NEW s \in Subject
                 PROVE  /\ OverLimit(s, rate'[p][s]) <=> rate'[p][s].exceededPersisted
                        /\ OverLimit(s, rate'[p][s]) =>
                              /\ block'[p][s] = rate'[p][s].window
                              /\ block'[p][s] # -1
                        /\ rate'[p][s].window <= newest'[p]
                        /\ block'[p][s] <= newest'[p]
                        /\ \A v \in Window :
                              Covered(s, passed'[p][s][v],
                                      allowance'[p][s][v] + slips'[p] * limit(s),
                                      rate'[p][s], v, newest'[p])
      BY DEF RateSound
    <2>1. /\ newest' = newest /\ slips' = slips /\ block' = block /\ passed' = passed
      BY <1>1
    <2>2. /\ OverLimit(s, rate[p][s]) <=> rate[p][s].exceededPersisted
          /\ OverLimit(s, rate[p][s]) => block[p][s] = rate[p][s].window
                                         /\ block[p][s] # -1
          /\ rate[p][s].window <= newest[p] /\ block[p][s] <= newest[p]
          /\ \A v \in Window :
                Covered(s, passed[p][s][v], allowance[p][s][v] + slips[p] * limit(s),
                        rate[p][s], v, newest[p])
      BY DEF IInv, RateSound
    <2>3. CASE p # o
      <3>1. rate'[p][s] = rate[p][s] /\ allowance'[p][s] = allowance[p][s]
        BY <1>1, <2>3 DEF IInv, TypeOK
      <3>2. QED
        BY <2>1, <2>2, <3>1
    <2>4. CASE p = o
      <3>1. rate'[p][s] = Hydrated(s, block[o][s])
        BY <1>1, <2>4 DEF IInv, TypeOK
      <3> DEFINE h == Hydrated(s, block[o][s])
      <3>2. \A v \in Window : allowance'[p][s][v] =
               IF rate[o][s].window = v /\ ~OverLimit(s, rate[o][s])
               THEN allowance[o][s][v] + limit(s) ELSE allowance[o][s][v]
        BY <1>1, <2>4 DEF IInv, TypeOK
      <3>3. /\ h \in RateType /\ h.window = block[o][s] /\ limit(s) \in Nat
            /\ block[o][s] # -1 => h.count = limit(s) + 1 /\ h.exceededPersisted
            /\ block[o][s] = -1 => h.count = 0 /\ ~h.exceededPersisted
        BY <1>3, <1>4
      <3> HIDE DEF h
      <3>4. OverLimit(s, h) <=> block[o][s] # -1
        BY <3>3 DEF OverLimit, RateType
      <3>5. OverLimit(s, rate'[p][s]) <=> rate'[p][s].exceededPersisted
        BY <3>1, <3>3, <3>4 DEF h
      <3>6. /\ OverLimit(s, rate'[p][s]) => block'[p][s] = rate'[p][s].window
                                            /\ block'[p][s] # -1
            /\ rate'[p][s].window <= newest'[p] /\ block'[p][s] <= newest'[p]
        BY <2>1, <2>2, <2>4, <3>1, <3>3, <3>4 DEF h
      <3>7. ASSUME NEW v \in Window
            PROVE  Covered(s, passed'[p][s][v],
                           allowance'[p][s][v] + slips'[p] * limit(s),
                           rate'[p][s], v, newest'[p])
        <4>1. /\ passed[o][s][v] \in Nat /\ allowance[o][s][v] \in Nat
              /\ v \in Nat /\ slips[o] \in Nat /\ rate[o][s].count \in Nat
          BY <1>2, <1>3 DEF IInv, TypeOK, RateType
        <4>2. PICK a \in Nat : a = slips[o] * limit(s)
          BY <3>3, <4>1, SlipForgives
        <4>3. PICK n \in Nat, d \in Nat, c \in Nat :
                 n = passed[o][s][v] /\ d = allowance[o][s][v] /\ c = limit(s)
          BY <3>3, <4>1
        <4>4. /\ n <= d + a
              /\ rate[o][s].window = v /\ ~OverLimit(s, rate[o][s]) =>
                    n + c <= d + a + rate[o][s].count
              /\ v >= newest[o] /\ rate[o][s].window # v => n + c <= d + a
          BY <2>2, <2>4, <4>2, <4>3 DEF Covered
        <4>5. PICK e \in Nat : e = IF rate[o][s].window = v /\ ~OverLimit(s, rate[o][s])
                                   THEN d + c ELSE d
          BY <4>3
        <4>6. n <= e + a
          BY <4>3, <4>4, <4>5
        <4>7. h.window = v => OverLimit(s, h)
          BY <3>3, <3>4, <4>1
        <4>8. v >= newest[o] /\ h.window # v => n + c <= e + a
          <5>1. CASE rate[o][s].window = v /\ OverLimit(s, rate[o][s])
            BY <2>2, <2>4, <3>3, <5>1
          <5>2. CASE rate[o][s].window = v /\ ~OverLimit(s, rate[o][s])
            BY <4>3, <4>4, <4>5, <5>2
          <5>3. CASE rate[o][s].window # v
            BY <4>3, <4>4, <4>5, <5>3
          <5>4. QED
            BY <5>1, <5>2, <5>3
        <4>9. Covered(s, n, e + a, h, v, newest[o])
          BY <4>3, <4>6, <4>7, <4>8 DEF Covered
        <4>10. /\ passed'[p][s][v] = n /\ allowance'[p][s][v] = e
               /\ slips'[p] * limit(s) = a /\ newest'[p] = newest[o]
          BY <2>1, <2>4, <3>2, <4>2, <4>3, <4>5
        <4>11. QED
          BY <3>1, <4>9, <4>10 DEF h
      <3>8. QED
        BY <3>5, <3>6, <3>7
    <2>5. QED
      BY <2>3, <2>4
  <1>9. QED
    BY <1>5, <1>6, <1>7, <1>8 DEF IInv

TriedType == [window : Window \cup {-1}, count : Nat]

\* A limiter's turn: what it makes of one key at one entry point, the one it
\* checks or another.
LEMMA KeyTried ==
    ASSUME IInv, NEW l \in Limiter, NEW e \in EntryPoint, NEW k \in Key,
           NEW w \in Window, NEW f \in EntryPoint, NEW j \in Key
    PROVE  LET old == tries[l][f][j]
               new == TriesAfter(l, e, k, w)[f][j]
           IN  /\ old \in TriedType /\ new \in TriedType
               /\ f = e /\ j = k =>
                     /\ new.window = w
                     /\ old.window = w => new.count = old.count + 1
                     /\ old.window # w => new.count = 1
               /\ ~(f = e /\ j = k) =>
                     new = IF old.window < w THEN Untried ELSE old
  <1>1. tries[l][f][j] \in TriedType /\ Untried \in TriedType
    BY DEF IInv, TypeOK, Untried, TriedType
  <1>2. Window \subseteq Nat
    BY FrontGatesAssumption DEF Window
  <1>3. CASE f = e /\ j = k
    <2>1. TriesAfter(l, e, k, w)[f][j] =
             [window |-> w, count |-> CountAfter(l, e, k, w)]
      BY <1>3 DEF TriesAfter
    <2>2. /\ tries[l][f][j].window = w =>
                CountAfter(l, e, k, w) = tries[l][f][j].count + 1
          /\ tries[l][f][j].window # w => CountAfter(l, e, k, w) = 1
      BY <1>3 DEF CountAfter
    <2>3. CountAfter(l, e, k, w) \in Nat
      BY <1>1, <2>2 DEF TriedType
    <2>4. QED
      BY <1>1, <1>3, <2>1, <2>2, <2>3 DEF TriedType
  <1>4. CASE ~(f = e /\ j = k)
    <2>1. TriesAfter(l, e, k, w)[f][j] =
             IF tries[l][f][j].window < w THEN Untried ELSE tries[l][f][j]
      BY <1>4 DEF TriesAfter
    <2>2. QED
      BY <1>1, <1>4, <2>1
  <1>5. QED
    BY <1>3, <1>4

\* What a check of its key makes of one window of a limiter.
LEMMA WithinChecked ==
    ASSUME NEW most \in Nat, NEW n \in Nat, NEW forgiven \in Nat,
           NEW r \in TriedType, NEW w \in Window, NEW v \in Window,
           NEW latest \in Window, NEW c \in Nat,
           r.window = w => c = r.count + 1, r.window # w => c = 1,
           Within(most, n, forgiven, r, v, latest)
    PROVE  Within(most, IF c <= most /\ v = w THEN n + 1 ELSE n,
                  IF w < latest THEN forgiven + most ELSE forgiven,
                  [window |-> w, count |-> c], v,
                  IF w > latest THEN w ELSE latest)
  <1>1. /\ v \in Nat /\ w \in Nat /\ latest \in Nat
        /\ r.window \in Int /\ r.count \in Nat
    <2>1. r.window \in Window \cup {-1} /\ r.count \in Nat
      BY DEF TriedType
    <2>2. QED
      BY <2>1, WindowInt
  <1>2. /\ n <= forgiven + most /\ r.window <= latest
        /\ r.window = v => n <= forgiven + r.count
        /\ v >= latest /\ r.window # v => n <= forgiven
    BY DEF Within
  <1>3. PICK k : k = [window |-> w, count |-> c]
    OBVIOUS
  <1>4. k.window = w /\ k.count = c
    BY <1>3
  <1>5. CASE w < latest
    <2>1. CASE c <= most /\ v = w
      BY <1>1, <1>2, <1>3, <1>4, <1>5, <2>1 DEF Within
    <2>2. CASE ~(c <= most /\ v = w)
      BY <1>1, <1>2, <1>3, <1>4, <1>5, <2>2 DEF Within
    <2>3. QED
      BY <2>1, <2>2
  <1>6. CASE ~(w < latest)
    <2>1. CASE c <= most /\ v = w
      BY <1>1, <1>2, <1>3, <1>4, <1>6, <2>1 DEF Within
    <2>2. CASE ~(c <= most /\ v = w)
      BY <1>1, <1>2, <1>3, <1>4, <1>6, <2>2 DEF Within
    <2>3. QED
      BY <2>1, <2>2
  <1>7. QED
    BY <1>5, <1>6

\* What it makes of the window of another key, swept or not.
LEMMA WithinSwept ==
    ASSUME NEW most \in Nat, NEW n \in Nat, NEW forgiven \in Nat,
           NEW r \in TriedType, NEW w \in Window, NEW v \in Window,
           NEW latest \in Window, Within(most, n, forgiven, r, v, latest)
    PROVE  Within(most, n, IF w < latest THEN forgiven + most ELSE forgiven,
                  IF r.window < w THEN Untried ELSE r, v,
                  IF w > latest THEN w ELSE latest)
  <1>1. /\ v \in Nat /\ w \in Nat /\ latest \in Nat
        /\ r.window \in Int /\ r.count \in Nat
    <2>1. r.window \in Window \cup {-1} /\ r.count \in Nat
      BY DEF TriedType
    <2>2. QED
      BY <2>1, WindowInt
  <1>2. /\ n <= forgiven + most /\ r.window <= latest
        /\ r.window = v => n <= forgiven + r.count
        /\ v >= latest /\ r.window # v => n <= forgiven
    BY DEF Within
  <1>3. CASE r.window < w
    BY <1>1, <1>2, <1>3 DEF Within, Untried
  <1>4. CASE ~(r.window < w)
    BY <1>1, <1>2, <1>4 DEF Within
  <1>5. QED
    BY <1>3, <1>4

\* A limiter's turn keeps what it has let through within the limit.
LEMMA ChecksStep ==
    ASSUME IInv, NEW q \in Req, NEW k \in Key, Checks(q, k, Most(req[q].entry, k))
    PROVE  /\ tries' \in [Limiter -> [EntryPoint -> [Key -> TriedType]]]
           /\ reached' \in [Limiter -> [EntryPoint -> [Key -> [Window -> Nat]]]]
           /\ newest' \in [Org \cup Limiter -> Window]
           /\ slips' \in [Org \cup Limiter -> Nat]
           /\ \A o \in Org : newest'[o] = newest[o] /\ slips'[o] = slips[o]
           /\ TriesSound'
  <1>1. req[q] \in Request
    BY DEF IInv, TypeOK
  <1>2. PICK l \in Limiter, e \in EntryPoint, w \in Window :
           l = req[q].limiter /\ e = req[q].entry /\ w = req[q].window
    BY <1>1 DEF Request
  <1>3. Window \subseteq Nat /\ \A v \in Window \cup {-1} : v \in Int
    BY FrontGatesAssumption DEF Window
  <1>4. /\ tries' = [tries EXCEPT ![l] = TriesAfter(l, e, k, w)]
        /\ reached' = IF Allowed(l, e, k, w, Most(e, k))
                      THEN [reached EXCEPT ![l][e][k][w] = @ + 1] ELSE reached
        /\ Sees(l, w)
    BY <1>2 DEF Checks
  <1>5. /\ newest' \in [Org \cup Limiter -> Window]
        /\ slips' \in [Org \cup Limiter -> Nat]
        /\ newest'[l] = IF w > newest[l] THEN w ELSE newest[l]
        /\ slips'[l] = IF w < newest[l] THEN slips[l] + 1 ELSE slips[l]
        /\ \A y \in Org \cup Limiter : y # l =>
              newest'[y] = newest[y] /\ slips'[y] = slips[y]
    BY <1>4, SeesType
  <1>6. \A o \in Org : newest'[o] = newest[o] /\ slips'[o] = slips[o]
    BY <1>5, FrontGatesAssumption
  <1>7. /\ tries \in [Limiter -> [EntryPoint -> [Key -> TriedType]]]
        /\ reached \in [Limiter -> [EntryPoint -> [Key -> [Window -> Nat]]]]
    BY DEF IInv, TypeOK, TriedType
  <1>8. TriesAfter(l, e, k, w) \in [EntryPoint -> [Key -> TriedType]]
    <2>1. \A f \in EntryPoint, j \in Key : TriesAfter(l, e, k, w)[f][j] \in TriedType
      BY KeyTried
    <2>2. QED
      BY <2>1 DEF TriesAfter
  <1>9. tries' \in [Limiter -> [EntryPoint -> [Key -> TriedType]]]
    BY <1>4, <1>7, <1>8
  <1>10. reached' \in [Limiter -> [EntryPoint -> [Key -> [Window -> Nat]]]]
    <2>1. [reached EXCEPT ![l][e][k][w] = @ + 1]
              \in [Limiter -> [EntryPoint -> [Key -> [Window -> Nat]]]]
      BY <1>7
    <2>2. QED
      BY <1>4, <1>7, <2>1
  <1>11. ASSUME NEW m \in Limiter, NEW f \in EntryPoint, NEW j \in Key,
                NEW v \in Window
         PROVE  Within(Most(f, j), reached'[m][f][j][v], slips'[m] * Most(f, j),
                       tries'[m][f][j], v, newest'[m])
    <2>1. Within(Most(f, j), reached[m][f][j][v], slips[m] * Most(f, j),
                 tries[m][f][j], v, newest[m])
      BY DEF IInv, TriesSound
    <2>2. CASE m # l
      <3>1. /\ reached'[m] = reached[m] /\ tries'[m] = tries[m]
            /\ newest'[m] = newest[m] /\ slips'[m] = slips[m]
        BY <1>4, <1>5, <1>7, <2>2
      <3>2. QED
        BY <2>1, <3>1
    <2>3. CASE m = l
      <3>1. /\ newest[l] \in Window /\ slips[l] \in Nat
            /\ reached[l][f][j][v] \in Nat /\ Most(f, j) \in Nat
        BY <1>7, MostNat DEF IInv, TypeOK
      <3>2. PICK most \in Nat, n \in Nat, latest \in Window :
               /\ most = Most(f, j) /\ n = reached[l][f][j][v]
               /\ latest = newest[l]
        BY <3>1
      <3>3. PICK had \in Nat : had = slips[l] * most
        BY <3>1, SlipForgives
      <3>4. slips'[l] * Most(f, j) = IF w < latest THEN had + most ELSE had
        <4>1. (slips[l] + 1) * most = had + most
          BY <3>1, <3>3, SlipForgives
        <4>2. slips'[l] = IF w < latest THEN slips[l] + 1 ELSE slips[l]
          BY <1>5, <3>2
        <4>3. QED
          BY <3>2, <3>3, <4>1, <4>2
      <3>5. newest'[l] = IF w > latest THEN w ELSE latest
        BY <1>5, <3>2
      <3>6. PICK old \in TriedType : old = tries[l][f][j]
        BY KeyTried
      <3>7. tries'[m][f][j] = TriesAfter(l, e, k, w)[f][j]
        BY <1>4, <1>7, <2>3
      <3>8. Within(most, n, had, old, v, latest)
        BY <2>1, <2>3, <3>2, <3>3, <3>6
      <3>9. CASE f = e /\ j = k
        <4>1. PICK c \in Nat : /\ c = CountAfter(l, e, k, w)
                               /\ old.window = w => c = old.count + 1
                               /\ old.window # w => c = 1
          BY <3>6, <3>9 DEF CountAfter, TriedType
        <4>2. TriesAfter(l, e, k, w)[f][j] = [window |-> w, count |-> c]
          BY <3>9, <4>1 DEF TriesAfter
        <4>3. Allowed(l, e, k, w, Most(e, k)) <=> c <= most
          BY <3>2, <3>9, <4>1 DEF Allowed
        <4>4. reached'[m][f][j][v] = IF c <= most /\ v = w THEN n + 1 ELSE n
          BY <1>4, <1>7, <2>3, <3>2, <3>9, <4>3
        <4>5. Within(most, IF c <= most /\ v = w THEN n + 1 ELSE n,
                     IF w < latest THEN had + most ELSE had,
                     [window |-> w, count |-> c], v,
                     IF w > latest THEN w ELSE latest)
          BY <3>8, <4>1, WithinChecked
        <4>6. QED
          BY <2>3, <3>2, <3>4, <3>5, <3>7, <4>2, <4>4, <4>5
      <3>10. CASE ~(f = e /\ j = k)
        <4>1. reached'[m][f][j][v] = n
          BY <1>4, <1>7, <2>3, <3>2, <3>10
        <4>2. TriesAfter(l, e, k, w)[f][j] = IF old.window < w THEN Untried ELSE old
          BY <3>6, <3>10, KeyTried
        <4>3. Within(most, n, IF w < latest THEN had + most ELSE had,
                     IF old.window < w THEN Untried ELSE old, v,
                     IF w > latest THEN w ELSE latest)
          BY <3>8, WithinSwept
        <4>4. QED
          BY <2>3, <3>2, <3>4, <3>5, <3>7, <4>1, <4>2, <4>3
      <3>11. QED
        BY <3>9, <3>10
    <2>4. QED
      BY <2>2, <2>3
  <1>12. TriesSound'
    BY <1>11 DEF TriesSound
  <1>13. QED
    BY <1>5, <1>6, <1>9, <1>10, <1>12

\* A turn of a limiter, with what becomes of the request that asked.
LEMMA LimiterMoves ==
    ASSUME IInv, NEW q \in Req, NEW k \in Key, Checks(q, k, Most(req[q].entry, k)),
           NEW x \in Request, Traced(x)', req' = [req EXCEPT ![q] = x],
           notices \subseteq notices', RestOK',
           UNCHANGED <<rate, block, passed, allowance>>
    PROVE  IInv'
  <1>1. req' \in [Req -> Request] /\ TraceSound'
    BY TraceMoves
  <1>2. /\ tries' \in [Limiter -> [EntryPoint -> [Key -> TriedType]]]
        /\ reached' \in [Limiter -> [EntryPoint -> [Key -> [Window -> Nat]]]]
        /\ newest' \in [Org \cup Limiter -> Window]
        /\ slips' \in [Org \cup Limiter -> Nat]
        /\ \A o \in Org : newest'[o] = newest[o] /\ slips'[o] = slips[o]
        /\ TriesSound'
    BY ChecksStep
  <1>3. RateSound'
    BY <1>2, RateUntouched
  <1>4. TypeOK'
    BY <1>1, <1>2 DEF IInv, TypeOK, RestOK, SourceType, TriedType
  <1>5. QED
    BY <1>1, <1>2, <1>3, <1>4 DEF IInv

LEMMA AttemptRequest ==
    ASSUME IInv, NEW q \in Req,
           req[q].phase \in {"source", "identifier", "handle", "evidence"}
    PROVE  /\ req[q] \in Request /\ req[q].kind = "attempt"
           /\ req[q].trace = "none"
           /\ req[q].phase = "evidence" => req[q].answer \in Declared(req[q].entry)
  BY DEF IInv, TypeOK, TraceSound, Traced

\* A refusal that is declared goes to be counted.
LEMMA DeniedFacts ==
    ASSUME IInv, NEW q \in Req,
           req[q].phase \in {"source", "identifier", "handle"},
           NEW answer \in Declared(req[q].entry)
    PROVE  \E x \in Request : x = Denied(q, answer, answer) /\ Traced(x)'
  <1>1. req[q] \in Request /\ req[q].kind = "attempt" /\ req[q].trace = "none"
    BY AttemptRequest
  <1>2. answer \in Refusal
    BY DEF Declared
  <1>3. Denied(q, answer, answer) =
           [req[q] EXCEPT !.phase = "evidence", !.decision = answer, !.answer = answer]
    BY DEF Denied
  <1>4. PICK x \in Request :
           x = [req[q] EXCEPT !.phase = "evidence", !.decision = answer,
                              !.answer = answer]
    BY <1>1, <1>2 DEF Request, Phase
  <1>5. /\ x.phase = "evidence" /\ x.kind = "attempt" /\ x.trace = "none"
        /\ x.answer = answer /\ x.entry = req[q].entry
    BY <1>1, <1>4 DEF Request
  <1>6. Traced(x)'
    BY <1>5 DEF Traced
  <1>7. Denied(q, answer, answer) = x
    BY <1>3, <1>4
  <1>8. QED
    BY <1>6, <1>7

\* An answer that leaves no refusal without a trace ends the request.
LEMMA EndedFacts ==
    ASSUME IInv, NEW q \in Req,
           req[q].phase \in {"source", "identifier", "handle"},
           NEW answer \in {"static", "invalid", "internal"} \cup Refusal
                              \cup OutcomeKind,
           answer \in Refusal => <<"handler_absent", req[q].entry>> \in notices'
    PROVE  \E x \in Request : x = Answered(q, answer) /\ Traced(x)'
  <1>1. req[q] \in Request /\ req[q].kind = "attempt" /\ req[q].trace = "none"
    BY AttemptRequest
  <1>2. PICK x \in Request : x = Answered(q, answer)
    BY AnsweredFacts
  <1>3. /\ x.phase = "done" /\ x.kind = "attempt" /\ x.trace = "none"
        /\ x.answer = answer /\ x.entry = req[q].entry
    BY <1>1, <1>2, AnsweredFacts
  <1>4. Traced(x)'
    BY <1>3 DEF Traced
  <1>5. QED
    BY <1>2, <1>4

\* Nothing but notices is added to what the gates do not count.
LEMMA NoticesRest ==
    ASSUME IInv, UNCHANGED <<clock, countVars, appHistory, world, evictions, faults>>,
           NEW cause \in {"handler_absent", "identifier_level_absent",
                          "evidence_recorder_absent"},
           NEW e \in EntryPoint, notices' \in {notices, Noticed(cause, e)}
    PROVE  RestOK' /\ notices \subseteq notices'
  <1>1. Noticed(cause, e) = notices \cup {<<cause, e>>}
    BY DEF Noticed
  <1>2. notices \subseteq notices' /\ notices' \subseteq notices \cup {<<cause, e>>}
    BY <1>1
  <1>3. QED
    BY <1>2 DEF IInv, TypeOK, RestOK, SourceType, countVars, appHistory, world

LEMMA CheckSourceStep == ASSUME IInv, NEW q \in Req, CheckSource(q) PROVE IInv'
  <1> DEFINE e == req[q].entry
             k == req[q].source
  <1>1. /\ req[q].phase = "source"
        /\ Checks(q, k, EntryLimit[e])
        /\ UNCHANGED <<clock, countVars, appHistory, world, evictions, faults>>
    BY DEF CheckSource
  <1>2. req[q] \in Request /\ req[q].kind = "attempt" /\ req[q].trace = "none"
    BY <1>1, AttemptRequest
  <1>3. e \in EntryPoint /\ k \in Source /\ k \in Key
    BY <1>2 DEF Request, Key
  <1>4. Checks(q, k, Most(e, k))
    BY <1>1, <1>3 DEF Most
  <1>5. /\ \E cause \in {"handler_absent", "identifier_level_absent"} :
              notices' \in {notices, Noticed(cause, e)}
        /\ \/ req' = [req EXCEPT ![q] = Denied(q, "rate_limited", "rate_limited")]
           \/ req' = [req EXCEPT ![q] = Answered(q, "static")]
           \/ req' = [req EXCEPT ![q] = Answered(q, "invalid")]
           \/ /\ req' = [req EXCEPT ![q] = Answered(q, collapseTo(e))]
              /\ notices' = Noticed("handler_absent", e)
           \/ req' = [req EXCEPT ![q].phase = "identifier"]
           \/ req' = [req EXCEPT ![q].phase = "handle"]
    BY <1>1 DEF CheckSource
  <1>6. RestOK' /\ notices \subseteq notices'
    BY <1>1, <1>3, <1>5, NoticesRest
  <1>7. UNCHANGED <<rate, block, passed, allowance>>
    BY <1>1 DEF countVars, appHistory
  <1>8. \E x \in Request : req' = [req EXCEPT ![q] = x] /\ Traced(x)'
    <2>1. CASE req' = [req EXCEPT ![q] = Denied(q, "rate_limited", "rate_limited")]
      <3>1. "rate_limited" \in Declared(req[q].entry)
        BY DEF Declared, Refusal
      <3>2. PICK x \in Request :
               x = Denied(q, "rate_limited", "rate_limited") /\ Traced(x)'
        BY <1>1, <3>1, DeniedFacts
      <3>3. QED
        BY <2>1, <3>2
    <2>2. CASE req' = [req EXCEPT ![q] = Answered(q, "static")]
      <3>1. PICK x \in Request : x = Answered(q, "static") /\ Traced(x)'
        BY <1>1, EndedFacts DEF Refusal
      <3>2. QED
        BY <2>2, <3>1
    <2>3. CASE req' = [req EXCEPT ![q] = Answered(q, "invalid")]
      <3>1. PICK x \in Request : x = Answered(q, "invalid") /\ Traced(x)'
        BY <1>1, EndedFacts DEF Refusal
      <3>2. QED
        BY <2>3, <3>1
    <2>4. CASE /\ req' = [req EXCEPT ![q] = Answered(q, collapseTo(e))]
               /\ notices' = Noticed("handler_absent", e)
      <3>1. PICK c \in OutcomeKind : c = collapseTo(e)
        BY <1>3, OutcomeFacts
      <3>2. <<"handler_absent", req[q].entry>> \in notices'
        BY <2>4 DEF Noticed
      <3>3. PICK x \in Request : x = Answered(q, c) /\ Traced(x)'
        BY <1>1, <3>2, EndedFacts
      <3>4. QED
        BY <2>4, <3>1, <3>3
    <2>5. CASE \E p \in {"identifier", "handle"} :
                  req' = [req EXCEPT ![q].phase = p]
      <3>1. PICK p \in {"identifier", "handle"} :
                  req' = [req EXCEPT ![q].phase = p]
        BY <2>5
      <3>2. PICK x \in Request : x = [req[q] EXCEPT !.phase = p]
        BY <1>2 DEF Request, Phase
      <3>3. x.phase = p /\ x.kind = "attempt" /\ x.trace = "none"
        BY <1>2, <3>1, <3>2 DEF Request
      <3>4. Traced(x)'
        BY <3>3 DEF Traced
      <3>5. req' = [req EXCEPT ![q] = x]
        BY <3>1, <3>2
      <3>6. QED
        BY <3>4, <3>5
    <2>6. QED
      BY <1>5, <2>1, <2>2, <2>3, <2>4, <2>5
  <1>9. PICK x \in Request : req' = [req EXCEPT ![q] = x] /\ Traced(x)'
    BY <1>8
  <1>10. QED
    BY <1>3, <1>4, <1>6, <1>7, <1>9, LimiterMoves

LEMMA CheckIdentifierStep ==
    ASSUME IInv, NEW q \in Req, CheckIdentifier(q) PROVE IInv'
  <1> DEFINE e == req[q].entry
  <1>1. /\ req[q].phase = "identifier"
        /\ UNCHANGED <<clock, countVars, appHistory, notices, world, evictions,
                       faults>>
    BY DEF CheckIdentifier
  <1>11. PICK k \in Bucket :
           /\ Checks(q, k, IdentifierLimit)
           /\ \/ req' = [req EXCEPT ![q] = Denied(q, "rate_limited", "rate_limited")]
              \/ req' = [req EXCEPT ![q].phase = "handle"]
    <2>1. PICK b \in Bucket :
             /\ Checks(q, b, IdentifierLimit)
             /\ req' = [req EXCEPT ![q] =
                  IF Allowed(req[q].limiter, req[q].entry, b, req[q].window,
                             IdentifierLimit)
                  THEN [req[q] EXCEPT !.phase = "handle"]
                  ELSE Denied(q, "rate_limited", "rate_limited")]
      BY DEF CheckIdentifier, IInv, TypeOK
    <2>2. req \in [Req -> Request]
      BY DEF IInv, TypeOK
    <2>3. QED
      BY <2>1, <2>2
  <1>2. req[q] \in Request /\ req[q].kind = "attempt" /\ req[q].trace = "none"
    BY <1>1, AttemptRequest
  <1>3. e \in EntryPoint /\ k \notin Source /\ k \in Key
    BY <1>2, <1>11, FrontGatesAssumption DEF Request, Key
  <1>4. Checks(q, k, Most(e, k))
    BY <1>3, <1>11 DEF Most
  <1>5. RestOK' /\ notices' = notices
    BY <1>1 DEF IInv, TypeOK, RestOK, SourceType, countVars, appHistory, world
  <1>6. UNCHANGED <<rate, block, passed, allowance>>
    BY <1>1 DEF countVars, appHistory
  <1>7. \E x \in Request : req' = [req EXCEPT ![q] = x] /\ Traced(x)'
    <2>1. CASE req' = [req EXCEPT ![q] = Denied(q, "rate_limited", "rate_limited")]
      <3>1. "rate_limited" \in Declared(req[q].entry)
        BY DEF Declared, Refusal
      <3>2. PICK x \in Request :
               x = Denied(q, "rate_limited", "rate_limited") /\ Traced(x)'
        BY <1>1, <3>1, DeniedFacts
      <3>3. QED
        BY <2>1, <3>2
    <2>2. CASE req' = [req EXCEPT ![q].phase = "handle"]
      <3>1. PICK x \in Request : x = [req[q] EXCEPT !.phase = "handle"]
        BY <1>2 DEF Request, Phase
      <3>2. x.phase = "handle" /\ x.kind = "attempt" /\ x.trace = "none"
        BY <1>2, <3>1 DEF Request
      <3>3. Traced(x)'
        BY <3>2 DEF Traced
      <3>4. QED
        BY <2>2, <3>1, <3>3
    <2>3. QED
      BY <1>11, <2>1, <2>2
  <1>8. PICK x \in Request : req' = [req EXCEPT ![q] = x] /\ Traced(x)'
    BY <1>7
  <1>9. QED
    BY <1>3, <1>4, <1>5, <1>6, <1>8, LimiterMoves

LEMMA BucketerThrowsStep ==
    ASSUME IInv, NEW q \in Req, BucketerThrows(q) PROVE IInv'
  <1>1. /\ req[q].phase = "identifier" /\ Fault
        /\ req' = [req EXCEPT ![q] = Answered(q, "internal")]
        /\ UNCHANGED <<clock, countVars, appHistory, attemptVars, world, newest,
                       slips, evictions>>
    BY DEF BucketerThrows
  <1>2. PICK x \in Request : x = Answered(q, "internal") /\ Traced(x)'
    BY <1>1, EndedFacts DEF Refusal
  <1>3. RestOK'
    BY <1>1, FaultType, RestUntouched DEF countVars, appHistory, attemptVars, world
  <1>4. QED
    BY <1>1, <1>2, <1>3, RequestMoves DEF countVars, appHistory, attemptVars

LEMMA LimiterFailsStep == ASSUME IInv, NEW q \in Req, LimiterFails(q) PROVE IInv'
  <1>1. /\ req[q].phase \in {"source", "identifier"} /\ Fault
        /\ req' = [req EXCEPT ![q] = Denied(q, "rate_limited", "rate_limited")]
        /\ UNCHANGED <<clock, countVars, appHistory, attemptVars, world, newest,
                       slips, evictions>>
    BY DEF LimiterFails
  <1>2. "rate_limited" \in Declared(req[q].entry)
    BY DEF Declared, Refusal
  <1>3. PICK x \in Request :
           x = Denied(q, "rate_limited", "rate_limited") /\ Traced(x)'
    BY <1>1, <1>2, DeniedFacts
  <1>4. RestOK'
    BY <1>1, FaultType, RestUntouched DEF countVars, appHistory, attemptVars, world
  <1>5. QED
    BY <1>1, <1>3, <1>4, RequestMoves DEF countVars, appHistory, attemptVars

LEMMA HandleStep == ASSUME IInv, NEW q \in Req, Handle(q) PROVE IInv'
  <1>1. /\ req[q].phase = "handle"
        /\ UNCHANGED <<clock, countVars, appHistory, attemptVars, world, newest,
                       slips, evictions, faults>>
    BY DEF Handle
  <1>2. PICK said \in OutcomeKind \cup {"threw"} :
           req' = [req EXCEPT ![q] =
              IF FinalOutcome(req[q].entry, said) \in Refusal
              THEN Denied(q, FinalOutcome(req[q].entry, said),
                          FinalOutcome(req[q].entry, said))
              ELSE Answered(q, FinalOutcome(req[q].entry, said))]
    BY DEF Handle
  <1>3. req[q].entry \in EntryPoint
    BY DEF IInv, TypeOK, Request
  <1>4. PICK c \in OutcomeKind : /\ c = FinalOutcome(req[q].entry, said)
                                 /\ c \in outcomes(req[q].entry)
    BY <1>3, OutcomeFacts
  <1>5. \E x \in Request : req' = [req EXCEPT ![q] = x] /\ Traced(x)'
    <2>1. CASE c \in Refusal
      <3>1. c \in Declared(req[q].entry)
        BY <1>4, <2>1 DEF Declared
      <3>2. PICK x \in Request : x = Denied(q, c, c) /\ Traced(x)'
        BY <1>1, <3>1, DeniedFacts
      <3>3. QED
        BY <1>2, <1>4, <2>1, <3>2
    <2>2. CASE c \notin Refusal
      <3>1. PICK x \in Request : x = Answered(q, c) /\ Traced(x)'
        BY <1>1, <2>2, EndedFacts
      <3>2. QED
        BY <1>2, <1>4, <2>2, <3>1
    <2>3. QED
      BY <2>1, <2>2
  <1>6. PICK x \in Request : req' = [req EXCEPT ![q] = x] /\ Traced(x)'
    BY <1>5
  <1>7. RestOK'
    BY <1>1 DEF IInv, TypeOK, RestOK, SourceType, countVars, appHistory,
                attemptVars, world
  <1>8. QED
    BY <1>1, <1>6, <1>7, RequestMoves DEF countVars, appHistory, attemptVars

\* The record of a request whose refusal was counted, or announced.
LEMMA TracedEnd ==
    ASSUME IInv, NEW q \in Req, req[q].phase = "evidence",
           NEW trace \in {"none", "counted", "announced"},
           \/ trace # "none"
           \/ <<"evidence_recorder_absent", req[q].entry>> \in notices'
    PROVE  \E x \in Request :
              /\ x = [req[q] EXCEPT !.phase = "done", !.trace = trace]
              /\ Traced(x)'
  <1>1. /\ req[q] \in Request /\ req[q].kind = "attempt"
        /\ req[q].answer \in Declared(req[q].entry)
    BY AttemptRequest
  <1>2. PICK x \in Request : x = [req[q] EXCEPT !.phase = "done", !.trace = trace]
    BY <1>1 DEF Request, Phase
  <1>3. /\ x.phase = "done" /\ x.kind = "attempt" /\ x.trace = trace
        /\ x.answer = req[q].answer /\ x.entry = req[q].entry
    BY <1>1, <1>2 DEF Request
  <1>4. Traced(x)'
    BY <1>1, <1>3 DEF Traced
  <1>5. QED
    BY <1>2, <1>4

LEMMA CountDenialStep == ASSUME IInv, NEW q \in Req, CountDenial(q) PROVE IInv'
  <1>1. /\ req[q].phase = "evidence"
        /\ req' = [req EXCEPT ![q] = [req[q] EXCEPT !.phase = "done", !.trace = "counted"]]
        /\ UNCHANGED <<clock, countVars, appHistory, attemptVars, world, newest,
                       slips, evictions, faults>>
    BY DEF CountDenial
  <1>2. PICK x \in Request :
           /\ x = [req[q] EXCEPT !.phase = "done", !.trace = "counted"]
           /\ Traced(x)'
    BY <1>1, TracedEnd
  <1>3. req' = [req EXCEPT ![q] = x]
    BY <1>1, <1>2 DEF IInv, TypeOK
  <1>4. RestOK'
    BY <1>1 DEF IInv, TypeOK, RestOK, SourceType, countVars, appHistory,
                attemptVars, world
  <1>5. QED
    BY <1>1, <1>2, <1>3, <1>4, RequestMoves DEF countVars, appHistory, attemptVars

LEMMA EvidenceUnrecordedStep ==
    ASSUME IInv, NEW q \in Req, EvidenceUnrecorded(q) PROVE IInv'
  <1>1. /\ req[q].phase = "evidence" /\ Fault
        /\ req' = [req EXCEPT ![q] = [req[q] EXCEPT !.phase = "done", !.trace = "announced"]]
        /\ UNCHANGED <<clock, countVars, appHistory, attemptVars, world, newest,
                       slips, evictions>>
    BY DEF EvidenceUnrecorded
  <1>2. PICK x \in Request :
           /\ x = [req[q] EXCEPT !.phase = "done", !.trace = "announced"]
           /\ Traced(x)'
    BY <1>1, TracedEnd
  <1>3. req' = [req EXCEPT ![q] = x]
    BY <1>1, <1>2 DEF IInv, TypeOK
  <1>4. RestOK'
    BY <1>1, FaultType, RestUntouched DEF countVars, appHistory, attemptVars, world
  <1>5. QED
    BY <1>1, <1>2, <1>3, <1>4, RequestMoves DEF countVars, appHistory, attemptVars

LEMMA EvidenceAbsentStep ==
    ASSUME IInv, NEW q \in Req, EvidenceAbsent(q) PROVE IInv'
  <1>1. /\ req[q].phase = "evidence"
        /\ req' = [req EXCEPT ![q].phase = "done"]
        /\ notices' = Noticed("evidence_recorder_absent", req[q].entry)
        /\ UNCHANGED <<clock, countVars, appHistory, tries, reached, world, newest,
                       slips, evictions, faults>>
    BY DEF EvidenceAbsent
  <1>2. /\ req[q] \in Request /\ req[q].entry \in EntryPoint
        /\ req[q].trace = "none"
    BY <1>1, AttemptRequest DEF Request
  <1>3. <<"evidence_recorder_absent", req[q].entry>> \in notices'
    BY <1>1 DEF Noticed
  <1>4. PICK x \in Request :
           /\ x = [req[q] EXCEPT !.phase = "done", !.trace = "none"]
           /\ Traced(x)'
    BY <1>1, <1>3, TracedEnd
  <1>5. x = [req[q] EXCEPT !.phase = "done"]
    BY <1>2, <1>4 DEF Request
  <1>6. req' = [req EXCEPT ![q] = x]
    BY <1>1, <1>5
  <1>7. RestOK' /\ notices \subseteq notices'
    BY <1>1, <1>2, NoticesRest
  <1>8. QED
    BY <1>1, <1>4, <1>6, <1>7, RequestMoves DEF countVars, appHistory

-----------------------------------------------------------------------------
LEMMA NextStep == ASSUME IInv, [Next]_vars PROVE IInv'
  <1>1. CASE UNCHANGED vars
    <2>1. /\ UNCHANGED <<clock, rate, block, source, shard, tries, wired, kinds>>
          /\ UNCHANGED <<notices, req, newest, slips, passed, allowance, reached,
                         rough, evictions, faults>>
      BY <1>1 DEF vars, countVars, appHistory, attemptVars, world
    <2>2. TypeOK'
      BY <2>1 DEF IInv, TypeOK
    <2>3. RateSound' /\ TriesSound'
      BY <2>1, RateUntouched, TriesUntouched
    <2>4. TraceSound'
      BY <2>1 DEF IInv, TraceSound, Traced
    <2>5. QED
      BY <2>2, <2>3, <2>4 DEF IInv
  <1>2. CASE Tick
    BY <1>2, TickStep
  <1>3. CASE \E o \in Org : Evict(o)
    BY <1>3, EvictStep
  <1>4. ASSUME NEW q \in Req,
               \/ Invoke(q) \/ Admit(q) \/ Unreached(q)
               \/ Report(q) \/ ReportFails(q) \/ Apply(q)
        PROVE  IInv'
    BY <1>4, InvokeStep, AdmitStep, UnreachedStep, ReportStep, ReportFailsStep,
       ApplyStep
  <1>5. ASSUME NEW q \in Req,
               \/ Attempt(q) \/ CheckSource(q) \/ CheckIdentifier(q)
               \/ BucketerThrows(q) \/ LimiterFails(q) \/ Handle(q)
               \/ CountDenial(q) \/ EvidenceUnrecorded(q) \/ EvidenceAbsent(q)
        PROVE  IInv'
    BY <1>5, AttemptStep, CheckSourceStep, CheckIdentifierStep,
       BucketerThrowsStep, LimiterFailsStep, HandleStep, CountDenialStep,
       EvidenceUnrecordedStep, EvidenceAbsentStep
  <1>6. QED
    BY <1>1, <1>2, <1>3, <1>4, <1>5 DEF Next

LEMMA Inductive == Spec => []IInv
  <1>1. IInv /\ [Next]_vars => IInv'
    BY NextStep
  <1>2. QED
    BY InitIInv, <1>1, PTL DEF Spec

\* Every variable keeps its type, whatever the requests and limits.
THEOREM TypesKept == Spec => []TypeOK
  <1>1. IInv => TypeOK
    BY DEF IInv
  <1>2. QED
    BY <1>1, Inductive, PTL

\* The ceilings per principal and per Organization hold in every window, but
\* for a limit more for each count an eviction forgot and for each request that
\* reached its coordinator after one of a later window.
THEOREM RateHeld == Spec => []RateBounded
  <1>1. IInv => RateBounded
    BY DEF IInv, RateSound, Covered, RateBounded
  <1>2. QED
    BY <1>1, Inductive, PTL

\* A limiter lets no more attempts through than its limits, per source and per
\* bucket of identifiers, at both steps of the login, but for a limit more for
\* each check that came after one of a later window.
THEOREM AttemptsHeld == Spec => []AttemptsBounded
  <1>1. ASSUME IInv PROVE AttemptsBounded
    <2> SUFFICES ASSUME NEW l \in Limiter, NEW e \in EntryPoint, NEW w \in Window
                 PROVE  /\ \A a \in Source :
                              reached[l][e][a][w] <= (slips[l] + 1) * EntryLimit[e]
                        /\ \A b \in Bucket :
                              reached[l][e][b][w] <= (slips[l] + 1) * IdentifierLimit
      BY DEF AttemptsBounded
    <2>1. ASSUME NEW k \in Key
          PROVE  reached[l][e][k][w] <= (slips[l] + 1) * Most(e, k)
      <3>1. slips[l] \in Nat /\ Most(e, k) \in Nat
        BY <1>1, MostNat DEF IInv, TypeOK
      <3>2. reached[l][e][k][w] <= slips[l] * Most(e, k) + Most(e, k)
        BY <1>1 DEF IInv, TriesSound, Within
      <3>3. (slips[l] + 1) * Most(e, k) = slips[l] * Most(e, k) + Most(e, k)
        BY <3>1, SlipForgives
      <3>4. QED
        BY <3>2, <3>3
    <2>2. ASSUME NEW a \in Source
          PROVE  reached[l][e][a][w] <= (slips[l] + 1) * EntryLimit[e]
      BY <2>1 DEF Key, Most
    <2>3. ASSUME NEW b \in Bucket
          PROVE  reached[l][e][b][w] <= (slips[l] + 1) * IdentifierLimit
      <3>1. b \notin Source /\ b \in Key
        BY FrontGatesAssumption DEF Key
      <3>2. QED
        BY <2>1, <3>1 DEF Most
    <2>4. QED
      BY <2>2, <2>3
  <1>2. QED
    BY <1>1, Inductive, PTL

\* No refusal before authentication goes without a trace, and what is counted
\* is a refusal that its entry point declares or the limiter made.
THEOREM RefusalsTraced == Spec => []RefusalsLeaveTrace
  <1>1. IInv => RefusalsLeaveTrace
    BY DEF IInv, TraceSound, Traced, Declared, RefusalsLeaveTrace
  <1>2. QED
    BY <1>1, Inductive, PTL

-----------------------------------------------------------------------------
(* Sums over a finite set.                                                   *)
(* SumFunctionOnSet picks one element after the other, by CHOOSE; its        *)
(* recursion is a function on the subsets.                                   *)

Pick(s) == CHOOSE x \in s : TRUE

Adds(iter, f, S) ==
    iter = [s \in SUBSET S |-> IF s = {} THEN 0 ELSE f[Pick(s)] + iter[s \ {Pick(s)}]]

\* What holds of the empty set, and of a set when it does without its pick,
\* holds of every finite set.
LEMMA ByPicks ==
    ASSUME NEW S, IsFiniteSet(S), NEW G, {} \in G,
           \A s \in SUBSET S : s # {} /\ s \ {Pick(s)} \in G => s \in G
    PROVE  SUBSET S \subseteq G
  <1>1. PICK bad : bad = (SUBSET S) \ G
    OBVIOUS
  <1>2. SUFFICES ASSUME bad # {} PROVE FALSE
    BY <1>1
  <1>3. bad \subseteq FiniteSubsetsOf(S)
    BY <1>1, FS_Subset DEF FiniteSubsetsOf
  <1>4. PICK s \in bad : \A t \in bad : <<t, s>> \notin StrictSubsetOrdering(S)
    BY <1>2, <1>3, FS_StrictSubsetOrderingWellFounded, WFMin
  <1>5. s \in SUBSET S /\ s # {}
    BY <1>1
  <1>6. PICK t : t = s \ {Pick(s)}
    OBVIOUS
  <1>7. Pick(s) \in s
    BY <1>5 DEF Pick
  <1>8. t \in SUBSET S /\ t \subseteq s /\ t # s
    BY <1>5, <1>6, <1>7
  <1>9. <<t, s>> \in StrictSubsetOrdering(S)
    BY <1>5, <1>8 DEF StrictSubsetOrdering
  <1>10. t \in G
    BY <1>1, <1>4, <1>8, <1>9
  <1>11. QED
    BY <1>1, <1>5, <1>6, <1>10

\* The recursion has a solution.
LEMMA AddsExists ==
    ASSUME NEW S, IsFiniteSet(S), NEW f
    PROVE  \E iter : Adds(iter, f, S)
  <1> DEFINE Upto(n) == {s \in SUBSET S : Cardinality(s) <= n}
             Sums(g, s) == IF s = {} THEN 0 ELSE f[Pick(s)] + g[s \ {Pick(s)}]
             Solved == {n \in Nat : \E g : g = [s \in Upto(n) |-> Sums(g, s)]}
  <1>1. \A s \in SUBSET S : /\ IsFiniteSet(s) /\ Cardinality(s) \in Nat
                            /\ s # {} => /\ Pick(s) \in s
                                         /\ s \ {Pick(s)} \in SUBSET S
                                         /\ Cardinality(s \ {Pick(s)}) = Cardinality(s) - 1
    <2>1. ASSUME NEW s \in SUBSET S PROVE IsFiniteSet(s) /\ Cardinality(s) \in Nat
      BY FS_Subset, FS_CardinalityType
    <2>2. ASSUME NEW s \in SUBSET S, s # {}
          PROVE  /\ Pick(s) \in s /\ s \ {Pick(s)} \in SUBSET S
                 /\ Cardinality(s \ {Pick(s)}) = Cardinality(s) - 1
      <3>1. Pick(s) \in s
        BY <2>2 DEF Pick
      <3>2. QED
        BY <2>1, <3>1, FS_RemoveElement
    <2>3. QED
      BY <2>1, <2>2
  <1>2. 0 \in Solved
    <2>1. PICK g : g = [s \in Upto(0) |-> 0]
      OBVIOUS
    <2>2. ASSUME NEW s \in Upto(0) PROVE s = {}
      <3>1. Cardinality(s) <= 0 /\ Cardinality(s) \in Nat /\ IsFiniteSet(s)
        BY <1>1, <2>2
      <3>2. QED
        BY <1>1, <3>1, FS_EmptySet
    <2>3. g = [s \in Upto(0) |-> Sums(g, s)]
      BY <2>1, <2>2
    <2>4. QED
      BY <2>3
  <1>3. ASSUME NEW n \in Solved PROVE n + 1 \in Solved
    <2>1. PICK g : g = [s \in Upto(n) |-> Sums(g, s)]
      OBVIOUS
    <2>2. PICK h : h = [s \in Upto(n + 1) |-> Sums(g, s)]
      OBVIOUS
    <2>3. ASSUME NEW s \in Upto(n) PROVE s \in Upto(n + 1) /\ h[s] = g[s]
      <3>1. n \in Nat /\ Cardinality(s) \in Nat
        BY <1>1
      <3>2. s \in Upto(n + 1)
        BY <3>1
      <3>3. h[s] = Sums(g, s) /\ g[s] = Sums(g, s)
        <4> HIDE DEF Upto, Sums
        <4>1. QED
          BY <2>1, <2>2, <2>3, <3>2
      <3>4. QED
        BY <3>2, <3>3
    <2>4. ASSUME NEW s \in Upto(n + 1) PROVE Sums(g, s) = Sums(h, s)
      <3>1. CASE s = {}
        BY <3>1
      <3>2. CASE s # {}
        <4>1. s \ {Pick(s)} \in Upto(n)
          BY <1>1, <3>2
        <4>2. h[s \ {Pick(s)}] = g[s \ {Pick(s)}]
          BY <2>3, <4>1
        <4>3. QED
          BY <3>2, <4>2
      <3>3. QED
        BY <3>1, <3>2
    <2>5. h = [s \in Upto(n + 1) |-> Sums(h, s)]
      <3> HIDE DEF Upto, Sums
      <3>1. QED
        BY <2>2, <2>4
    <2>6. n + 1 \in Nat
      OBVIOUS
    <2>7. QED
      <3> HIDE DEF Upto, Sums
      <3>1. QED
        BY <2>5, <2>6
  <1>4. Solved = Nat
    <2>1. SUFFICES ASSUME Nat \ Solved # {} PROVE FALSE
      OBVIOUS
    <2>2. PICK bad : bad = Nat \ Solved
      OBVIOUS
    <2>3. PICK n \in bad : \A k \in bad : <<k, n>> \notin OpToRel(<, Nat)
      <3> HIDE DEF Solved
      <3>1. bad \subseteq Nat /\ bad # {}
        BY <2>1, <2>2
      <3>2. QED
        BY <3>1, NatLessThanWellFounded, WFMin
    <2>4. n \in Nat /\ n # 0 /\ n - 1 \in Nat
      <3> HIDE DEF Solved
      <3>1. n \in Nat /\ n # 0
        BY <1>2, <2>2, <2>3
      <3>2. QED
        BY <3>1
    <2>5. n - 1 \notin bad
      <3> HIDE DEF Solved
      <3>1. <<n - 1, n>> \in OpToRel(<, Nat)
        BY <2>4 DEF OpToRel
      <3>2. QED
        BY <2>3, <3>1
    <2>6. QED
      <3>1. n - 1 \in Solved
        BY <2>2, <2>4, <2>5
      <3>2. (n - 1) + 1 = n
        BY <2>4
      <3>3. (n - 1) + 1 \in Solved
        BY <1>3, <3>1
      <3> HIDE DEF Solved
      <3>4. n \in Solved
        BY <3>2, <3>3
      <3>5. QED
        BY <2>2, <3>4
  <1>5. Cardinality(S) \in Solved
    BY <1>1, <1>4
  <1>6. PICK g : g = [s \in Upto(Cardinality(S)) |-> Sums(g, s)]
    BY <1>5
  <1>7. Upto(Cardinality(S)) = SUBSET S
    BY FS_Subset
  <1>8. Adds(g, f, S)
    BY <1>6, <1>7 DEF Adds
  <1>9. QED
    BY <1>8

\* The sum is a solution of it.
LEMMA SumRule ==
    ASSUME NEW S, IsFiniteSet(S), NEW f
    PROVE  \E iter : Adds(iter, f, S) /\ SumFunctionOnSet(f, S) = iter[S]
  <1>1. SumFunctionOnSet(f, S) = (CHOOSE iter : Adds(iter, f, S))[S]
    BY DEF SumFunctionOnSet, FoldFunctionOnSet, MapThenFoldSet, Adds, Pick
  <1>2. QED
    BY <1>1, AddsExists

\* A sum of numbers is one.
LEMMA SumType ==
    ASSUME NEW S, IsFiniteSet(S), NEW f, \A x \in S : f[x] \in Nat
    PROVE  SumFunctionOnSet(f, S) \in Nat
  <1>1. PICK iter : Adds(iter, f, S) /\ SumFunctionOnSet(f, S) = iter[S]
    BY SumRule
  <1>2. PICK G : G = {s \in SUBSET S : iter[s] \in Nat}
    OBVIOUS
  <1>3. {} \in G
    BY <1>1, <1>2 DEF Adds
  <1>4. ASSUME NEW s \in SUBSET S, s # {}, s \ {Pick(s)} \in G PROVE s \in G
    <2>1. iter[s] = f[Pick(s)] + iter[s \ {Pick(s)}] /\ Pick(s) \in s
      BY <1>1, <1>4 DEF Adds, Pick
    <2>2. QED
      BY <1>2, <1>4, <2>1
  <1>5. S \in G
    BY <1>3, <1>4, ByPicks
  <1>6. QED
    BY <1>1, <1>2, <1>5

\* If g exceeds f at most by k, and that at y alone, so does its sum.
LEMMA SumGrows ==
    ASSUME NEW S, IsFiniteSet(S), NEW f, NEW g, NEW y, NEW k \in Int,
           \A x \in S : f[x] \in Int /\ g[x] \in Int,
           \A x \in S : g[x] <= f[x] + (IF x = y THEN k ELSE 0)
    PROVE  /\ SumFunctionOnSet(f, S) \in Int /\ SumFunctionOnSet(g, S) \in Int
           /\ SumFunctionOnSet(g, S) <= SumFunctionOnSet(f, S) + (IF y \in S THEN k ELSE 0)
  <1>1. PICK i : Adds(i, f, S) /\ SumFunctionOnSet(f, S) = i[S]
    BY SumRule
  <1>2. PICK j : Adds(j, g, S) /\ SumFunctionOnSet(g, S) = j[S]
    BY SumRule
  <1>3. PICK G : G = {s \in SUBSET S : /\ i[s] \in Int /\ j[s] \in Int
                                       /\ j[s] <= i[s] + (IF y \in s THEN k ELSE 0)}
    OBVIOUS
  <1>4. {} \in G
    BY <1>1, <1>2, <1>3 DEF Adds
  <1>5. ASSUME NEW s \in SUBSET S, s # {}, s \ {Pick(s)} \in G PROVE s \in G
    <2>1. PICK x \in s : x = Pick(s)
      BY <1>5 DEF Pick
    <2>2. PICK t : t = s \ {x}
      OBVIOUS
    <2>3. i[s] = f[x] + i[t] /\ j[s] = g[x] + j[t]
      BY <1>1, <1>2, <1>5, <2>1, <2>2 DEF Adds
    <2>4. i[t] \in Int /\ j[t] \in Int /\ j[t] <= i[t] + (IF y \in t THEN k ELSE 0)
      BY <1>3, <1>5, <2>1, <2>2
    <2>5. f[x] \in Int /\ g[x] \in Int /\ g[x] <= f[x] + (IF x = y THEN k ELSE 0)
      OBVIOUS
    <2>6. y \in s <=> y \in t \/ y = x
      BY <2>2
    <2>7. x \notin t
      BY <2>2
    <2>8. i[s] \in Int /\ j[s] \in Int
      BY <2>3, <2>4, <2>5
    <2>9. j[s] <= i[s] + (IF y \in s THEN k ELSE 0)
      BY <2>3, <2>4, <2>5, <2>6, <2>7
    <2>10. QED
      BY <1>3, <2>8, <2>9
  <1>6. S \in G
    BY <1>4, <1>5, ByPicks
  <1>7. QED
    BY <1>1, <1>2, <1>3, <1>6

\* Nothing adds up to nothing.
LEMMA SumOfNothing ==
    ASSUME NEW S, IsFiniteSet(S), NEW f, \A x \in S : f[x] = 0
    PROVE  SumFunctionOnSet(f, S) = 0
  <1>1. PICK iter : Adds(iter, f, S) /\ SumFunctionOnSet(f, S) = iter[S]
    BY SumRule
  <1>2. PICK G : G = {s \in SUBSET S : iter[s] = 0}
    OBVIOUS
  <1>3. {} \in G
    BY <1>1, <1>2 DEF Adds
  <1>4. ASSUME NEW s \in SUBSET S, s # {}, s \ {Pick(s)} \in G PROVE s \in G
    <2>1. iter[s] = f[Pick(s)] + iter[s \ {Pick(s)}] /\ Pick(s) \in s
      BY <1>1, <1>4 DEF Adds, Pick
    <2>2. QED
      BY <1>2, <1>4, <2>1
  <1>5. S \in G
    BY <1>3, <1>4, ByPicks
  <1>6. QED
    BY <1>1, <1>2, <1>5

\* What is at most two terms each adds up to at most their two sums.
LEMMA SumAdds ==
    ASSUME NEW S, IsFiniteSet(S), NEW f, NEW g, NEW h,
           \A x \in S : f[x] \in Int /\ g[x] \in Int /\ h[x] \in Int,
           \A x \in S : f[x] <= g[x] + h[x]
    PROVE  /\ SumFunctionOnSet(f, S) \in Int /\ SumFunctionOnSet(g, S) \in Int
           /\ SumFunctionOnSet(h, S) \in Int
           /\ SumFunctionOnSet(f, S) <= SumFunctionOnSet(g, S) + SumFunctionOnSet(h, S)
  <1>1. PICK i : Adds(i, f, S) /\ SumFunctionOnSet(f, S) = i[S]
    BY SumRule
  <1>2. PICK j : Adds(j, g, S) /\ SumFunctionOnSet(g, S) = j[S]
    BY SumRule
  <1>3. PICK k : Adds(k, h, S) /\ SumFunctionOnSet(h, S) = k[S]
    BY SumRule
  <1>4. PICK G : G = {s \in SUBSET S : /\ i[s] \in Int /\ j[s] \in Int /\ k[s] \in Int
                                       /\ i[s] <= j[s] + k[s]}
    OBVIOUS
  <1>5. {} \in G
    BY <1>1, <1>2, <1>3, <1>4 DEF Adds
  <1>6. ASSUME NEW s \in SUBSET S, s # {}, s \ {Pick(s)} \in G PROVE s \in G
    <2>1. PICK x \in s : x = Pick(s)
      BY <1>6 DEF Pick
    <2>2. PICK t : t = s \ {x}
      OBVIOUS
    <2>3. i[s] = f[x] + i[t] /\ j[s] = g[x] + j[t] /\ k[s] = h[x] + k[t]
      BY <1>1, <1>2, <1>3, <1>6, <2>1, <2>2 DEF Adds
    <2>4. i[t] \in Int /\ j[t] \in Int /\ k[t] \in Int /\ i[t] <= j[t] + k[t]
      BY <1>4, <1>6, <2>1, <2>2
    <2>5. f[x] \in Int /\ g[x] \in Int /\ h[x] \in Int /\ f[x] <= g[x] + h[x]
      OBVIOUS
    <2>6. i[s] \in Int /\ j[s] \in Int /\ k[s] \in Int /\ i[s] <= j[s] + k[s]
      BY <2>3, <2>4, <2>5
    <2>7. QED
      BY <1>4, <2>6
  <1>7. S \in G
    BY <1>5, <1>6, ByPicks
  <1>8. QED
    BY <1>1, <1>2, <1>3, <1>4, <1>7

-----------------------------------------------------------------------------
(* The ceiling of a source, which many coordinators count.                   *)
(* No coordinator knows the total, and the shard knows only what was         *)
(* reported, so the ceiling is not inductive.  What carries it is the part   *)
(* of a coordinator's count that the shard has cleared: each coordinator     *)
(* has admitted no more than that and what it need not have reported, and    *)
(* all the cleared parts together are within the limit.                      *)

\* A request that is counted in Admitted.
Counts(x, o, a, w) == /\ x.kind = "app"
                      /\ x.source = a /\ x.org = o
                      /\ x.window = w
                      /\ x.answer = "admitted"

\* A report of a source on its way, and one the shard has not cleared.
Reports(x, o, a) == /\ x.phase \in {"report", "apply"}
                    /\ x.org = o /\ x.source = a

Uncleared(x, o, a) == /\ Reports(x, o, a)
                      /\ x.phase = "report" \/ x.total > SourceLimit

OnWay(r, o, a) ==
    IF \E q \in Req : Uncleared(r[q], o, a)
    THEN r[CHOOSE q \in Req : Uncleared(r[q], o, a)].delta ELSE 0

\* Of n admitted requests, those that must have been reported.
Told(n) == n - Unreported(n)

\* What the shard has cleared of a coordinator's count c, of which n requests
\* were admitted and d are on the way: once the coordinator blocks the source,
\* or counts another window, what it let through is settled.
ClearedOf(c, n, d, w) ==
    IF c.window # w \/ c.blocked THEN Told(n) ELSE c.reportedCount - d

Cleared(o, a, w) ==
    ClearedOf(source[o][a], Admitted(o, a, w), OnWay(req, o, a), w)

AllCleared(a, w) == SumFunctionOnSet([o \in Org |-> Cleared(o, a, w)], Org)

\* The one report of a source that is on its way from a coordinator.
Reporting(x, c, n) ==
    /\ x.window = c.window /\ c.window \in Window
    /\ c.reportedCount = c.localCount
    /\ x.delta \in 1 .. ReportInterval /\ x.delta <= c.reportedCount
    /\ x.delta = c.reportedCount => c.localCount = 1
    /\ n <= c.localCount - 1

OneReports(o, a) ==
    \A q \in Req : Reports(req[q], o, a) =>
        /\ \A p \in Req : Reports(req[p], o, a) => p = q
        /\ Reporting(req[q], source[o][a], Admitted(o, a, source[o][a].window))

Counting(o, a) ==
    /\ source[o][a].window <= newest[o]
    /\ \A w \in Window : w > source[o][a].window => Admitted(o, a, w) = 0
    /\ \/ source[o][a] = UnseenSource
       \/ /\ source[o][a].window \in Window
          /\ Admitted(o, a, source[o][a].window) <= source[o][a].localCount
          /\ source[o][a].reportedCount \in 1 .. source[o][a].localCount
          /\ source[o][a].localCount - source[o][a].reportedCount < ReportInterval

\* The shard's total covers what it cleared, unless it has dropped the window.
Shared(a) ==
    \A w \in Window :
        /\ shard[a][w] >= 0
        /\ AllCleared(a, w) <= SourceLimit
        /\ \/ AllCleared(a, w) <= shard[a][w]
           \/ \E v \in Window : v > w + Keep /\ shard[a][v] > 0

Agreed(a) == /\ Shared(a)
             /\ \A o \in Org : OneReports(o, a) /\ Counting(o, a)

Prompt == \A a \in Source \ rough : Agreed(a)

LEMMA ToldFacts ==
    ASSUME NEW n \in Nat
    PROVE  /\ Unreported(n) \in Nat /\ Told(n) \in Nat
           /\ \A m \in Nat : m <= n => Told(m) <= Told(n)
           /\ \A k \in Nat : n <= k + ReportInterval - 1 /\ (k = 0 => n = 0)
                 => Told(n) <= k
  <1>1. ReportInterval \in Nat \ {0}
    BY FrontGatesAssumption
  <1>2. QED
    BY <1>1 DEF Told, Unreported

LEMMA ToldNone == Told(0) = 0
  BY DEF Told, Unreported

LEMMA AdmittedNat ==
    ASSUME NEW o, NEW a, NEW w
    PROVE  Admitted(o, a, w) \in Nat /\ Admitted(o, a, w)' \in Nat
  <1>1. IsFiniteSet(Req)
    BY FrontGatesAssumption
  <1>2. ASSUME NEW S, S \subseteq Req PROVE Cardinality(S) \in Nat
    BY <1>1, <1>2, FS_Subset, FS_CardinalityType
  <1>3. Admitted(o, a, w) \in Nat
    BY <1>2 DEF Admitted
  <1>4. Admitted(o, a, w)' \in Nat
    BY <1>2 DEF Admitted
  <1>5. QED
    BY <1>3, <1>4

\* A coordinator has admitted no more requests if none became one, and at most
\* one more if a single request changed.
LEMMA AdmittedMoves ==
    ASSUME NEW o, NEW a, NEW w
    PROVE  /\ (\A p \in Req : Counts(req'[p], o, a, w) => Counts(req[p], o, a, w))
                 => Admitted(o, a, w)' <= Admitted(o, a, w)
           /\ \A q \in Req : (\A p \in Req : p # q => req'[p] = req[p])
                 => Admitted(o, a, w)' <= Admitted(o, a, w) + 1
  <1>1. IsFiniteSet(Req)
    BY FrontGatesAssumption
  <1>2. PICK S : S = {p \in Req : Counts(req[p], o, a, w)}
    OBVIOUS
  <1>3. PICK T : T = {p \in Req : Counts(req'[p], o, a, w)}
    OBVIOUS
  <1>4. Admitted(o, a, w) = Cardinality(S)
    BY <1>2 DEF Admitted, Counts
  <1>5. Admitted(o, a, w)' = Cardinality(T)
    BY <1>3 DEF Admitted, Counts
  <1>6. IsFiniteSet(S) /\ IsFiniteSet(T)
    BY <1>1, <1>2, <1>3, FS_Subset
  <1>7. ASSUME \A p \in Req : Counts(req'[p], o, a, w) => Counts(req[p], o, a, w)
        PROVE  Cardinality(T) <= Cardinality(S)
    <2>1. T \subseteq S
      BY <1>2, <1>3, <1>7
    <2>2. QED
      BY <1>6, <2>1, FS_Subset
  <1>8. ASSUME NEW q \in Req, \A p \in Req : p # q => req'[p] = req[p]
        PROVE  Cardinality(T) <= Cardinality(S) + 1
    <2>1. PICK U : U = S \cup {q}
      OBVIOUS
    <2>2. T \subseteq U
      BY <1>2, <1>3, <1>8, <2>1
    <2>3. /\ IsFiniteSet(U) /\ Cardinality(S) \in Nat
          /\ Cardinality(U) = Cardinality(S) \/ Cardinality(U) = Cardinality(S) + 1
      BY <1>6, <2>1, FS_AddElement, FS_CardinalityType
    <2>4. Cardinality(T) <= Cardinality(U) /\ Cardinality(T) \in Nat
      BY <1>6, <2>2, <2>3, FS_Subset, FS_CardinalityType
    <2>5. QED
      BY <2>3, <2>4
  <1>9. QED
    BY <1>4, <1>5, <1>7, <1>8

LEMMA OnWayOne ==
    ASSUME NEW r, NEW o, NEW a, NEW q \in Req, Uncleared(r[q], o, a),
           \A p \in Req : Reports(r[p], o, a) => p = q
    PROVE  OnWay(r, o, a) = r[q].delta
  <1>1. \A p \in Req : Uncleared(r[p], o, a) => p = q
    BY DEF Uncleared
  <1>2. (CHOOSE p \in Req : Uncleared(r[p], o, a)) = q
    BY <1>1
  <1>3. QED
    BY <1>2 DEF OnWay

LEMMA OnWayNone ==
    ASSUME NEW r, NEW o, NEW a, \A q \in Req : ~Uncleared(r[q], o, a)
    PROVE  OnWay(r, o, a) = 0
  BY DEF OnWay

LEMMA OnWayInt ==
    ASSUME NEW r \in [Req -> Request], NEW o, NEW a
    PROVE  OnWay(r, o, a) \in Int
  <1>1. CASE \E q \in Req : Uncleared(r[q], o, a)
    <2>1. PICK p \in Req : p = CHOOSE q \in Req : Uncleared(r[q], o, a)
      BY <1>1
    <2>2. r[p].delta \in Int
      BY DEF Request
    <2>3. QED
      BY <1>1, <2>1, <2>2 DEF OnWay
  <1>2. CASE ~ \E q \in Req : Uncleared(r[q], o, a)
    BY <1>2 DEF OnWay
  <1>3. QED
    BY <1>1, <1>2

LEMMA SourceFacts ==
    ASSUME TypeOK, NEW o \in Org, NEW a \in Source
    PROVE  /\ source[o][a] \in SourceType
           /\ \A q \in Req : req[q] \in Request
  BY DEF TypeOK, SourceType

LEMMA ClearedOfInt ==
    ASSUME NEW c \in SourceType, NEW n \in Nat, NEW d \in Int, NEW w
    PROVE  ClearedOf(c, n, d, w) \in Int
  <1>1. Told(n) \in Int /\ c.reportedCount \in Nat
    BY ToldFacts DEF SourceType
  <1>2. QED
    BY <1>1 DEF ClearedOf

LEMMA ClearedNow ==
    ASSUME TypeOK, NEW o \in Org, NEW a \in Source, NEW w
    PROVE  Cleared(o, a, w) \in Int
  <1>1. source[o][a] \in SourceType
    BY SourceFacts
  <1>2. OnWay(req, o, a) \in Int
    BY OnWayInt DEF TypeOK
  <1>3. QED
    BY <1>1, <1>2, AdmittedNat, ClearedOfInt DEF Cleared

LEMMA ClearedInt ==
    ASSUME TypeOK, TypeOK', NEW o \in Org, NEW a \in Source, NEW w
    PROVE  Cleared(o, a, w) \in Int /\ Cleared(o, a, w)' \in Int
  <1>1. source'[o][a] \in SourceType
    BY DEF TypeOK, SourceType
  <1>2. OnWay(req', o, a) \in Int
    BY OnWayInt DEF TypeOK
  <1>3. Cleared(o, a, w)' \in Int
    BY <1>1, <1>2, AdmittedNat, ClearedOfInt DEF Cleared
  <1>4. QED
    BY <1>3, ClearedNow

\* The shard has cleared all that a coordinator must have told it.
LEMMA Covers ==
    ASSUME TypeOK, NEW o \in Org, NEW a \in Source, OneReports(o, a), Counting(o, a),
           NEW w \in Window
    PROVE  Told(Admitted(o, a, w)) <= Cleared(o, a, w)
  <1>1. PICK c \in SourceType : c = source[o][a]
    BY SourceFacts
  <1>2. PICK n \in Nat : n = Admitted(o, a, w)
    BY AdmittedNat
  <1>3. PICK d : d = OnWay(req, o, a)
    OBVIOUS
  <1>4. Cleared(o, a, w) = ClearedOf(c, n, d, w)
    BY <1>1, <1>2, <1>3 DEF Cleared
  <1>5. Told(n) \in Nat
    BY ToldFacts
  <1>6. CASE c.window # w \/ c.blocked
    <2>1. Cleared(o, a, w) = Told(n)
      BY <1>4, <1>6 DEF ClearedOf
    <2>2. QED
      BY <1>2, <1>5, <2>1
  <1>7. CASE c.window = w /\ ~c.blocked
    <2>1. Cleared(o, a, w) = c.reportedCount - d
      BY <1>4, <1>7 DEF ClearedOf
    <2>2. c.reportedCount \in Nat /\ c.localCount \in Nat /\ ReportInterval \in Nat \ {0}
      BY FrontGatesAssumption DEF SourceType
    <2>3. c # UnseenSource
      BY <1>7 DEF UnseenSource, Window
    <2>4. /\ n <= c.localCount /\ c.reportedCount \in 1 .. c.localCount
          /\ c.localCount - c.reportedCount < ReportInterval
      BY <1>1, <1>2, <1>7, <2>3 DEF Counting
    <2>5. CASE \A q \in Req : ~Uncleared(req[q], o, a)
      <3>1. d = 0
        BY <1>3, <2>5, OnWayNone
      <3>2. n <= c.reportedCount + ReportInterval - 1 /\ c.reportedCount # 0
        BY <2>2, <2>4
      <3>3. Told(n) <= c.reportedCount
        BY <2>2, <3>2, ToldFacts
      <3>4. QED
        BY <1>2, <2>1, <2>2, <3>1, <3>3
    <2>6. ASSUME NEW q \in Req, Uncleared(req[q], o, a)
          PROVE  Told(Admitted(o, a, w)) <= Cleared(o, a, w)
      <3>1. Reports(req[q], o, a)
        BY <2>6 DEF Uncleared
      <3>2. \A p \in Req : Reports(req[p], o, a) => p = q
        BY <3>1 DEF OneReports
      <3>3. d = req[q].delta
        BY <1>3, <2>6, <3>2, OnWayOne
      <3>4. Reporting(req[q], c, n)
        BY <1>1, <1>2, <1>7, <3>1 DEF OneReports
      <3>5. PICK x \in Int : x = req[q].delta
        BY SourceFacts DEF Request
      <3>6. /\ x \in 1 .. ReportInterval /\ x <= c.reportedCount
            /\ x = c.reportedCount => c.localCount = 1
            /\ n <= c.localCount - 1 /\ c.reportedCount = c.localCount
        BY <3>4, <3>5 DEF Reporting
      <3>7. PICK k \in Nat : k = c.reportedCount - x
        BY <2>2, <3>6
      <3>8. n <= k + ReportInterval - 1 /\ (k = 0 => n = 0)
        BY <2>2, <3>6, <3>7
      <3>9. Told(n) <= k
        BY <3>8, ToldFacts
      <3>10. QED
        BY <1>2, <2>1, <3>3, <3>5, <3>7, <3>9
    <2>7. QED
      BY <2>5, <2>6
  <1>8. QED
    BY <1>6, <1>7

LEMMA AllClearedGrows ==
    ASSUME TypeOK, TypeOK', NEW a \in Source, NEW w, NEW p \in Org, NEW k \in Int,
           \A o \in Org : Cleared(o, a, w)' <= Cleared(o, a, w)
                                               + (IF o = p THEN k ELSE 0)
    PROVE  /\ AllCleared(a, w) \in Int /\ AllCleared(a, w)' \in Int
           /\ AllCleared(a, w)' <= AllCleared(a, w) + k
  <1>1. PICK f : f = [o \in Org |-> Cleared(o, a, w)]
    OBVIOUS
  <1>2. PICK g : g = [o \in Org |-> Cleared(o, a, w)']
    OBVIOUS
  <1>3. AllCleared(a, w) = SumFunctionOnSet(f, Org)
    BY <1>1 DEF AllCleared
  <1>4. AllCleared(a, w)' = SumFunctionOnSet(g, Org)
    BY <1>2 DEF AllCleared
  <1>5. \A o \in Org : f[o] \in Int /\ g[o] \in Int
    BY <1>1, <1>2, ClearedInt
  <1>6. \A o \in Org : g[o] <= f[o] + (IF o = p THEN k ELSE 0)
    BY <1>1, <1>2
  <1>7. IsFiniteSet(Org)
    BY FrontGatesAssumption
  <1>8. /\ SumFunctionOnSet(f, Org) \in Int /\ SumFunctionOnSet(g, Org) \in Int
        /\ SumFunctionOnSet(g, Org)
              <= SumFunctionOnSet(f, Org) + (IF p \in Org THEN k ELSE 0)
    BY <1>5, <1>6, <1>7, SumGrows
  <1>9. QED
    BY <1>3, <1>4, <1>8

\* A step that clears no more of a source, and does not touch its shard.
LEMMA SharedKept ==
    ASSUME TypeOK, TypeOK', NEW a \in Source, Shared(a), shard'[a] = shard[a],
           \A o \in Org, w \in Window : Cleared(o, a, w)' <= Cleared(o, a, w)
    PROVE  Shared(a)'
  <1> SUFFICES ASSUME NEW w \in Window
               PROVE  /\ shard'[a][w] >= 0
                      /\ AllCleared(a, w)' <= SourceLimit
                      /\ \/ AllCleared(a, w)' <= shard'[a][w]
                         \/ \E v \in Window : v > w + Keep /\ shard'[a][v] > 0
    BY DEF Shared
  <1>1. PICK p \in Org : TRUE
    BY FrontGatesAssumption
  <1>2. \A o \in Org : Cleared(o, a, w)' <= Cleared(o, a, w)
                                            + (IF o = p THEN 0 ELSE 0)
    BY ClearedInt
  <1>3. /\ AllCleared(a, w) \in Int /\ AllCleared(a, w)' \in Int
        /\ AllCleared(a, w)' <= AllCleared(a, w)
    <2>1. /\ AllCleared(a, w) \in Int /\ AllCleared(a, w)' \in Int
          /\ AllCleared(a, w)' <= AllCleared(a, w) + 0
      BY <1>2, AllClearedGrows
    <2>2. QED
      BY <2>1
  <1>4. shard[a][w] \in Int /\ SourceLimit \in Nat
    BY FrontGatesAssumption DEF TypeOK
  <1>5. /\ shard[a][w] >= 0
        /\ AllCleared(a, w) <= SourceLimit
        /\ \/ AllCleared(a, w) <= shard[a][w]
           \/ \E v \in Window : v > w + Keep /\ shard[a][v] > 0
    BY DEF Shared
  <1>6. QED
    BY <1>3, <1>4, <1>5

\* A step that leaves a coordinator's count of a source alone, and the reports
\* it has on their way.
Stays(o, a) ==
    /\ source'[o][a] = source[o][a]
    /\ newest'[o] >= newest[o]
    /\ \A p \in Req :
          /\ Reports(req'[p], o, a) <=> Reports(req[p], o, a)
          /\ Reports(req[p], o, a) => req'[p] = req[p]
          /\ \A w : Counts(req'[p], o, a, w) => Counts(req[p], o, a, w)

LEMMA StaysSame ==
    ASSUME TypeOK, TypeOK', NEW o \in Org, NEW a \in Source, Stays(o, a),
           OneReports(o, a), Counting(o, a)
    PROVE  /\ OneReports(o, a)' /\ Counting(o, a)'
           /\ \A w \in Window : Cleared(o, a, w)' <= Cleared(o, a, w)
  <1>1. PICK c \in SourceType : c = source[o][a]
    BY SourceFacts
  <1>2. source'[o][a] = c
    BY <1>1 DEF Stays
  <1>3. \A w : /\ Admitted(o, a, w)' <= Admitted(o, a, w)
               /\ Admitted(o, a, w) \in Nat /\ Admitted(o, a, w)' \in Nat
    BY AdmittedMoves, AdmittedNat DEF Stays
  <1>4. \A p \in Req : /\ Reports(req'[p], o, a) <=> Reports(req[p], o, a)
                       /\ Reports(req[p], o, a) => req'[p] = req[p]
    BY DEF Stays
  <1>5. OnWay(req', o, a) = OnWay(req, o, a)
    <2>1. CASE \A q \in Req : ~Uncleared(req[q], o, a)
      <3>1. \A q \in Req : ~Uncleared(req'[q], o, a)
        BY <1>4, <2>1 DEF Uncleared
      <3>2. OnWay(req, o, a) = 0 /\ OnWay(req', o, a) = 0
        BY <2>1, <3>1, OnWayNone
      <3>3. QED
        BY <3>2
    <2>2. ASSUME NEW q \in Req, Uncleared(req[q], o, a)
          PROVE  OnWay(req', o, a) = OnWay(req, o, a)
      <3>1. Reports(req[q], o, a) /\ req'[q] = req[q] /\ Uncleared(req'[q], o, a)
        BY <1>4, <2>2 DEF Uncleared
      <3>2. \A p \in Req : Reports(req[p], o, a) => p = q
        BY <3>1 DEF OneReports
      <3>3. \A p \in Req : Reports(req'[p], o, a) => p = q
        BY <1>4, <3>2
      <3>4. OnWay(req, o, a) = req[q].delta
        BY <2>2, <3>2, OnWayOne
      <3>5. OnWay(req', o, a) = req'[q].delta
        BY <3>1, <3>3, OnWayOne
      <3>6. QED
        BY <3>1, <3>4, <3>5
    <2>3. QED
      BY <2>1, <2>2
  <1>6. OneReports(o, a)'
    <2> SUFFICES ASSUME NEW q \in Req, Reports(req'[q], o, a)
                 PROVE  /\ \A p \in Req : Reports(req'[p], o, a) => p = q
                        /\ Reporting(req'[q], source'[o][a],
                                     Admitted(o, a, source[o][a].window)')
      BY DEF OneReports
    <2>1. Reports(req[q], o, a) /\ req'[q] = req[q]
      BY <1>4
    <2>2. \A p \in Req : Reports(req'[p], o, a) => p = q
      BY <1>4, <2>1 DEF OneReports
    <2>3. Reporting(req[q], c, Admitted(o, a, c.window))
      BY <1>1, <2>1 DEF OneReports
    <2>4. PICK m \in Nat : m = Admitted(o, a, c.window)'
      BY AdmittedNat
    <2>5. m <= Admitted(o, a, c.window) /\ Admitted(o, a, c.window) \in Nat
      BY <1>3, <2>4
    <2>6. c.localCount \in Nat
      BY DEF SourceType
    <2>7. Reporting(req[q], c, m)
      BY <2>3, <2>5, <2>6 DEF Reporting
    <2>8. Admitted(o, a, source[o][a].window)' = m
      BY <1>2, <2>4 DEF Admitted
    <2>9. QED
      BY <1>2, <2>1, <2>2, <2>7, <2>8
  <1>7. Counting(o, a)'
    <2>1. PICK m \in Nat : m = Admitted(o, a, c.window)'
      BY AdmittedNat
    <2>2. Admitted(o, a, source[o][a].window)' = m
      BY <1>2, <2>1 DEF Admitted
    <2>3. source'[o][a].window <= newest'[o]
      <3>1. /\ c.window \in Int /\ newest[o] \in Int /\ newest'[o] \in Int
        BY DEF SourceType, Window, TypeOK
      <3>2. c.window <= newest[o] /\ newest'[o] >= newest[o]
        BY <1>1 DEF Counting, Stays
      <3>3. QED
        BY <1>2, <3>1, <3>2
    <2>4. ASSUME NEW w \in Window, w > source'[o][a].window PROVE Admitted(o, a, w)' = 0
      <3>1. Admitted(o, a, w) = 0
        BY <1>1, <1>2, <2>4 DEF Counting
      <3>2. QED
        BY <1>3, <3>1
    <2>5. CASE c = UnseenSource
      BY <1>2, <2>3, <2>4, <2>5 DEF Counting
    <2>6. CASE c # UnseenSource
      <3>1. /\ c.window \in Window
            /\ Admitted(o, a, c.window) <= c.localCount
            /\ c.reportedCount \in 1 .. c.localCount
            /\ c.localCount - c.reportedCount < ReportInterval
        BY <1>1, <2>6 DEF Counting
      <3>2. m <= c.localCount
        <4>1. m <= Admitted(o, a, c.window) /\ Admitted(o, a, c.window) \in Nat
          BY <1>3, <2>1
        <4>2. QED
          BY <3>1, <4>1 DEF SourceType
      <3>3. QED
        BY <1>2, <2>2, <2>3, <2>4, <3>1, <3>2 DEF Counting
    <2>7. QED
      BY <2>5, <2>6
  <1>8. ASSUME NEW w \in Window PROVE Cleared(o, a, w)' <= Cleared(o, a, w)
    <2>1. PICK n \in Nat : n = Admitted(o, a, w)
      BY AdmittedNat
    <2>2. PICK m \in Nat : m = Admitted(o, a, w)'
      BY AdmittedNat
    <2>3. PICK d \in Int : d = OnWay(req, o, a)
      BY OnWayInt DEF TypeOK
    <2>4. Cleared(o, a, w) = ClearedOf(c, n, d, w)
      BY <1>1, <2>1, <2>3 DEF Cleared
    <2>5. Cleared(o, a, w)' = ClearedOf(c, m, d, w)
      BY <1>2, <1>5, <2>2, <2>3 DEF Cleared
    <2>6. Told(m) <= Told(n) /\ Told(m) \in Nat /\ Told(n) \in Nat
      BY <1>3, <2>1, <2>2, ToldFacts
    <2>7. c.reportedCount \in Nat
      BY DEF SourceType
    <2>8. ClearedOf(c, m, d, w) <= ClearedOf(c, n, d, w)
      BY <2>6, <2>7 DEF ClearedOf
    <2>9. QED
      BY <2>4, <2>5, <2>8
  <1>9. QED
    BY <1>6, <1>7, <1>8

\* A step after which all that is counted of a source is what it was.
LEMMA AllStay ==
    ASSUME TypeOK, TypeOK', NEW a \in Source, Agreed(a), shard'[a] = shard[a],
           \A o \in Org : Stays(o, a)
    PROVE  Agreed(a)'
  <1>1. \A o \in Org : /\ OneReports(o, a)' /\ Counting(o, a)'
                       /\ \A w \in Window : Cleared(o, a, w)' <= Cleared(o, a, w)
    BY StaysSame DEF Agreed
  <1>2. Shared(a)'
    BY <1>1, SharedKept DEF Agreed
  <1>3. QED
    BY <1>1, <1>2 DEF Agreed

\* A step of a request that reports nothing, and does not become admitted.
Aside(q) ==
    /\ \A p \in Req : p # q => req'[p] = req[p]
    /\ req[q].phase \notin {"report", "apply"}
    /\ req'[q].phase \notin {"report", "apply"}
    /\ \A o, a, w : Counts(req'[q], o, a, w) => Counts(req[q], o, a, w)

LEMMA AsideFrom ==
    ASSUME TypeOK, NEW q \in Req, NEW x, req' = [req EXCEPT ![q] = x],
           req[q].phase \notin {"report", "apply"},
           x.phase \notin {"report", "apply"},
           \/ x.answer # "admitted"
           \/ /\ x.answer = req[q].answer /\ x.kind = req[q].kind
              /\ x.org = req[q].org /\ x.source = req[q].source
              /\ x.window = req[q].window
    PROVE  Aside(q)
  <1>1. req \in [Req -> Request]
    BY DEF TypeOK
  <1>2. req'[q] = x /\ \A p \in Req : p # q => req'[p] = req[p]
    BY <1>1
  <1>3. \A o, a, w : Counts(x, o, a, w) => Counts(req[q], o, a, w)
    BY DEF Counts
  <1>4. QED
    BY <1>2, <1>3 DEF Aside

LEMMA AsideAgrees ==
    ASSUME TypeOK, TypeOK', NEW q \in Req, Aside(q), UNCHANGED <<source, shard>>,
           \A o \in Org : newest'[o] >= newest[o], NEW a \in Source, Agreed(a)
    PROVE  Agreed(a)'
  <1>1. ASSUME NEW o \in Org PROVE Stays(o, a)
    <2>1. source'[o][a] = source[o][a] /\ newest'[o] >= newest[o]
      OBVIOUS
    <2>2. /\ ~Reports(req[q], o, a) /\ ~Reports(req'[q], o, a)
          /\ \A w : Counts(req'[q], o, a, w) => Counts(req[q], o, a, w)
      BY DEF Aside, Reports
    <2>3. \A p \in Req : p # q => req'[p] = req[p]
      BY DEF Aside
    <2>4. QED
      BY <2>1, <2>2, <2>3 DEF Stays
  <1>2. QED
    BY <1>1, AllStay

LEMMA SameNewest ==
    ASSUME TypeOK, newest' = newest
    PROVE  \A o \in Org : newest'[o] >= newest[o]
  <1>1. \A o \in Org : newest[o] \in Int
    BY DEF TypeOK, Window
  <1>2. QED
    BY <1>1

LEMMA SeesNewest ==
    ASSUME TypeOK, NEW x \in Org \cup Limiter, NEW w \in Window, Sees(x, w)
    PROVE  \A o \in Org : /\ newest'[o] >= newest[o]
                          /\ o = x /\ w >= newest[o] => newest'[o] = w
  <1>1. newest \in [Org \cup Limiter -> Window]
    BY DEF TypeOK
  <1>2. newest' = [newest EXCEPT ![x] = IF w > newest[x] THEN w ELSE newest[x]]
    BY <1>1 DEF Sees
  <1>3. ASSUME NEW o \in Org PROVE newest[o] \in Int /\ w \in Int
    BY <1>1 DEF Window
  <1>4. ASSUME NEW o \in Org
        PROVE  newest'[o] >= newest[o] /\ (o = x /\ w >= newest[o] => newest'[o] = w)
    <2>1. CASE o = x
      <3>1. newest'[o] = IF w > newest[o] THEN w ELSE newest[o]
        BY <1>1, <1>2, <2>1
      <3>2. QED
        BY <1>3, <3>1
    <2>2. CASE o # x
      <3>1. newest'[o] = newest[o]
        BY <1>1, <1>2, <2>2
      <3>2. QED
        BY <1>3, <2>2, <3>1
    <2>3. QED
      BY <2>1, <2>2
  <1>5. QED
    BY <1>4

\* A request that is over, or refused, and what was said of it.
LEMMA SaidOf ==
    ASSUME TypeOK, NEW q \in Req, NEW said, NEW why
    PROVE  /\ Answered(q, said).phase = "done" /\ Answered(q, said).answer = said
           /\ Denied(q, why, said).phase = "evidence"
           /\ Denied(q, why, said).answer = said
  <1>1. req[q] \in Request
    BY DEF TypeOK
  <1>2. QED
    BY <1>1 DEF Answered, Denied, Request

LEMMA EndsAside ==
    ASSUME TypeOK, NEW q \in Req, req[q].phase \notin {"report", "apply"},
           NEW said, said # "admitted", NEW why,
           \/ req' = [req EXCEPT ![q] = Answered(q, said)]
           \/ req' = [req EXCEPT ![q] = Denied(q, why, said)]
    PROVE  Aside(q)
  <1>1. CASE req' = [req EXCEPT ![q] = Answered(q, said)]
    <2>1. PICK x : x = Answered(q, said)
      OBVIOUS
    <2>2. x.phase = "done" /\ x.answer = said
      BY <2>1, SaidOf
    <2>3. req' = [req EXCEPT ![q] = x]
      BY <1>1, <2>1
    <2>4. QED
      BY <2>2, <2>3, AsideFrom
  <1>2. CASE req' = [req EXCEPT ![q] = Denied(q, why, said)]
    <2>1. PICK x : x = Denied(q, why, said)
      OBVIOUS
    <2>2. x.phase = "evidence" /\ x.answer = said
      BY <2>1, SaidOf
    <2>3. req' = [req EXCEPT ![q] = x]
      BY <1>2, <2>1
    <2>4. QED
      BY <2>2, <2>3, AsideFrom
  <1>3. QED
    BY <1>1, <1>2

\* A request that only goes on to another phase.
LEMMA OnwardAside ==
    ASSUME TypeOK, NEW q \in Req, req[q].phase \notin {"report", "apply"},
           NEW phase, phase \notin {"report", "apply"}, NEW trace,
           \/ req' = [req EXCEPT ![q].phase = phase]
           \/ req' = [req EXCEPT ![q] = [req[q] EXCEPT !.phase = phase, !.trace = trace]]
    PROVE  Aside(q)
  <1>1. req[q] \in Request /\ req \in [Req -> Request]
    BY DEF TypeOK
  <1>2. CASE req' = [req EXCEPT ![q].phase = phase]
    <2>1. PICK x : x = [req[q] EXCEPT !.phase = phase]
      OBVIOUS
    <2>2. /\ x.phase = phase /\ x.answer = req[q].answer /\ x.kind = req[q].kind
          /\ x.org = req[q].org /\ x.source = req[q].source
          /\ x.window = req[q].window
      BY <1>1, <2>1 DEF Request
    <2>3. req' = [req EXCEPT ![q] = x]
      BY <1>1, <1>2, <2>1
    <2>4. QED
      BY <2>2, <2>3, AsideFrom
  <1>3. CASE req' = [req EXCEPT ![q] = [req[q] EXCEPT !.phase = phase, !.trace = trace]]
    <2>1. PICK x : x = [req[q] EXCEPT !.phase = phase, !.trace = trace]
      OBVIOUS
    <2>2. /\ x.phase = phase /\ x.answer = req[q].answer /\ x.kind = req[q].kind
          /\ x.org = req[q].org /\ x.source = req[q].source
          /\ x.window = req[q].window
      BY <1>1, <2>1 DEF Request
    <2>3. req' = [req EXCEPT ![q] = x]
      BY <1>3, <2>1
    <2>4. QED
      BY <2>2, <2>3, AsideFrom
  <1>4. QED
    BY <1>2, <1>3

\* Requests that begin, that reach no coordinator, and those before
\* authentication do not touch what is counted of a source.
LEMMA BeginsAside ==
    ASSUME TypeOK, NEW q \in Req, Invoke(q) \/ Attempt(q) \/ Unreached(q)
    PROVE  /\ Aside(q) /\ UNCHANGED <<source, shard>>
           /\ \A o \in Org : newest'[o] >= newest[o]
  <1>1. newest' = newest /\ UNCHANGED <<source, shard>>
    BY DEF Invoke, Attempt, Unreached, countVars
  <1>2. CASE Invoke(q)
    <2>1. req[q].phase = "idle"
      BY <1>2 DEF Invoke
    <2>2. PICK o \in Org, u \in Actor, a \in Source :
             req' = [req EXCEPT ![q] = [Idle EXCEPT !.phase = "admit", !.kind = "app",
                       !.window = clock, !.org = o, !.actor = u, !.source = a]]
      BY <1>2 DEF Invoke
    <2>3. PICK x : x = [Idle EXCEPT !.phase = "admit", !.kind = "app",
                           !.window = clock, !.org = o, !.actor = u, !.source = a]
      OBVIOUS
    <2>4. x.phase = "admit" /\ x.answer = "none"
      BY <2>3 DEF Idle
    <2>5. req' = [req EXCEPT ![q] = x]
      BY <2>2, <2>3
    <2>6. Aside(q)
      BY <2>1, <2>4, <2>5, AsideFrom
    <2>7. QED
      BY <1>1, <2>6, SameNewest
  <1>3. CASE Attempt(q)
    <2>1. req[q].phase = "idle"
      BY <1>3 DEF Attempt
    <2>2. PICK e \in EntryPoint, a \in Source, l \in Limiter :
             req' = [req EXCEPT ![q] = [Idle EXCEPT !.phase = "source",
                       !.kind = "attempt", !.window = clock, !.entry = e,
                       !.source = a, !.limiter = l]]
      BY <1>3 DEF Attempt
    <2>3. PICK x : x = [Idle EXCEPT !.phase = "source",
                       !.kind = "attempt", !.window = clock, !.entry = e,
                       !.source = a, !.limiter = l]
      OBVIOUS
    <2>4. x.phase = "source" /\ x.answer = "none"
      BY <2>3 DEF Idle
    <2>5. req' = [req EXCEPT ![q] = x]
      BY <2>2, <2>3
    <2>6. Aside(q)
      BY <2>1, <2>4, <2>5, AsideFrom
    <2>7. QED
      BY <1>1, <2>6, SameNewest
  <1>4. CASE Unreached(q)
    <2>1. /\ req[q].phase = "admit"
          /\ req' = [req EXCEPT ![q] = Answered(q, "degraded")]
      BY <1>4 DEF Unreached
    <2>2. Aside(q)
      BY <2>1, EndsAside
    <2>3. QED
      BY <1>1, <2>2, SameNewest
  <1>5. QED
    BY <1>2, <1>3, <1>4

LEMMA AttemptsAside ==
    ASSUME TypeOK, NEW q \in Req,
           \/ CheckSource(q) \/ CheckIdentifier(q) \/ BucketerThrows(q)
           \/ LimiterFails(q) \/ Handle(q)
           \/ CountDenial(q) \/ EvidenceUnrecorded(q) \/ EvidenceAbsent(q)
    PROVE  /\ Aside(q) /\ UNCHANGED <<source, shard>>
           /\ \A o \in Org : newest'[o] >= newest[o]
  <1>1. /\ req[q] \in Request /\ req[q].entry \in EntryPoint
        /\ req[q].limiter \in Limiter /\ req[q].window \in Window
    BY DEF TypeOK, Request
  <1>2. UNCHANGED <<source, shard>>
    BY DEF CheckSource, CheckIdentifier, BucketerThrows, LimiterFails, Handle,
           CountDenial, EvidenceUnrecorded, EvidenceAbsent, countVars
  <1>3. "admitted" \notin OutcomeKind
    BY DEF OutcomeKind
  <1>4. CASE CheckSource(q)
    <2>1. PICK e \in EntryPoint : e = req[q].entry
      BY <1>1
    <2>2. req[q].phase = "source"
      BY <1>4 DEF CheckSource
    <2>3. Sees(req[q].limiter, req[q].window)
      BY <1>4 DEF CheckSource, Checks
    <2>4. \/ req' = [req EXCEPT ![q] = Denied(q, "rate_limited", "rate_limited")]
          \/ req' = [req EXCEPT ![q] = Answered(q, "static")]
          \/ req' = [req EXCEPT ![q] = Answered(q, collapseTo(e))]
          \/ req' = [req EXCEPT ![q] = Answered(q, "invalid")]
          \/ req' = [req EXCEPT ![q].phase = "identifier"]
          \/ req' = [req EXCEPT ![q].phase = "handle"]
      BY <1>4, <2>1 DEF CheckSource
    <2>5. collapseTo(e) \in OutcomeKind
      BY OutcomeFacts
    <2>6. PICK c \in OutcomeKind : c = collapseTo(e)
      BY <2>5
    <2>7. CASE \/ req' = [req EXCEPT ![q] = Answered(q, "static")]
               \/ req' = [req EXCEPT ![q] = Answered(q, c)]
               \/ req' = [req EXCEPT ![q] = Answered(q, "invalid")]
               \/ req' = [req EXCEPT ![q] = Denied(q, "rate_limited", "rate_limited")]
      <3>1. c # "admitted"
        BY <1>3
      <3>2. Aside(q)
        BY <2>2, <2>7, <3>1, EndsAside
      <3>3. QED
        BY <1>1, <1>2, <2>3, <3>2, SeesNewest
    <2>8. CASE \/ req' = [req EXCEPT ![q].phase = "identifier"]
               \/ req' = [req EXCEPT ![q].phase = "handle"]
      <3>1. Aside(q)
        BY <2>2, <2>8, OnwardAside
      <3>2. QED
        BY <1>1, <1>2, <2>3, <3>1, SeesNewest
    <2>9. QED
      BY <2>4, <2>6, <2>7, <2>8
  <1>5. CASE CheckIdentifier(q)
    <2>1. req[q].phase = "identifier" /\ Sees(req[q].limiter, req[q].window)
      BY <1>5 DEF CheckIdentifier, Checks
    <2>2. \/ req' = [req EXCEPT ![q].phase = "handle"]
          \/ req' = [req EXCEPT ![q] = Denied(q, "rate_limited", "rate_limited")]
      <3>1. PICK b \in Bucket : req' = [req EXCEPT ![q] =
               IF Allowed(req[q].limiter, req[q].entry, b,
                          req[q].window, IdentifierLimit)
               THEN [req[q] EXCEPT !.phase = "handle"]
               ELSE Denied(q, "rate_limited", "rate_limited")]
        BY <1>5 DEF CheckIdentifier, TypeOK
      <3>2. req \in [Req -> Request]
        BY DEF TypeOK
      <3>3. QED
        BY <3>1, <3>2
    <2>3. Aside(q)
      <3>1. CASE req' = [req EXCEPT ![q].phase = "handle"]
        BY <2>1, <3>1, OnwardAside
      <3>2. CASE req' = [req EXCEPT ![q] = Denied(q, "rate_limited", "rate_limited")]
        BY <2>1, <3>2, EndsAside
      <3>3. QED
        BY <2>2, <3>1, <3>2
    <2>4. QED
      BY <1>1, <1>2, <2>1, <2>3, SeesNewest
  <1>6. CASE LimiterFails(q)
    <2>1. /\ req[q].phase \in {"source", "identifier"} /\ newest' = newest
          /\ req' = [req EXCEPT ![q] = Denied(q, "rate_limited", "rate_limited")]
      BY <1>6 DEF LimiterFails
    <2>2. Aside(q)
      BY <2>1, EndsAside
    <2>3. QED
      BY <1>2, <2>1, <2>2, SameNewest
  <1>7. CASE Handle(q)
    <2>1. req[q].phase = "handle" /\ newest' = newest
      BY <1>7 DEF Handle
    <2>2. PICK said \in OutcomeKind \cup {"threw"} :
             req' = [req EXCEPT ![q] =
                IF FinalOutcome(req[q].entry, said) \in Refusal
                THEN Denied(q, FinalOutcome(req[q].entry, said),
                            FinalOutcome(req[q].entry, said))
                ELSE Answered(q, FinalOutcome(req[q].entry, said))]
      BY <1>7 DEF Handle
    <2>3. FinalOutcome(req[q].entry, said) \in OutcomeKind
      BY <1>1, OutcomeFacts
    <2>4. PICK c \in OutcomeKind : c = FinalOutcome(req[q].entry, said)
      BY <2>3
    <2>5. c # "admitted"
      BY <1>3
    <2>6. \/ req' = [req EXCEPT ![q] = Answered(q, c)]
          \/ req' = [req EXCEPT ![q] = Denied(q, c, c)]
      BY <2>2, <2>4
    <2>7. Aside(q)
      BY <2>1, <2>5, <2>6, EndsAside
    <2>8. QED
      BY <1>2, <2>1, <2>7, SameNewest
  <1>8. CASE CountDenial(q) \/ EvidenceUnrecorded(q) \/ EvidenceAbsent(q)
    <2>1. req[q].phase = "evidence" /\ newest' = newest
      BY <1>8 DEF CountDenial, EvidenceUnrecorded, EvidenceAbsent
    <2>2. \/ req' = [req EXCEPT ![q].phase = "done"]
          \/ req' = [req EXCEPT ![q] = [req[q] EXCEPT !.phase = "done", !.trace = "counted"]]
          \/ req' = [req EXCEPT ![q] = [req[q] EXCEPT !.phase = "done", !.trace = "announced"]]
      BY <1>8 DEF CountDenial, EvidenceUnrecorded, EvidenceAbsent
    <2>3. Aside(q)
      BY <2>1, <2>2, OnwardAside
    <2>4. QED
      BY <1>2, <2>1, <2>3, SameNewest
  <1>9. CASE BucketerThrows(q)
    <2>1. /\ req[q].phase = "identifier" /\ newest' = newest
          /\ req' = [req EXCEPT ![q] = Answered(q, "internal")]
      BY <1>9 DEF BucketerThrows
    <2>2. Aside(q)
      BY <2>1, EndsAside
    <2>3. QED
      BY <1>2, <2>1, <2>2, SameNewest
  <1>10. QED
    BY <1>4, <1>5, <1>6, <1>7, <1>8, <1>9

\* What a coordinator makes of one more request of a source.
LEMMA SourceCountedFacts ==
    ASSUME NEW c \in SourceType, NEW w \in Window, NEW s, s = SourceCounted(c, w)
    PROVE  /\ s \in SourceType /\ s.window = w
           /\ c.window = w => /\ s.localCount = c.localCount + 1
                              /\ s.reportedCount = c.reportedCount
                              /\ c.blocked => s.blocked
           /\ c.window # w => s.localCount = 1 /\ s.reportedCount = 0
  <1> DEFINE old == IF c.window = w THEN c ELSE [UnseenSource EXCEPT !.window = w]
             n == old.localCount + 1
  <1>1. old \in SourceType /\ old.window = w
    BY DEF SourceType, UnseenSource
  <1>2. s = [old EXCEPT !.localCount = n, !.blocked = @ \/ n > SourceLimit]
    BY DEF SourceCounted
  <1>3. /\ c.window = w => old = c
        /\ c.window # w => old.localCount = 0 /\ old.reportedCount = 0
    BY DEF UnseenSource
  <1>4. PICK m \in Nat : m = n
    BY <1>1 DEF SourceType
  <1>5. PICK b \in BOOLEAN : b = (old.blocked \/ n > SourceLimit)
    OBVIOUS
  <1>6. PICK d \in SourceType : d = old
    BY <1>1
  <1> HIDE DEF old, n
  <1>7. s = [d EXCEPT !.localCount = m, !.blocked = b]
    BY <1>2, <1>4, <1>5, <1>6 DEF SourceType
  <1>8. /\ s \in SourceType /\ s.window = d.window /\ s.localCount = m
        /\ s.reportedCount = d.reportedCount /\ s.blocked = b
    BY <1>7 DEF SourceType
  <1>9. m = d.localCount + 1 /\ (d.blocked => b)
    BY <1>4, <1>5, <1>6 DEF n
  <1>10. QED
    BY <1>1, <1>3, <1>6, <1>8, <1>9

\* What is reported, and what is left, of a count of m requests of which k were
\* reported before.
LEMMA DueFacts ==
    ASSUME NEW s \in SourceType, NEW t,
           t = IF Due(s) THEN [s EXCEPT !.reportedCount = s.localCount] ELSE s
    PROVE  /\ t \in SourceType /\ t.window = s.window /\ t.localCount = s.localCount
           /\ t.blocked = s.blocked
           /\ Due(s) => t.reportedCount = s.localCount
           /\ ~Due(s) => /\ t.reportedCount = s.reportedCount /\ s.localCount # 1
                         /\ s.localCount - s.reportedCount < ReportInterval
           /\ s.localCount = 1 => Due(s)
  <1>1. PICK m \in Nat : m = s.localCount
    BY DEF SourceType
  <1>2. CASE Due(s)
    <2>1. t = [s EXCEPT !.reportedCount = m]
      BY <1>1, <1>2
    <2>2. QED
      BY <1>1, <1>2, <2>1 DEF SourceType
  <1>3. CASE ~Due(s)
    <2>1. t = s
      BY <1>3
    <2>2. s.localCount \in Int /\ s.reportedCount \in Int /\ ReportInterval \in Int
      BY FrontGatesAssumption DEF SourceType
    <2>3. s.localCount # 1 /\ s.localCount - s.reportedCount < ReportInterval
      BY <1>3, <2>2 DEF Due
    <2>4. QED
      BY <1>3, <2>1, <2>3
  <1>4. QED
    BY <1>2, <1>3

\* The record of an admitted or refused request, or of one that reports first.
LEMMA AdmitMoves ==
    ASSUME TypeOK, NEW q \in Req, Admit(q), NEW s, NEW t,
           s = SourceCounted(source[req[q].org][req[q].source], req[q].window),
           t = IF Due(s) THEN [s EXCEPT !.reportedCount = s.localCount] ELSE s
    PROVE  /\ req[q].phase = "admit" /\ shard' = shard
           /\ \A p \in Req : p # q => req'[p] = req[p]
           /\ req'[q].kind = req[q].kind /\ req'[q].org = req[q].org
           /\ req'[q].source = req[q].source /\ req'[q].window = req[q].window
           /\ Due(s) => /\ req'[q].phase = "report"
                        /\ req'[q].answer = req[q].answer
                        /\ req'[q].delta = s.localCount - s.reportedCount
           /\ ~Due(s) => /\ req'[q].phase = "done"
                         /\ s.blocked => req'[q].answer = "rate_limited"
           /\ \A o \in Org, a \in Source : source'[o][a] =
                 IF o = req[q].org /\ a = req[q].source THEN t ELSE source[o][a]
           /\ req[q].source \notin rough' =>
                 /\ ~UnderWay(req[q].org, req[q].source)
                 /\ req[q].window >= newest[req[q].org]
           /\ Sees(req[q].org, req[q].window)
           /\ rough \subseteq rough'
  <1> DEFINE o == req[q].org
             a == req[q].source
             w == req[q].window
             mine == {req[q].actor, "organization"}
             counted == [u \in Subject |-> IF u \in mine THEN Counted(u, rate[o][u], w)
                                           ELSE rate[o][u]]
             refused == s.blocked \/ \E u \in mine : OverLimit(u, counted[u])
             decision == IF refused THEN "rate_limited" ELSE "admitted"
  <1>1. /\ req \in [Req -> Request] /\ req[q] \in Request
        /\ source \in [Org -> [Source -> SourceType]]
    BY DEF TypeOK, SourceType
  <1>2. o \in Org /\ a \in Source /\ w \in Window
    BY <1>1 DEF Request
  <1>3. /\ req[q].phase = "admit" /\ shard' = shard /\ Sees(o, w)
        /\ source' = [source EXCEPT ![o][a] = t]
        /\ rough' = IF UnderWay(o, a) \/ w < newest[o] THEN rough \cup {a} ELSE rough
    BY DEF Admit
  <1>4. req' = [req EXCEPT ![q] =
                 IF Due(s)
                 THEN [req[q] EXCEPT !.phase = "report", !.decision = decision,
                          !.delta = s.localCount - s.reportedCount]
                 ELSE [Answered(q, decision) EXCEPT !.decision = decision]]
    BY <1>1 DEF Admit
  <1>5. PICK d : d = decision /\ (s.blocked => d = "rate_limited")
    OBVIOUS
  <1> HIDE DEF decision
  <1>6. PICK k : k = s.localCount - s.reportedCount
    OBVIOUS
  <1>7. CASE Due(s)
    <2>1. PICK x : x = [req[q] EXCEPT !.phase = "report", !.decision = d, !.delta = k]
      OBVIOUS
    <2>2. req' = [req EXCEPT ![q] = x]
      BY <1>4, <1>5, <1>6, <1>7, <2>1
    <2>3. /\ x.kind = req[q].kind /\ x.org = req[q].org /\ x.phase = "report"
          /\ x.source = req[q].source /\ x.window = req[q].window
          /\ x.answer = req[q].answer /\ x.delta = k
      BY <1>1, <2>1 DEF Request
    <2>4. req'[q] = x /\ \A p \in Req : p # q => req'[p] = req[p]
      BY <1>1, <2>2
    <2>5. QED
      <3>1. \A e \in Org, b \in Source : source'[e][b] =
                 IF e = req[q].org /\ b = req[q].source THEN t ELSE source[e][b]
        BY <1>1, <1>2, <1>3
      <3>2. a \notin rough' => ~UnderWay(o, a) /\ w >= newest[o]
        <4>1. newest[o] \in Int /\ w \in Int
          BY <1>2 DEF TypeOK, Window
        <4>2. QED
          BY <1>3, <4>1
      <3>3. QED
        BY <1>3, <1>6, <1>7, <2>3, <2>4, <3>1, <3>2
  <1>8. CASE ~Due(s)
    <2>1. PICK y : y = Answered(q, d)
      OBVIOUS
    <2>2. /\ y.kind = req[q].kind /\ y.org = req[q].org /\ y.phase = "done"
          /\ y.source = req[q].source /\ y.window = req[q].window
          /\ y.answer = d
      BY <1>1, <2>1 DEF Answered, Request
    <2>3. PICK x : x = [y EXCEPT !.decision = d]
      OBVIOUS
    <2>4. /\ x.kind = req[q].kind /\ x.org = req[q].org /\ x.phase = "done"
          /\ x.source = req[q].source /\ x.window = req[q].window
          /\ x.answer = d
      BY <1>1, <2>2, <2>3 DEF Request
    <2>5. req' = [req EXCEPT ![q] = x]
      BY <1>4, <1>5, <1>8, <2>1, <2>3
    <2>6. req'[q] = x /\ \A p \in Req : p # q => req'[p] = req[p]
      BY <1>1, <2>5
    <2>7. QED
      <3>1. \A e \in Org, b \in Source : source'[e][b] =
                 IF e = req[q].org /\ b = req[q].source THEN t ELSE source[e][b]
        BY <1>1, <1>2, <1>3
      <3>2. a \notin rough' => ~UnderWay(o, a) /\ w >= newest[o]
        <4>1. newest[o] \in Int /\ w \in Int
          BY <1>2 DEF TypeOK, Window
        <4>2. QED
          BY <1>3, <4>1
      <3>3. QED
        BY <1>3, <1>5, <1>8, <2>4, <2>6, <3>1, <3>2
  <1>9. QED
    BY <1>7, <1>8

\* Admit leaves other coordinators and other sources alone; what it admits is
\* covered by what was cleared, and it clears nothing.
LEMMA AdmitAgrees ==
    ASSUME TypeOK, TypeOK', NEW q \in Req, Admit(q), NEW a \in Source \ rough',
           Agreed(a)
    PROVE  Agreed(a)'
  <1>1. /\ req[q] \in Request /\ req[q].org \in Org /\ req[q].source \in Source
        /\ req[q].window \in Window
    BY DEF TypeOK, Request
  <1>2. PICK w \in Window : w = req[q].window
    BY <1>1
  <1>3. PICK p \in Org : p = req[q].org
    BY <1>1
  <1>4. PICK s : s = SourceCounted(source[p][req[q].source], w)
    OBVIOUS
  <1>5. PICK t : t = IF Due(s) THEN [s EXCEPT !.reportedCount = s.localCount] ELSE s
    OBVIOUS
  <1>6. /\ req[q].phase = "admit" /\ shard' = shard
        /\ \A i \in Req : i # q => req'[i] = req[i]
        /\ req'[q].kind = req[q].kind /\ req'[q].org = req[q].org
        /\ req'[q].source = req[q].source /\ req'[q].window = req[q].window
        /\ \A o \in Org, b \in Source : source'[o][b] =
              IF o = req[q].org /\ b = req[q].source THEN t ELSE source[o][b]
    BY <1>2, <1>3, <1>4, <1>5, AdmitMoves
  <1>7. \A o \in Org : newest'[o] >= newest[o]
    <2>1. Sees(req[q].org, req[q].window)
      BY <1>2, <1>3, <1>4, <1>5, AdmitMoves
    <2>2. QED
      BY <1>1, <2>1, SeesNewest
  <1>8. ASSUME NEW o \in Org, ~(o = p /\ a = req[q].source) PROVE Stays(o, a)
    <2>1. source'[o][a] = source[o][a]
      BY <1>3, <1>6, <1>8
    <2>2. /\ ~Reports(req[q], o, a) /\ ~Reports(req'[q], o, a)
          /\ \A v : ~Counts(req'[q], o, a, v)
      BY <1>3, <1>6, <1>8 DEF Reports, Counts
    <2>3. QED
      BY <1>6, <1>7, <2>1, <2>2 DEF Stays
  <1>9. CASE a # req[q].source
    BY <1>6, <1>8, <1>9, AllStay
  <1>10. CASE a = req[q].source
    <2>1. PICK c \in SourceType : c = source[p][a]
      BY SourceFacts
    <2>2. /\ s \in SourceType /\ s.window = w
          /\ c.window = w => /\ s.localCount = c.localCount + 1
                             /\ s.reportedCount = c.reportedCount
                             /\ c.blocked => s.blocked
          /\ c.window # w => s.localCount = 1 /\ s.reportedCount = 0
      BY <1>4, <1>10, <2>1, SourceCountedFacts
    <2>3. /\ t \in SourceType /\ t.window = w /\ t.localCount = s.localCount
          /\ t.blocked = s.blocked
          /\ Due(s) => t.reportedCount = s.localCount
          /\ ~Due(s) => /\ t.reportedCount = s.reportedCount /\ s.localCount # 1
                        /\ s.localCount - s.reportedCount < ReportInterval
          /\ s.localCount = 1 => Due(s)
      BY <1>5, <2>2, DueFacts
    <2>4. source'[p][a] = t
      BY <1>3, <1>6, <1>10
    <2>5. /\ \A i \in Req : ~Reports(req[i], p, a)
          /\ w >= newest[p]
      <3>1. ~UnderWay(p, a) /\ w >= newest[p]
        BY <1>2, <1>3, <1>4, <1>5, <1>10, AdmitMoves
      <3>2. QED
        BY <3>1 DEF UnderWay, Reports
    <2>6. newest'[p] = w
      <3>1. Sees(p, w)
        BY <1>2, <1>3, <1>4, <1>5, AdmitMoves
      <3>2. QED
        BY <2>5, <3>1, SeesNewest
    <2>7. /\ Due(s) => /\ req'[q].phase = "report"
                       /\ req'[q].answer = req[q].answer
                       /\ req'[q].delta = s.localCount - s.reportedCount
          /\ ~Due(s) => /\ req'[q].phase = "done"
                        /\ s.blocked => req'[q].answer = "rate_limited"
      BY <1>2, <1>3, <1>4, <1>5, AdmitMoves
    <2>8. PICK n \in Nat : n = Admitted(p, a, w)
      BY AdmittedNat
    <2>9. PICK m \in Nat : m = Admitted(p, a, w)'
      BY AdmittedNat
    <2>10. OneReports(p, a) /\ Counting(p, a)
      BY DEF Agreed
    <2>11. /\ c.window <= w
           /\ c.window = w => /\ n <= c.localCount /\ c.reportedCount \in 1 .. c.localCount
                              /\ c.localCount - c.reportedCount < ReportInterval
           /\ c.window # w => n = 0
      <3>1. c.window \in Int /\ w \in Int /\ newest[p] \in Int
        BY DEF SourceType, TypeOK, Window
      <3>2. c.window <= newest[p]
        BY <2>1, <2>10 DEF Counting
      <3>3. c.window <= w
        BY <2>5, <3>1, <3>2
      <3>4. c.window # w => n = 0
        BY <2>1, <2>8, <2>10, <3>1, <3>3 DEF Counting
      <3>5. c.window = w => c # UnseenSource
        BY DEF UnseenSource, Window
      <3>6. c.window = w => /\ n <= c.localCount /\ c.reportedCount \in 1 .. c.localCount
                            /\ c.localCount - c.reportedCount < ReportInterval
        BY <2>1, <2>8, <2>10, <3>5 DEF Counting
      <3>7. QED
        BY <3>3, <3>4, <3>6
    <2>12. /\ \A v \in Window : v # w => Admitted(p, a, v)' <= Admitted(p, a, v)
           /\ m <= n + 1
           /\ Due(s) \/ s.blocked => m <= n
      <3>1. ASSUME NEW v, v # w \/ Due(s) \/ s.blocked
            PROVE  Admitted(p, a, v)' <= Admitted(p, a, v)
        <4>1. Counts(req'[q], p, a, v) => Counts(req[q], p, a, v)
          BY <1>2, <1>6, <2>7, <3>1 DEF Counts
        <4>2. \A i \in Req : Counts(req'[i], p, a, v) => Counts(req[i], p, a, v)
          BY <1>6, <4>1
        <4>3. QED
          BY <4>2, AdmittedMoves
      <3>2. Admitted(p, a, w)' <= Admitted(p, a, w) + 1
        BY <1>6, AdmittedMoves
      <3>3. QED
        BY <2>8, <2>9, <3>1, <3>2
    <2>13. /\ c.localCount \in Nat /\ c.reportedCount \in Nat /\ s.localCount \in Nat
           /\ s.reportedCount \in Nat /\ ReportInterval \in Nat \ {0}
      BY <2>2, FrontGatesAssumption DEF SourceType
    <2>14. Admitted(p, a, source[p][a].window)' = m
      BY <2>3, <2>4, <2>9 DEF Admitted
    <2>15. OneReports(p, a)'
      <3> SUFFICES ASSUME NEW i \in Req, Reports(req'[i], p, a)
                   PROVE  /\ \A j \in Req : Reports(req'[j], p, a) => j = i
                          /\ Reporting(req'[i], t, m)
        BY <2>4, <2>14 DEF OneReports
      <3>1. \A j \in Req : Reports(req'[j], p, a) => j = q
        BY <1>6, <2>5
      <3>2. i = q /\ Due(s)
        BY <2>7, <3>1 DEF Reports
      <3>3. PICK d : d = req'[q].delta
        OBVIOUS
      <3>4. /\ d = s.localCount - s.reportedCount /\ m <= n
            /\ t.reportedCount = s.localCount /\ t.localCount = s.localCount
        BY <2>3, <2>7, <2>12, <3>2, <3>3
      <3>5. /\ d \in 1 .. ReportInterval /\ d <= s.localCount
            /\ d = s.localCount => s.localCount = 1
            /\ m <= s.localCount - 1
        <4>1. CASE c.window = w
          BY <2>2, <2>11, <2>13, <3>4, <4>1
        <4>2. CASE c.window # w
          BY <2>2, <2>11, <2>13, <3>4, <4>2
        <4>3. QED
          BY <4>1, <4>2
      <3>6. req'[q].window = t.window /\ t.window \in Window
        BY <1>2, <1>6, <2>3
      <3>7. Reporting(req'[q], t, m)
        BY <3>3, <3>4, <3>5, <3>6 DEF Reporting
      <3>8. QED
        BY <3>1, <3>2, <3>7
    <2>16. Counting(p, a)'
      <3>1. t.window <= newest'[p]
        BY <2>3, <2>6 DEF Window
      <3>2. ASSUME NEW v \in Window, v > t.window PROVE Admitted(p, a, v)' = 0
        <4>1. v # w /\ v > c.window
          <5>1. v \in Int /\ w \in Int /\ c.window \in Int
            BY DEF Window, SourceType
          <5>2. QED
            BY <2>3, <2>11, <3>2, <5>1
        <4>2. Admitted(p, a, v) = 0
          BY <2>1, <2>10, <4>1 DEF Counting
        <4>3. Admitted(p, a, v)' <= Admitted(p, a, v)
          BY <2>12, <4>1
        <4>4. QED
          BY <4>2, <4>3, AdmittedNat
      <3>3. m <= t.localCount
        <4>1. CASE c.window = w
          BY <2>2, <2>3, <2>11, <2>12, <2>13, <4>1
        <4>2. CASE c.window # w
          BY <2>2, <2>3, <2>11, <2>12, <2>13, <4>2
        <4>3. QED
          BY <4>1, <4>2
      <3>4. t.reportedCount \in 1 .. t.localCount /\ t.localCount - t.reportedCount < ReportInterval
        <4>1. CASE Due(s)
          <5>1. s.localCount >= 1
            BY <2>2, <2>13
          <5>2. QED
            BY <2>3, <2>13, <4>1, <5>1
        <4>2. CASE ~Due(s)
          <5>1. c.window = w
            BY <2>2, <2>3, <4>2
          <5>2. QED
            BY <2>2, <2>3, <2>11, <2>13, <4>2, <5>1
        <4>3. QED
          BY <4>1, <4>2
      <3>5. QED
        BY <2>3, <2>4, <2>14, <3>1, <3>2, <3>3, <3>4 DEF Counting
    <2>17. ASSUME NEW v \in Window PROVE Cleared(p, a, v)' <= Cleared(p, a, v)
      <3>1. Told(Admitted(p, a, v)) <= Cleared(p, a, v)
        BY <2>10, Covers
      <3>2. PICK k \in Nat : k = Admitted(p, a, v)
        BY AdmittedNat
      <3>3. PICK l \in Nat : l = Admitted(p, a, v)'
        BY AdmittedNat
      <3>4. PICK d \in Int : d = OnWay(req', p, a)
        BY OnWayInt DEF TypeOK
      <3>5. Cleared(p, a, v)' = ClearedOf(t, l, d, v)
        BY <2>4, <3>3, <3>4 DEF Cleared
      <3>6. Cleared(p, a, v) \in Int /\ Cleared(p, a, v)' \in Int
        BY ClearedInt
      <3>7. CASE v # w \/ t.blocked
        <4>1. Cleared(p, a, v)' = Told(l)
          BY <2>3, <3>5, <3>7 DEF ClearedOf
        <4>2. l <= k
          BY <2>3, <2>8, <2>9, <2>12, <3>2, <3>3, <3>7
        <4>3. Told(l) <= Told(k) /\ Told(l) \in Nat /\ Told(k) \in Nat
          BY <4>2, ToldFacts
        <4>4. QED
          BY <3>1, <3>2, <3>6, <4>1, <4>3
      <3>8. CASE v = w /\ ~t.blocked
        <4>1. Cleared(p, a, v)' = t.reportedCount - d
          BY <2>3, <3>5, <3>8 DEF ClearedOf
        <4>2. t.reportedCount - d = s.reportedCount
          <5>1. CASE Due(s)
            <6>1. Uncleared(req'[q], p, a)
              BY <1>3, <1>6, <1>10, <2>7, <5>1 DEF Uncleared, Reports
            <6>2. \A i \in Req : Reports(req'[i], p, a) => i = q
              BY <1>6, <2>5
            <6>3. d = req'[q].delta
              BY <3>4, <6>1, <6>2, OnWayOne
            <6>4. QED
              BY <2>3, <2>7, <2>13, <5>1, <6>3
          <5>2. CASE ~Due(s)
            <6>1. \A i \in Req : ~Reports(req'[i], p, a)
              BY <1>6, <2>5, <2>7, <5>2 DEF Reports
            <6>2. d = 0
              BY <3>4, <6>1, OnWayNone DEF Uncleared
            <6>3. QED
              BY <2>3, <2>13, <5>2, <6>2
          <5>3. QED
            BY <5>1, <5>2
        <4>3. Cleared(p, a, v) >= s.reportedCount
          <5>1. CASE c.window = w
            <6>1. ~c.blocked
              BY <2>2, <2>3, <3>8, <5>1
            <6>2. OnWay(req, p, a) = 0
              BY <2>5, OnWayNone DEF Uncleared
            <6>3. Cleared(p, a, v) = c.reportedCount - 0
              BY <2>1, <3>8, <5>1, <6>1, <6>2 DEF Cleared, ClearedOf
            <6>4. QED
              BY <2>2, <2>13, <5>1, <6>3
          <5>2. CASE c.window # w
            <6>1. k = 0 /\ s.reportedCount = 0
              BY <2>2, <2>8, <2>11, <3>2, <3>8, <5>2
            <6>2. Told(k) = 0
              BY <6>1, ToldNone
            <6>3. QED
              BY <3>1, <3>2, <6>1, <6>2
          <5>3. QED
            BY <5>1, <5>2
        <4>4. QED
          BY <2>13, <3>6, <4>1, <4>2, <4>3
      <3>9. QED
        BY <3>7, <3>8
    <2>18. ASSUME NEW o \in Org
           PROVE  /\ OneReports(o, a)' /\ Counting(o, a)'
                  /\ \A v \in Window : Cleared(o, a, v)' <= Cleared(o, a, v)
      <3>1. CASE o = p
        BY <2>15, <2>16, <2>17, <3>1
      <3>2. CASE o # p
        <4>1. Stays(o, a) /\ OneReports(o, a) /\ Counting(o, a)
          BY <1>8, <3>2 DEF Agreed
        <4>2. QED
          BY <4>1, StaysSame
      <3>3. QED
        BY <3>1, <3>2
    <2>19. Shared(a)'
      BY <1>6, <2>18, SharedKept DEF Agreed
    <2>20. QED
      BY <2>18, <2>19 DEF Agreed
  <1>11. QED
    BY <1>9, <1>10

\* The request of a report keeps what it was asked, and who asks it.
LEMMA ReportMoves ==
    ASSUME TypeOK, NEW q \in Req, Report(q), NEW total,
           total = shard[req[q].source][req[q].window] + req[q].delta
    PROVE  /\ req[q].phase = "report" /\ source' = source /\ newest' = newest
           /\ \A p \in Req : p # q => req'[p] = req[p]
           /\ req'[q].kind = req[q].kind /\ req'[q].org = req[q].org
           /\ req'[q].source = req[q].source /\ req'[q].window = req[q].window
           /\ req'[q].answer = req[q].answer /\ req'[q].delta = req[q].delta
           /\ req'[q].phase = "apply" /\ req'[q].total = total
           /\ \A a \in Source : a # req[q].source => shard'[a] = shard[a]
           /\ \A v \in Window : shard'[req[q].source][v] =
                 IF v < req[q].window - Keep THEN 0
                 ELSE IF v = req[q].window THEN total ELSE shard[req[q].source][v]
           /\ rough \subseteq rough'
           /\ req[q].source \notin rough' =>
                 ~ \E v \in Window : /\ v > req[q].window + Keep
                                     /\ shard[req[q].source][v] > 0
  <1>1. /\ req \in [Req -> Request] /\ req[q] \in Request
        /\ shard \in [Source -> [Window -> Int]]
    BY DEF TypeOK
  <1>2. req[q].source \in Source /\ req[q].window \in Window
    BY <1>1 DEF Request
  <1>3. PICK a \in Source : a = req[q].source
    BY <1>2
  <1>4. PICK w \in Window : w = req[q].window
    BY <1>2
  <1>5. /\ req[q].phase = "report" /\ source' = source /\ newest' = newest
        /\ shard' = [shard EXCEPT ![a] =
                 [v \in Window |-> IF v < w - Keep THEN 0
                                   ELSE IF v = w THEN total ELSE shard[a][v]]]
        /\ req' = [req EXCEPT ![q] = [req[q] EXCEPT !.phase = "apply", !.total = total]]
        /\ rough' = IF \E v \in Window : v > w + Keep /\ shard[a][v] > 0
                    THEN rough \cup {a} ELSE rough
    BY <1>3, <1>4 DEF Report
  <1>6. PICK x : x = [req[q] EXCEPT !.phase = "apply", !.total = total]
    OBVIOUS
  <1>7. /\ x.kind = req[q].kind /\ x.org = req[q].org /\ x.source = req[q].source
        /\ x.window = req[q].window /\ x.answer = req[q].answer
        /\ x.delta = req[q].delta /\ x.phase = "apply" /\ x.total = total
    BY <1>1, <1>6 DEF Request
  <1>8. req' = [req EXCEPT ![q] = x]
    BY <1>5, <1>6
  <1>9. req'[q] = x /\ \A p \in Req : p # q => req'[p] = req[p]
    BY <1>1, <1>8
  <1>10. /\ \A b \in Source : b # a => shard'[b] = shard[b]
         /\ \A v \in Window : shard'[a][v] =
               IF v < w - Keep THEN 0 ELSE IF v = w THEN total ELSE shard[a][v]
    BY <1>1, <1>5
  <1>11. /\ rough \subseteq rough'
         /\ a \notin rough' => ~ \E v \in Window : v > w + Keep /\ shard[a][v] > 0
    BY <1>5
  <1>12. QED
    BY <1>3, <1>4, <1>5, <1>7, <1>9, <1>10, <1>11

\* A report clears its delta if the total allows it, and nothing otherwise.
LEMMA ReportAgrees ==
    ASSUME TypeOK, TypeOK', NEW q \in Req, Report(q), NEW a \in Source \ rough',
           Agreed(a)
    PROVE  Agreed(a)'
  <1>1. /\ req[q] \in Request /\ req[q].org \in Org /\ req[q].window \in Window
        /\ req[q].source \in Source /\ req[q].delta \in Int
    BY DEF TypeOK, Request
  <1>2. PICK w \in Window : w = req[q].window
    BY <1>1
  <1>3. PICK p \in Org : p = req[q].org
    BY <1>1
  <1>4. PICK delta \in Int : delta = req[q].delta
    BY <1>1
  <1>5. shard[req[q].source][w] \in Int
    BY <1>1 DEF TypeOK
  <1>6. PICK total \in Int : total = shard[req[q].source][w] + delta
    BY <1>5
  <1>7. /\ req[q].phase = "report" /\ source' = source /\ newest' = newest
        /\ \A i \in Req : i # q => req'[i] = req[i]
        /\ req'[q].kind = req[q].kind /\ req'[q].org = req[q].org
        /\ req'[q].source = req[q].source /\ req'[q].window = req[q].window
        /\ req'[q].answer = req[q].answer /\ req'[q].delta = req[q].delta
        /\ req'[q].phase = "apply" /\ req'[q].total = total
        /\ \A b \in Source : b # req[q].source => shard'[b] = shard[b]
    BY <1>2, <1>4, <1>6, ReportMoves
  <1>8. \A o \in Org : newest'[o] >= newest[o]
    BY <1>7, SameNewest
  <1>9. \A i \in Req : \A o, v : Counts(req'[i], o, a, v) => Counts(req[i], o, a, v)
    BY <1>7 DEF Counts
  <1>10. ASSUME NEW o \in Org, ~(o = p /\ a = req[q].source) PROVE Stays(o, a)
    <2>1. ~Reports(req[q], o, a) /\ ~Reports(req'[q], o, a)
      BY <1>3, <1>7, <1>10 DEF Reports
    <2>2. source'[o][a] = source[o][a]
      BY <1>7
    <2>3. QED
      BY <1>7, <1>8, <1>9, <2>1, <2>2 DEF Stays
  <1>11. CASE a # req[q].source
    BY <1>7, <1>10, <1>11, AllStay
  <1>12. CASE a = req[q].source
    <2>1. PICK c \in SourceType : c = source[p][a]
      BY SourceFacts
    <2>2. source'[p][a] = c
      BY <1>7, <2>1
    <2>3. OneReports(p, a) /\ Counting(p, a)
      BY DEF Agreed
    <2>4. Reports(req[q], p, a) /\ Uncleared(req[q], p, a)
      BY <1>3, <1>7, <1>12 DEF Reports, Uncleared
    <2>5. \A i \in Req : Reports(req[i], p, a) => i = q
      BY <2>3, <2>4 DEF OneReports
    <2>6. \A i \in Req : Reports(req'[i], p, a) => i = q
      BY <1>7, <2>5
    <2>7. PICK n \in Nat : n = Admitted(p, a, c.window)
      BY AdmittedNat
    <2>8. PICK m \in Nat : m = Admitted(p, a, c.window)'
      BY AdmittedNat
    <2>9. Reporting(req[q], c, n)
      BY <2>1, <2>3, <2>4, <2>7 DEF OneReports
    <2>10. /\ c.window = w /\ delta \in 1 .. ReportInterval /\ c.reportedCount \in Nat
           /\ c.localCount \in Nat /\ ReportInterval \in Nat
      BY <1>2, <1>4, <2>9, FrontGatesAssumption DEF Reporting, SourceType
    <2>11. \A v : /\ Admitted(p, a, v)' <= Admitted(p, a, v)
                  /\ Admitted(p, a, v)' \in Nat /\ Admitted(p, a, v) \in Nat
      BY <1>9, AdmittedMoves, AdmittedNat
    <2>12. m <= n
      BY <2>7, <2>8, <2>11
    <2>13. Admitted(p, a, source[p][a].window)' = m
      BY <2>2, <2>8 DEF Admitted
    <2>14. OneReports(p, a)'
      <3>1. Reporting(req'[q], c, m)
        BY <1>7, <2>9, <2>10, <2>12 DEF Reporting
      <3>2. QED
        BY <2>2, <2>6, <2>13, <3>1 DEF OneReports
    <2>15. Counting(p, a)'
      <3>1. c.window <= newest'[p]
        BY <1>7, <2>1, <2>3 DEF Counting
      <3>2. ASSUME NEW v \in Window, v > c.window PROVE Admitted(p, a, v)' = 0
        <4>1. Admitted(p, a, v) = 0
          BY <2>1, <2>3, <3>2 DEF Counting
        <4>2. QED
          BY <2>11, <4>1
      <3>3. c # UnseenSource
        BY <2>10 DEF UnseenSource, Window
      <3>4. /\ c.window \in Window /\ n <= c.localCount
            /\ c.reportedCount \in 1 .. c.localCount
            /\ c.localCount - c.reportedCount < ReportInterval
        BY <2>1, <2>3, <2>7, <3>3 DEF Counting
      <3>5. m <= c.localCount
        BY <2>10, <2>12, <3>4
      <3>6. QED
        BY <2>2, <2>13, <3>1, <3>2, <3>4, <3>5 DEF Counting
    <2>16. PICK gain \in Nat : gain = IF total <= SourceLimit THEN delta ELSE 0
      BY <2>10
    <2>17. OnWay(req, p, a) = delta
      BY <1>4, <2>4, <2>5, OnWayOne
    <2>18. OnWay(req', p, a) = delta - gain
      <3>1. SourceLimit \in Nat
        BY FrontGatesAssumption
      <3>2. CASE total <= SourceLimit
        <4>1. \A i \in Req : ~Uncleared(req'[i], p, a)
          BY <1>7, <2>6, <3>1, <3>2 DEF Uncleared
        <4>2. OnWay(req', p, a) = 0
          BY <4>1, OnWayNone
        <4>3. QED
          BY <2>16, <3>2, <4>2
      <3>3. CASE total > SourceLimit
        <4>1. Uncleared(req'[q], p, a)
          BY <1>3, <1>7, <1>12, <3>3 DEF Uncleared, Reports
        <4>2. OnWay(req', p, a) = delta
          BY <1>4, <1>7, <2>6, <4>1, OnWayOne
        <4>3. QED
          BY <2>16, <3>1, <3>3, <4>2
      <3>4. QED
        BY <3>1, <3>2, <3>3
    <2>19. ASSUME NEW v \in Window
           PROVE  Cleared(p, a, v)' <= Cleared(p, a, v) + (IF v = w THEN gain ELSE 0)
      <3>1. PICK k \in Nat : k = Admitted(p, a, v)
        BY AdmittedNat
      <3>2. PICK l \in Nat : l = Admitted(p, a, v)'
        BY AdmittedNat
      <3>3. Cleared(p, a, v) = ClearedOf(c, k, delta, v)
        BY <2>1, <2>17, <3>1 DEF Cleared
      <3>4. Cleared(p, a, v)' = ClearedOf(c, l, delta - gain, v)
        BY <2>2, <2>18, <3>2 DEF Cleared
      <3>5. Told(l) <= Told(k) /\ Told(l) \in Nat /\ Told(k) \in Nat
        BY <2>11, <3>1, <3>2, ToldFacts
      <3>6. CASE c.window # v \/ c.blocked
        BY <3>3, <3>4, <3>5, <3>6 DEF ClearedOf
      <3>7. CASE c.window = v /\ ~c.blocked
        BY <2>10, <3>3, <3>4, <3>7 DEF ClearedOf
      <3>8. QED
        BY <3>6, <3>7
    <2>20. \A o \in Org : o # p =>
              /\ OneReports(o, a)' /\ Counting(o, a)'
              /\ \A v \in Window : Cleared(o, a, v)' <= Cleared(o, a, v)
      BY <1>10, StaysSame DEF Agreed
    <2>21. ASSUME NEW v \in Window
           PROVE  /\ AllCleared(a, v) \in Int /\ AllCleared(a, v)' \in Int
                  /\ v # w => AllCleared(a, v)' <= AllCleared(a, v)
                  /\ v = w => AllCleared(a, v)' <= AllCleared(a, v) + gain
      <3>1. PICK more \in Int : more = IF v = w THEN gain ELSE 0
        OBVIOUS
      <3>2. ASSUME NEW o \in Org
            PROVE  Cleared(o, a, v)' <= Cleared(o, a, v) + (IF o = p THEN more ELSE 0)
        <4>1. Cleared(o, a, v)' \in Int /\ Cleared(o, a, v) \in Int
          BY ClearedInt
        <4>2. CASE o = p
          BY <2>19, <3>1, <4>2
        <4>3. CASE o # p
          BY <2>20, <4>1, <4>3
        <4>4. QED
          BY <4>2, <4>3
      <3>3. /\ AllCleared(a, v) \in Int /\ AllCleared(a, v)' \in Int
            /\ AllCleared(a, v)' <= AllCleared(a, v) + more
        BY <3>2, AllClearedGrows
      <3>4. QED
        BY <3>1, <3>3
    <2>22. /\ \A v \in Window : shard'[a][v] = IF v < w - Keep THEN 0
                                              ELSE IF v = w THEN total ELSE shard[a][v]
           /\ ~ \E v \in Window : v > w + Keep /\ shard[a][v] > 0
      BY <1>2, <1>4, <1>6, <1>12, ReportMoves
    <2>23. /\ \A v \in Window : v \in Int /\ shard[a][v] \in Int /\ shard[a][v] >= 0
           /\ Keep \in Nat /\ SourceLimit \in Nat
      <3>1. \A v \in Window : v \in Int /\ shard[a][v] \in Int
        <4>1. shard \in [Source -> [Window -> Int]] /\ a \in Source
          BY DEF TypeOK
        <4>2. \A v \in Window : shard[a][v] \in Int
          BY <4>1
        <4>3. QED
          BY <4>2 DEF Window
      <3>2. \A v \in Window : shard[a][v] >= 0
        BY DEF Agreed, Shared
      <3>3. Keep \in Nat /\ SourceLimit \in Nat
        BY FrontGatesAssumption
      <3>4. QED
        BY <3>1, <3>2, <3>3
    <2>24. total = shard[a][w] + delta /\ total > 0 /\ shard'[a][w] = total
      BY <1>6, <1>12, <2>10, <2>22, <2>23
    <2>25. Shared(a)'
      <3> SUFFICES ASSUME NEW v \in Window
                   PROVE  /\ shard'[a][v] >= 0
                          /\ AllCleared(a, v)' <= SourceLimit
                          /\ \/ AllCleared(a, v)' <= shard'[a][v]
                             \/ \E u \in Window : u > v + Keep /\ shard'[a][u] > 0
        BY DEF Shared
      <3>1. /\ AllCleared(a, v) <= SourceLimit
            /\ \/ AllCleared(a, v) <= shard[a][v]
               \/ \E u \in Window : u > v + Keep /\ shard[a][u] > 0
        BY DEF Agreed, Shared
      <3>2. /\ AllCleared(a, v) \in Int /\ AllCleared(a, v)' \in Int
            /\ v # w => AllCleared(a, v)' <= AllCleared(a, v)
            /\ v = w => AllCleared(a, v)' <= AllCleared(a, v) + gain
        BY <2>21
      <3>3. shard'[a][v] >= 0
        BY <2>22, <2>23, <2>24
      <3>4. CASE v = w
        <4>1. AllCleared(a, v) <= shard[a][v]
          BY <2>22, <3>1, <3>4
        <4>2. AllCleared(a, v)' <= AllCleared(a, v) + gain
          BY <3>2, <3>4
        <4>3. CASE total <= SourceLimit
          BY <2>10, <2>16, <2>23, <2>24, <3>2, <3>3, <3>4, <4>1, <4>2, <4>3
        <4>4. CASE total > SourceLimit
          BY <2>10, <2>16, <2>23, <2>24, <3>1, <3>2, <3>3, <3>4, <4>1, <4>2, <4>4
        <4>5. QED
          BY <2>23, <2>24, <4>3, <4>4
      <3>5. CASE v # w
        <4>1. AllCleared(a, v)' <= AllCleared(a, v)
          BY <3>2, <3>5
        <4>2. AllCleared(a, v)' <= SourceLimit
          BY <2>23, <3>1, <3>2, <4>1
        <4>3. CASE v < w - Keep
          <5>1. w > v + Keep /\ shard'[a][w] > 0
            BY <2>23, <2>24, <4>3
          <5>2. QED
            BY <3>3, <4>2, <5>1
        <4>4. CASE ~(v < w - Keep)
          <5>1. shard'[a][v] = shard[a][v]
            BY <2>22, <3>5, <4>4
          <5>2. CASE AllCleared(a, v) <= shard[a][v]
            BY <2>23, <3>2, <3>3, <4>1, <4>2, <5>1, <5>2
          <5>3. ASSUME NEW u \in Window, u > v + Keep, shard[a][u] > 0
                PROVE  \E x \in Window : x > v + Keep /\ shard'[a][x] > 0
            <6>1. CASE u < w - Keep
              <7>1. w > v + Keep
                BY <2>23, <5>3, <6>1
              <7>2. QED
                BY <2>24, <7>1
            <6>2. CASE ~(u < w - Keep)
              <7>1. shard'[a][u] > 0
                BY <2>22, <2>24, <5>3, <6>2
              <7>2. QED
                BY <5>3, <7>1
            <6>3. QED
              BY <6>1, <6>2
          <5>4. QED
            BY <3>1, <3>3, <4>2, <5>2, <5>3
        <4>5. QED
          BY <4>3, <4>4
      <3>6. QED
        BY <3>4, <3>5
    <2>26. \A o \in Org : OneReports(o, a)' /\ Counting(o, a)'
      BY <2>14, <2>15, <2>20
    <2>27. QED
      BY <2>25, <2>26 DEF Agreed
  <1>13. QED
    BY <1>11, <1>12

\* A report that fails: its source is rough from now on, others do not see it.
LEMMA ReportFailsAgrees ==
    ASSUME TypeOK, TypeOK', NEW q \in Req, ReportFails(q), NEW a \in Source \ rough',
           Agreed(a)
    PROVE  Agreed(a)'
  <1>1. /\ req \in [Req -> Request] /\ req[q] \in Request
    BY DEF TypeOK
  <1>2. /\ req' = [req EXCEPT ![q] = [req[q] EXCEPT !.phase = "apply", !.total = -1]]
        /\ rough' = rough \cup {req[q].source}
        /\ source' = source /\ shard' = shard /\ newest' = newest
    BY DEF ReportFails, countVars
  <1>3. a # req[q].source
    BY <1>2
  <1>4. PICK x : x = [req[q] EXCEPT !.phase = "apply", !.total = -1]
    OBVIOUS
  <1>5. x.source = req[q].source
    BY <1>1, <1>4 DEF Request
  <1>6. req' = [req EXCEPT ![q] = x]
    BY <1>2, <1>4
  <1>7. req'[q] = x /\ \A p \in Req : p # q => req'[p] = req[p]
    BY <1>1, <1>6
  <1>8. ASSUME NEW o \in Org PROVE Stays(o, a)
    <2>1. source'[o][a] = source[o][a] /\ newest'[o] >= newest[o]
      BY <1>2, SameNewest
    <2>2. /\ ~Reports(req[q], o, a) /\ ~Reports(req'[q], o, a)
          /\ \A w : ~Counts(req'[q], o, a, w)
      BY <1>3, <1>5, <1>7 DEF Reports, Counts
    <2>3. QED
      BY <1>7, <2>1, <2>2 DEF Stays
  <1>9. QED
    BY <1>2, <1>8, AllStay

LEMMA ApplyMoves ==
    ASSUME TypeOK, NEW q \in Req, Apply(q), NEW now \in SourceType,
           now = [source[req[q].org][req[q].source] EXCEPT !.blocked =
                    @ \/ BlocksSource(source[req[q].org][req[q].source],
                                      req[q].window, req[q].total)]
    PROVE  /\ req[q].phase = "apply" /\ UNCHANGED <<shard, newest, rough>>
           /\ \A p \in Req : p # q => req'[p] = req[p]
           /\ req'[q].kind = req[q].kind /\ req'[q].org = req[q].org
           /\ req'[q].source = req[q].source /\ req'[q].window = req[q].window
           /\ req'[q].phase = "done"
           /\ now.window = req[q].window /\ now.blocked =>
                 req'[q].answer = "rate_limited"
           /\ \A o \in Org, a \in Source : source'[o][a] =
                 IF o = req[q].org /\ a = req[q].source THEN now ELSE source[o][a]
  <1>1. /\ req \in [Req -> Request] /\ req[q] \in Request
        /\ source \in [Org -> [Source -> SourceType]]
    BY DEF TypeOK, SourceType
  <1>2. req[q].org \in Org /\ req[q].source \in Source
    BY <1>1 DEF Request
  <1>3. PICK said : said = IF now.window = req[q].window /\ now.blocked
                           THEN "rate_limited" ELSE req[q].decision
    OBVIOUS
  <1>4. /\ req[q].phase = "apply" /\ UNCHANGED <<shard, newest, rough>>
        /\ source' = [source EXCEPT ![req[q].org][req[q].source] = now]
        /\ req' = [req EXCEPT ![q] = Answered(q, said)]
    BY <1>3 DEF Apply, appHistory
  <1>5. PICK x : x = Answered(q, said)
    OBVIOUS
  <1>6. /\ x.kind = req[q].kind /\ x.org = req[q].org /\ x.source = req[q].source
        /\ x.window = req[q].window /\ x.phase = "done" /\ x.answer = said
    BY <1>1, <1>5 DEF Answered, Request
  <1>7. req' = [req EXCEPT ![q] = x]
    BY <1>4, <1>5
  <1>8. req'[q] = x /\ \A p \in Req : p # q => req'[p] = req[p]
    BY <1>1, <1>7
  <1>9. \A o \in Org, a \in Source : source'[o][a] =
           IF o = req[q].org /\ a = req[q].source THEN now ELSE source[o][a]
    BY <1>1, <1>2, <1>4
  <1>10. QED
    BY <1>3, <1>4, <1>6, <1>8, <1>9

\* A total that is applied blocks the source, or leaves it what was cleared.
LEMMA ApplyAgrees ==
    ASSUME TypeOK, TypeOK', NEW q \in Req, Apply(q), NEW a \in Source, Agreed(a)
    PROVE  Agreed(a)'
  <1>1. /\ req[q] \in Request /\ req[q].org \in Org /\ req[q].window \in Window
        /\ req[q].source \in Source /\ req[q].delta \in Int /\ req[q].total \in Int
    BY DEF TypeOK, Request
  <1>2. PICK w \in Window : w = req[q].window
    BY <1>1
  <1>3. PICK p \in Org : p = req[q].org
    BY <1>1
  <1>4. PICK b \in Source : b = req[q].source
    BY <1>1
  <1>5. PICK total \in Int : total = req[q].total
    BY <1>1
  <1>6. PICK c \in SourceType : c = source[p][b]
    BY SourceFacts
  <1>7. PICK blocks \in BOOLEAN : blocks = (c.blocked \/ BlocksSource(c, w, total))
    OBVIOUS
  <1>8. PICK now : now = [c EXCEPT !.blocked = blocks]
    OBVIOUS
  <1>9. /\ now \in SourceType /\ now.window = c.window
        /\ now.localCount = c.localCount /\ now.reportedCount = c.reportedCount
        /\ now.blocked = blocks
    BY <1>8 DEF SourceType
  <1>10. now = [source[req[q].org][req[q].source] EXCEPT !.blocked =
                  @ \/ BlocksSource(source[req[q].org][req[q].source],
                                    req[q].window, req[q].total)]
    BY <1>2, <1>3, <1>4, <1>5, <1>6, <1>7, <1>8
  <1>11. /\ req[q].phase = "apply" /\ UNCHANGED <<shard, newest>>
         /\ \A i \in Req : i # q => req'[i] = req[i]
         /\ req'[q].kind = req[q].kind /\ req'[q].org = req[q].org
         /\ req'[q].source = req[q].source /\ req'[q].window = req[q].window
         /\ req'[q].phase = "done"
         /\ now.window = w /\ now.blocked => req'[q].answer = "rate_limited"
         /\ \A o \in Org, d \in Source :
               source'[o][d] = IF o = p /\ d = b THEN now ELSE source[o][d]
    <2>1. now \in SourceType
      BY <1>9
    <2>2. /\ req[q].phase = "apply" /\ UNCHANGED <<shard, newest, rough>>
          /\ \A i \in Req : i # q => req'[i] = req[i]
          /\ req'[q].kind = req[q].kind /\ req'[q].org = req[q].org
          /\ req'[q].source = req[q].source /\ req'[q].window = req[q].window
          /\ req'[q].phase = "done"
          /\ now.window = req[q].window /\ now.blocked =>
                req'[q].answer = "rate_limited"
          /\ \A o \in Org, d \in Source : source'[o][d] =
                IF o = req[q].org /\ d = req[q].source THEN now ELSE source[o][d]
      BY <1>10, <2>1, ApplyMoves
    <2>3. QED
      BY <1>2, <1>3, <1>4, <2>2
  <1>12. \A o \in Org : newest'[o] >= newest[o]
    BY <1>11, SameNewest
  <1>13. ASSUME NEW o \in Org, ~(o = p /\ a = b) PROVE Stays(o, a)
    <2>1. source'[o][a] = source[o][a]
      BY <1>11, <1>13
    <2>2. /\ ~Reports(req[q], o, a) /\ ~Reports(req'[q], o, a)
          /\ \A v : ~Counts(req'[q], o, a, v)
      BY <1>3, <1>4, <1>11, <1>13 DEF Reports, Counts
    <2>3. QED
      BY <1>11, <1>12, <2>1, <2>2 DEF Stays
  <1>14. CASE a # b
    BY <1>11, <1>13, <1>14, AllStay
  <1>15. CASE a = b
    <2>1. OneReports(p, a) /\ Counting(p, a)
      BY DEF Agreed
    <2>2. source[p][a] = c /\ source'[p][a] = now
      BY <1>6, <1>11, <1>15
    <2>3. Reports(req[q], p, a)
      BY <1>3, <1>4, <1>11, <1>15 DEF Reports
    <2>4. \A i \in Req : Reports(req[i], p, a) => i = q
      BY <2>1, <2>3 DEF OneReports
    <2>5. \A i \in Req : ~Reports(req'[i], p, a)
      <3>1. ~Reports(req'[q], p, a)
        BY <1>11 DEF Reports
      <3>2. QED
        BY <1>11, <2>4, <3>1
    <2>6. PICK n \in Nat : n = Admitted(p, a, c.window)
      BY AdmittedNat
    <2>7. PICK m \in Nat : m = Admitted(p, a, c.window)'
      BY AdmittedNat
    <2>8. Reporting(req[q], c, n)
      BY <2>1, <2>2, <2>3, <2>6 DEF OneReports
    <2>9. /\ c.window = w /\ n <= c.localCount - 1 /\ c.reportedCount = c.localCount
          /\ c.reportedCount \in Nat /\ c.localCount \in Nat
          /\ ReportInterval \in Nat \ {0} /\ SourceLimit \in Nat
      BY <1>2, <2>8, FrontGatesAssumption DEF Reporting, SourceType
    <2>10. blocks <=> c.blocked \/ total > SourceLimit
      BY <1>7, <2>9 DEF BlocksSource
    <2>11. \A v : v # w \/ blocks =>
              /\ Admitted(p, a, v)' <= Admitted(p, a, v)
              /\ Admitted(p, a, v)' \in Nat /\ Admitted(p, a, v) \in Nat
      <3>1. ASSUME NEW v, v # w \/ blocks
            PROVE  Admitted(p, a, v)' <= Admitted(p, a, v)
        <4>1. ~Counts(req'[q], p, a, v)
          BY <1>2, <1>9, <1>11, <2>9, <3>1 DEF Counts
        <4>2. \A i \in Req : Counts(req'[i], p, a, v) => Counts(req[i], p, a, v)
          BY <1>11, <4>1
        <4>3. QED
          BY <4>2, AdmittedMoves
      <3>2. QED
        BY <3>1, AdmittedNat
    <2>12. m <= c.localCount
      <3>1. m <= n + 1
        BY <1>11, <2>6, <2>7, AdmittedMoves
      <3>2. QED
        BY <2>9, <3>1
    <2>13. Admitted(p, a, source[p][a].window)' = m
      BY <1>9, <2>2, <2>7 DEF Admitted
    <2>14. OneReports(p, a)'
      BY <2>5 DEF OneReports
    <2>15. Counting(p, a)'
      <3>1. now.window <= newest'[p]
        BY <1>9, <1>11, <2>1, <2>2 DEF Counting
      <3>2. ASSUME NEW v \in Window, v > now.window PROVE Admitted(p, a, v)' = 0
        <4>1. v # w
          BY <1>9, <2>9, <3>2 DEF Window
        <4>2. Admitted(p, a, v) = 0
          BY <1>9, <2>1, <2>2, <3>2 DEF Counting
        <4>3. QED
          BY <2>11, <4>1, <4>2
      <3>3. c # UnseenSource
        BY <2>9 DEF UnseenSource, Window
      <3>4. /\ c.window \in Window /\ c.reportedCount \in 1 .. c.localCount
            /\ c.localCount - c.reportedCount < ReportInterval
        BY <2>1, <2>2, <3>3 DEF Counting
      <3>5. QED
        BY <1>9, <2>2, <2>12, <2>13, <3>1, <3>2, <3>4 DEF Counting
    <2>16. ASSUME NEW v \in Window PROVE Cleared(p, a, v)' <= Cleared(p, a, v)
      <3>1. Told(Admitted(p, a, v)) <= Cleared(p, a, v)
        BY <2>1, Covers
      <3>2. PICK k \in Nat : k = Admitted(p, a, v)
        BY AdmittedNat
      <3>3. PICK l \in Nat : l = Admitted(p, a, v)'
        BY AdmittedNat
      <3>4. OnWay(req', p, a) = 0
        BY <2>5, OnWayNone DEF Uncleared
      <3>5. Cleared(p, a, v)' = ClearedOf(now, l, 0, v)
        BY <2>2, <3>3, <3>4 DEF Cleared
      <3>6. Cleared(p, a, v) \in Int /\ Cleared(p, a, v)' \in Int
        BY ClearedInt
      <3>7. CASE v # w \/ blocks
        <4>1. Cleared(p, a, v)' = Told(l)
          BY <1>9, <2>9, <3>5, <3>7 DEF ClearedOf
        <4>2. l <= k
          BY <2>11, <3>2, <3>3, <3>7
        <4>3. Told(l) <= Told(k) /\ Told(l) \in Nat /\ Told(k) \in Nat
          BY <4>2, ToldFacts
        <4>4. QED
          BY <3>1, <3>2, <3>6, <4>1, <4>3
      <3>8. CASE v = w /\ ~blocks
        <4>1. Cleared(p, a, v)' = c.reportedCount - 0
          BY <1>9, <2>9, <3>5, <3>8 DEF ClearedOf
        <4>2. OnWay(req, p, a) = 0
          <5>1. \A i \in Req : ~Uncleared(req[i], p, a)
            BY <1>5, <1>11, <2>4, <2>9, <2>10, <3>8 DEF Uncleared
          <5>2. QED
            BY <5>1, OnWayNone
        <4>3. Cleared(p, a, v) = c.reportedCount - 0
          BY <2>2, <2>9, <2>10, <3>8, <4>2 DEF Cleared, ClearedOf
        <4>4. QED
          BY <3>6, <4>1, <4>3
      <3>9. QED
        BY <3>7, <3>8
    <2>17. ASSUME NEW o \in Org
           PROVE  /\ OneReports(o, a)' /\ Counting(o, a)'
                  /\ \A v \in Window : Cleared(o, a, v)' <= Cleared(o, a, v)
      <3>1. CASE o = p
        BY <2>14, <2>15, <2>16, <3>1
      <3>2. CASE o # p
        <4>1. Stays(o, a) /\ OneReports(o, a) /\ Counting(o, a)
          BY <1>13, <3>2 DEF Agreed
        <4>2. QED
          BY <4>1, StaysSame
      <3>3. QED
        BY <3>1, <3>2
    <2>18. shard'[a] = shard[a]
      BY <1>11
    <2>19. Shared(a)'
      BY <2>17, <2>18, SharedKept DEF Agreed
    <2>20. QED
      BY <2>17, <2>19 DEF Agreed
  <1>16. QED
    BY <1>14, <1>15

\* An eviction forgets counts, but only of sources that are rough then.
LEMMA EvictAgrees ==
    ASSUME TypeOK, TypeOK', NEW e \in Org, Evict(e), NEW a \in Source \ rough',
           Agreed(a)
    PROVE  Agreed(a)'
  <1>1. /\ source \in [Org -> [Source -> SourceType]]
        /\ \A q \in Req : req[q] \in Request
    BY DEF TypeOK, SourceType
  <1>2. /\ source' = [source EXCEPT ![e] = [b \in Source |-> UnseenSource]]
        /\ req' = [q \in Req |->
              IF req[q].phase \in {"report", "apply"} /\ req[q].org = e
              THEN Answered(q, "degraded") ELSE req[q]]
        /\ rough' = rough \cup {b \in Source : source[e][b] # UnseenSource}
        /\ shard' = shard /\ newest' = newest
    BY DEF Evict
  <1>3. a \in Source /\ source[e][a] = UnseenSource
    BY <1>2
  <1>4. \A q \in Req : ~Reports(req[q], e, a)
    <2> SUFFICES ASSUME NEW q \in Req, Reports(req[q], e, a) PROVE FALSE
      OBVIOUS
    <2>1. OneReports(e, a)
      BY DEF Agreed
    <2>2. source[e][a].window \in Window
      BY <2>1 DEF OneReports, Reporting
    <2>3. QED
      BY <1>3, <2>2 DEF UnseenSource, Window
  <1>5. ASSUME NEW q \in Req
        PROVE  \/ req'[q] = req[q]
               \/ /\ req[q].phase \in {"report", "apply"} /\ req[q].org = e
                  /\ req'[q].phase = "done" /\ req'[q].answer = "degraded"
                  /\ req'[q].org = e /\ req'[q].source = req[q].source
    <2>1. CASE req[q].phase \in {"report", "apply"} /\ req[q].org = e
      <3>1. PICK x : x = Answered(q, "degraded")
        OBVIOUS
      <3>2. /\ x.phase = "done" /\ x.answer = "degraded"
            /\ x.org = req[q].org /\ x.source = req[q].source
        BY <1>1, <3>1 DEF Answered, Request
      <3>3. req'[q] = x
        BY <1>2, <2>1, <3>1
      <3>4. QED
        BY <2>1, <3>2, <3>3
    <2>2. CASE ~(req[q].phase \in {"report", "apply"} /\ req[q].org = e)
      BY <1>2, <2>2
    <2>3. QED
      BY <2>1, <2>2
  <1>6. ASSUME NEW o \in Org PROVE Stays(o, a)
    <2>1. source'[o][a] = source[o][a]
      <3>1. CASE o = e
        BY <1>1, <1>2, <1>3, <3>1
      <3>2. CASE o # e
        BY <1>1, <1>2, <3>2
      <3>3. QED
        BY <3>1, <3>2
    <2>2. newest'[o] >= newest[o]
      BY <1>2, SameNewest
    <2>3. ASSUME NEW q \in Req
          PROVE  /\ Reports(req'[q], o, a) <=> Reports(req[q], o, a)
                 /\ Reports(req[q], o, a) => req'[q] = req[q]
                 /\ \A w : Counts(req'[q], o, a, w) => Counts(req[q], o, a, w)
      <3>1. CASE req'[q] = req[q]
        BY <3>1
      <3>2. CASE /\ req[q].phase \in {"report", "apply"} /\ req[q].org = e
                 /\ req'[q].phase = "done" /\ req'[q].answer = "degraded"
                 /\ req'[q].org = e /\ req'[q].source = req[q].source
        <4>1. ~Reports(req[q], o, a)
          BY <1>4, <3>2 DEF Reports
        <4>2. ~Reports(req'[q], o, a) /\ \A w : ~Counts(req'[q], o, a, w)
          BY <3>2 DEF Reports, Counts
        <4>3. QED
          BY <4>1, <4>2
      <3>3. QED
        BY <1>5, <3>1, <3>2
    <2>4. QED
      BY <2>1, <2>2, <2>3 DEF Stays
  <1>7. QED
    BY <1>2, <1>6, AllStay

LEMMA PromptInit == Init => Prompt
  <1> SUFFICES ASSUME Init PROVE Prompt
    OBVIOUS
  <1>1. /\ source = [o \in Org |-> [a \in Source |-> UnseenSource]]
        /\ shard = [a \in Source |-> [w \in Window |-> 0]]
        /\ req = [q \in Req |-> Idle]
        /\ newest = [x \in Org \cup Limiter |-> 0]
    BY DEF Init
  <1>2. \A q \in Req : req[q].answer = "none" /\ req[q].phase = "idle"
    BY <1>1 DEF Idle
  <1>3. \A o, a, w : Admitted(o, a, w) = 0
    <2>1. ASSUME NEW o, NEW a, NEW w PROVE Admitted(o, a, w) = 0
      <3>1. {q \in Req : /\ req[q].kind = "app"
                         /\ req[q].source = a /\ req[q].org = o
                         /\ req[q].window = w
                         /\ req[q].answer = "admitted"} = {}
        BY <1>2
      <3>2. QED
        BY <3>1, FS_EmptySet DEF Admitted
    <2>2. QED
      BY <2>1
  <1>4. ASSUME NEW o \in Org, NEW a \in Source
        PROVE  OneReports(o, a) /\ Counting(o, a)
    <2>1. source[o][a] = UnseenSource /\ newest[o] = 0
      BY <1>1
    <2>2. OneReports(o, a)
      BY <1>2 DEF OneReports, Reports
    <2>3. source[o][a].window <= newest[o]
      BY <2>1 DEF UnseenSource
    <2>4. QED
      BY <1>3, <2>1, <2>2, <2>3 DEF Counting
  <1>5. ASSUME NEW a \in Source PROVE Shared(a)
    <2> SUFFICES ASSUME NEW w \in Window
                 PROVE  /\ shard[a][w] >= 0
                        /\ AllCleared(a, w) <= SourceLimit
                        /\ AllCleared(a, w) <= shard[a][w]
      BY DEF Shared
    <2>1. ASSUME NEW o \in Org PROVE Cleared(o, a, w) = 0
      <3>1. source[o][a].window # w
        BY <1>1 DEF UnseenSource, Window
      <3>2. Cleared(o, a, w) = Told(0)
        BY <1>3, <3>1 DEF Cleared, ClearedOf
      <3>3. QED
        BY <3>2, ToldNone
    <2>2. PICK f : f = [o \in Org |-> Cleared(o, a, w)]
      OBVIOUS
    <2>3. \A o \in Org : f[o] = 0
      BY <2>1, <2>2
    <2>4. SumFunctionOnSet(f, Org) = 0
      BY <2>3, SumOfNothing, FrontGatesAssumption
    <2>5. AllCleared(a, w) = 0
      BY <2>2, <2>4 DEF AllCleared
    <2>6. shard[a][w] = 0 /\ SourceLimit \in Nat
      BY <1>1, FrontGatesAssumption
    <2>7. QED
      BY <2>5, <2>6
  <1>6. QED
    BY <1>4, <1>5 DEF Prompt, Agreed

LEMMA PromptStep == ASSUME IInv, Prompt, [Next]_vars PROVE Prompt'
  <1>1. TypeOK /\ TypeOK'
    <2>1. IInv'
      BY NextStep
    <2>2. QED
      BY <2>1 DEF IInv
  <1>2. SUFFICES ASSUME NEW a \in Source \ rough' PROVE Agreed(a)'
    BY DEF Prompt
  <1>3. rough \subseteq rough' => Agreed(a)
    BY DEF Prompt
  <1>4. CASE UNCHANGED vars
    <2>1. UNCHANGED <<source, shard, req, newest, rough>>
      BY <1>4 DEF vars, countVars, appHistory
    <2>2. \A o \in Org : newest'[o] >= newest[o]
      BY <1>1, <2>1, SameNewest
    <2>3. \A o \in Org : Stays(o, a)
      BY <2>1, <2>2 DEF Stays
    <2>4. QED
      BY <1>1, <1>3, <2>1, <2>3, AllStay
  <1>5. CASE Tick
    <2>1. UNCHANGED <<source, shard, req, newest, rough>>
      BY <1>5 DEF Tick, countVars, appHistory
    <2>2. \A o \in Org : newest'[o] >= newest[o]
      BY <1>1, <2>1, SameNewest
    <2>3. \A o \in Org : Stays(o, a)
      BY <2>1, <2>2 DEF Stays
    <2>4. QED
      BY <1>1, <1>3, <2>1, <2>3, AllStay
  <1>6. ASSUME NEW o \in Org, Evict(o) PROVE Agreed(a)'
    <2>1. rough \subseteq rough'
      BY <1>6 DEF Evict
    <2>2. QED
      BY <1>1, <1>3, <1>6, <2>1, EvictAgrees
  <1>7. ASSUME NEW q \in Req, Invoke(q) \/ Attempt(q) \/ Unreached(q)
        PROVE  Agreed(a)'
    <2>1. rough' = rough
      BY <1>7 DEF Invoke, Attempt, Unreached, appHistory
    <2>2. /\ Aside(q) /\ UNCHANGED <<source, shard>>
          /\ \A o \in Org : newest'[o] >= newest[o]
      BY <1>1, <1>7, BeginsAside
    <2>3. QED
      BY <1>1, <1>3, <2>1, <2>2, AsideAgrees
  <1>8. ASSUME NEW q \in Req,
               \/ CheckSource(q) \/ CheckIdentifier(q) \/ BucketerThrows(q)
               \/ LimiterFails(q) \/ Handle(q)
               \/ CountDenial(q) \/ EvidenceUnrecorded(q) \/ EvidenceAbsent(q)
        PROVE  Agreed(a)'
    <2>1. rough' = rough
      BY <1>8 DEF CheckSource, CheckIdentifier, BucketerThrows, LimiterFails,
                  Handle, CountDenial, EvidenceUnrecorded, EvidenceAbsent, appHistory
    <2>2. /\ Aside(q) /\ UNCHANGED <<source, shard>>
          /\ \A o \in Org : newest'[o] >= newest[o]
      BY <1>1, <1>8, AttemptsAside
    <2>3. QED
      BY <1>1, <1>3, <2>1, <2>2, AsideAgrees
  <1>9. ASSUME NEW q \in Req, Admit(q) PROVE Agreed(a)'
    <2>1. rough \subseteq rough'
      BY <1>9 DEF Admit
    <2>2. QED
      BY <1>1, <1>3, <1>9, <2>1, AdmitAgrees
  <1>10. ASSUME NEW q \in Req, Report(q) PROVE Agreed(a)'
    <2>1. rough \subseteq rough'
      BY <1>10 DEF Report
    <2>2. QED
      BY <1>1, <1>3, <1>10, <2>1, ReportAgrees
  <1>11. ASSUME NEW q \in Req, ReportFails(q) PROVE Agreed(a)'
    <2>1. rough \subseteq rough'
      BY <1>11 DEF ReportFails
    <2>2. QED
      BY <1>1, <1>3, <1>11, <2>1, ReportFailsAgrees
  <1>12. ASSUME NEW q \in Req, Apply(q) PROVE Agreed(a)'
    <2>1. rough' = rough
      BY <1>12 DEF Apply, appHistory
    <2>2. QED
      BY <1>1, <1>3, <1>12, <2>1, ApplyAgrees
  <1>13. QED
    BY <1>4, <1>5, <1>6, <1>7, <1>8, <1>9, <1>10, <1>11, <1>12 DEF Next

\* Many coordinators share a source's limit: beyond it they admit together no
\* more than each may hold back between two reports, as long as no report
\* overlaps another request of the source, fails, comes late or is forgotten.
THEOREM SourceHeld == Spec => []SourceHeldWhenPrompt
  <1>1. IInv /\ Prompt /\ [Next]_vars => (IInv /\ Prompt)'
    BY NextStep, PromptStep
  <1>2. ASSUME IInv, Prompt PROVE SourceHeldWhenPrompt
    <2> SUFFICES ASSUME NEW a \in Source \ rough, NEW w \in Window
                 PROVE  SumFunctionOnSet([o \in Org |-> Admitted(o, a, w)], Org)
                          <= SourceLimit + SumFunctionOnSet(
                               [o \in Org |-> Unreported(Admitted(o, a, w))], Org)
      BY DEF SourceHeldWhenPrompt
    <2>1. TypeOK /\ Agreed(a)
      BY <1>2 DEF IInv, Prompt
    <2>2. PICK f : f = [o \in Org |-> Admitted(o, a, w)]
      OBVIOUS
    <2>3. PICK g : g = [o \in Org |-> Cleared(o, a, w)]
      OBVIOUS
    <2>4. PICK h : h = [o \in Org |-> Unreported(Admitted(o, a, w))]
      OBVIOUS
    <2>5. ASSUME NEW o \in Org
          PROVE  /\ f[o] \in Int /\ g[o] \in Int /\ h[o] \in Int
                 /\ f[o] <= g[o] + h[o]
      <3>1. PICK n \in Nat : n = Admitted(o, a, w)
        BY AdmittedNat
      <3>2. Told(n) <= Cleared(o, a, w) /\ Cleared(o, a, w) \in Int
        <4>1. OneReports(o, a) /\ Counting(o, a)
          BY <2>1 DEF Agreed
        <4>2. QED
          BY <2>1, <3>1, <4>1, Covers, ClearedNow
      <3>3. Unreported(n) \in Nat /\ Told(n) \in Nat /\ Told(n) = n - Unreported(n)
        BY ToldFacts DEF Told
      <3>4. f[o] = n /\ g[o] = Cleared(o, a, w) /\ h[o] = Unreported(n)
        BY <2>2, <2>3, <2>4, <3>1
      <3>5. QED
        BY <3>2, <3>3, <3>4
    <2>6. IsFiniteSet(Org)
      BY FrontGatesAssumption
    <2>7. /\ SumFunctionOnSet(f, Org) \in Int /\ SumFunctionOnSet(g, Org) \in Int
          /\ SumFunctionOnSet(h, Org) \in Int
          /\ SumFunctionOnSet(f, Org)
                <= SumFunctionOnSet(g, Org) + SumFunctionOnSet(h, Org)
      BY <2>5, <2>6, SumAdds
    <2>8. SumFunctionOnSet(g, Org) <= SourceLimit
      <3>1. AllCleared(a, w) <= SourceLimit
        BY <2>1 DEF Agreed, Shared
      <3>2. QED
        BY <2>3, <3>1 DEF AllCleared
    <2>9. SourceLimit \in Nat
      BY FrontGatesAssumption
    <2>10. SumFunctionOnSet(f, Org) <= SourceLimit + SumFunctionOnSet(h, Org)
      BY <2>7, <2>8, <2>9
    <2>11. QED
      BY <2>2, <2>4, <2>10
  <1>3. QED
    BY InitIInv, PromptInit, <1>1, <1>2, PTL DEF Spec
=============================================================================
