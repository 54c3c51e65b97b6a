----------------------------- MODULE FrontGates -----------------------------
(***************************************************************************)
(* The two gates before everything else.                                   *)
(*                                                                         *)
(* A request of an App is admitted by the coordinator of its Organization. *)
(* The coordinator counts, per window, the principal, the Organization and *)
(* the source address.  The first two are its own; a source is seen by     *)
(* many Organizations, so what a coordinator counted of it is reported to  *)
(* a shard, whose total may block the source.  Counts are memory and are   *)
(* lost with it; that a subject went over its limit is a row and is not.   *)
(*                                                                         *)
(* An attempt to log in, to log out, or to ask for health has no principal *)
(* yet.  It is counted per source and, where a login names an identifier,  *)
(* per bucket of identifiers, by the limiter of the runtime that serves it.*)
(* Whatever the handler says is reduced to the answers its entry point     *)
(* declares, and every refusal is counted as evidence, or the loss of that *)
(* evidence is announced.                                                  *)
(*                                                                         *)
(* Time is told in rate windows.  A request reads the clock once, when it  *)
(* begins, and may reach the counters windows later, when they already     *)
(* count a later one: it slips.                                            *)
(***************************************************************************)
EXTENDS Integers, FiniteSets, Functions

CONSTANTS
    Org,               \* Organizations, each with a coordinator
    Actor,             \* principals
    Source,            \* hashed source addresses, the unknown one included
    ActorLimit,        \* RATE_LIMIT_PER_WINDOW.actor
    OrganizationLimit, \* RATE_LIMIT_PER_WINDOW.organization
    SourceLimit,       \* RATE_LIMIT_PER_WINDOW.source
    ReportInterval,    \* SOURCE_REPORT_INTERVAL
    Keep,              \* windows for which a shard keeps its totals
    EntryPoint,        \* entry points that are asked, of the five
    EntryLimit,        \* EntryLimit[e]: sourceLimitPerWindow
    Bucket,            \* buckets of identifiers
    IdentifierLimit,   \* PRE_AUTH_IDENTIFIER_LIMIT_PER_WINDOW
    Limiter,           \* limiters, one for each runtime that was composed
    Setups,            \* which ports the runtimes may be composed with, and
                       \* bound: which kinds of requests there are with them
    Req,               \* requests; each is served once
    LastWindow,        \* bound: the clock runs over 0..LastWindow
    MaxEvictions,      \* bound: how often a coordinator is evicted
    MaxFaults          \* bound: how many calls fail

Delegated == {"login.start", "login.complete", "session.refresh",
              "session.revoke"}

ASSUME FrontGatesAssumption ==
    /\ IsFiniteSet(Org) /\ IsFiniteSet(Req)
    /\ Org # {} /\ Actor # {} /\ Source # {} /\ EntryPoint # {} /\ Limiter # {}
    /\ "organization" \notin Actor
    /\ Source \cap Bucket = {}
    /\ Org \cap Limiter = {}
    /\ ActorLimit \in Nat /\ OrganizationLimit \in Nat /\ SourceLimit \in Nat
    /\ ReportInterval \in Nat \ {0}
    /\ Keep \in Nat
    /\ EntryPoint \subseteq Delegated \cup {"health"}
    /\ EntryLimit \in [EntryPoint -> Nat]
    /\ IdentifierLimit \in Nat
    /\ Setups \subseteq
          (SUBSET {"evidence", "bucketer"}) \X SUBSET {"app", "attempt"}
    /\ LastWindow \in Nat
    /\ MaxEvictions \in Nat
    /\ MaxFaults \in Nat

Window == 0 .. LastWindow

\* What one coordinator counts requests by.
Subject == Actor \cup {"organization"}

limit(s) == IF s = "organization" THEN OrganizationLimit ELSE ActorLimit

\* What one limiter counts attempts by, at each entry point.
Key == Source \cup Bucket

VARIABLES
    clock,     \* the present window
    rate,      \* rate[o][s]: RateSubjectState, in memory
    block,     \* block[o][s]: window_start of its row in rate_block, or -1
    source,    \* source[o][a]: SourceSubjectState, in memory
    shard,     \* shard[a][w]: the row of source_count, 0 if there is none
    tries,     \* tries[l][e][k]: PreAuthRateState of limiter l
    wired,     \* the ports the runtimes were composed with
    kinds,     \* the kinds of requests there are
    notices,   \* REPORTED_CONFIGURATION_CAUSES
    req,       \* req[q]: the request q
    newest,    \* history: the latest window a coordinator or limiter has seen
    slips,     \* history: how often one saw an earlier window after a later
    passed,    \* history: passed[o][s][w], let through by all three levels
    allowance, \* history: allowance[o][s][w], the limit, and once more for
               \* each eviction that forgot a subject below its limit
    reached,   \* history: reached[l][e][k][w], attempts let through
    rough,     \* history: sources whose reports overlapped, failed, were
               \* late or forgotten
    evictions, \* how many evictions there were
    faults     \* how many calls have failed

countVars == <<rate, block, source, shard>>
appHistory == <<passed, allowance, rough>>
world == <<wired, kinds>>
attemptVars == <<tries, notices, reached>>
vars == <<clock, countVars, appHistory, attemptVars, world, req, newest, slips,
          evictions, faults>>

-----------------------------------------------------------------------------
Unseen == [window |-> -1, count |-> 0, exceededPersisted |-> FALSE]
UnseenSource == [window |-> -1, localCount |-> 0, reportedCount |-> 0,
                 blocked |-> FALSE]
Untried == [window |-> -1, count |-> 0]

\* PreAuthOutcomeKind, and the answers an attempt may get besides.
OutcomeKind == {"acknowledged", "issued", "cleared", "refused", "unavailable"}
Refusal == {"refused", "rate_limited", "unavailable"}

\* The registry: which answers an entry point declares, and which of them a
\* failure becomes.
outcomes(e) == CASE e = "login.start" -> {"acknowledged"}
                 [] e = "session.revoke" -> {"cleared"}
                 [] e = "health" -> {"acknowledged"}
                 [] OTHER -> {"issued", "refused", "unavailable"}
collapseTo(e) == CASE e = "login.start" -> "acknowledged"
                   [] e = "session.revoke" -> "cleared"
                   [] e = "health" -> "acknowledged"
                   [] OTHER -> "refused"

\* createLoginHandlers registers no handler for the refresh of a session.
handlers == Delegated \ {"session.refresh"}

\* The handlers that declare an identifierField, the e-mail address of both
\* steps of the login.
identifierField == {"login.start", "login.complete"}

Phase == {"idle", "admit", "report", "apply", "source", "identifier",
          "handle", "evidence", "done"}

\* window: of the clock reading the request is judged by; delta, total: what
\* is reported to the shard, and what it answered (-1: nothing); decision:
\* what the coordinator or the entry point is about to answer.
Request == [phase : Phase, kind : {"none", "app", "attempt"}, window : Window,
            org : Org, actor : Actor, source : Source, delta : Int, total : Int,
            entry : EntryPoint, limiter : Limiter,
            decision : {"none", "admitted"} \cup Refusal \cup OutcomeKind,
            trace : {"none", "counted", "announced"},
            answer : {"none", "admitted", "degraded", "static", "invalid",
                      "internal"}
                        \cup Refusal \cup OutcomeKind]

Idle == [phase |-> "idle", kind |-> "none", window |-> 0,
         org |-> CHOOSE o \in Org : TRUE, actor |-> CHOOSE u \in Actor : TRUE,
         source |-> CHOOSE a \in Source : TRUE, delta |-> 0, total |-> -1,
         entry |-> CHOOSE e \in EntryPoint : TRUE,
         limiter |-> CHOOSE l \in Limiter : TRUE, decision |-> "none",
         trace |-> "none", answer |-> "none"]

Fault == faults < MaxFaults /\ faults' = faults + 1

Answered(q, answer) == [req[q] EXCEPT !.phase = "done", !.answer = answer]

\* x sees window w: it slips if x has seen a later one.
Sees(x, w) ==
    /\ newest' = [newest EXCEPT ![x] = IF w > @ THEN w ELSE @]
    /\ slips' = [slips EXCEPT ![x] = IF w < newest[x] THEN @ + 1 ELSE @]

-----------------------------------------------------------------------------
\* Requests arrive, and time passes.

\* invokeAction of a resolved principal: the coordination handle is opened.
Invoke(q) ==
    /\ req[q].phase = "idle" /\ "app" \in kinds
    /\ \E o \in Org, u \in Actor, a \in Source :
          req' = [req EXCEPT ![q] = [Idle EXCEPT !.phase = "admit",
                    !.kind = "app", !.window = clock, !.org = o,
                    !.actor = u, !.source = a]]
    /\ UNCHANGED <<clock, countVars, appHistory, attemptVars, world, newest,
                   slips, evictions, faults>>

\* handleRequest matched an entry point; some runtime's limiter will count it.
Attempt(q) ==
    /\ req[q].phase = "idle" /\ "attempt" \in kinds
    /\ \E e \in EntryPoint, a \in Source, l \in Limiter :
          req' = [req EXCEPT ![q] = [Idle EXCEPT !.phase = "source",
                    !.kind = "attempt", !.window = clock, !.entry = e,
                    !.source = a, !.limiter = l]]
    /\ UNCHANGED <<clock, countVars, appHistory, attemptVars, world, newest,
                   slips, evictions, faults>>

Tick ==
    /\ clock < LastWindow
    /\ clock' = clock + 1
    /\ UNCHANGED <<countVars, appHistory, attemptVars, world, req, newest,
                   slips, evictions, faults>>

-----------------------------------------------------------------------------
\* The coordinator: turn one of handleAdmit.

\* A subject counts one more request of window w; once over its limit it
\* counts no further.
Counted(s, r, w) ==
    LET n == IF r.window = w THEN r.count ELSE 0
        c == IF n <= limit(s) THEN n + 1 ELSE n
    IN  [window |-> w, count |-> c,
         exceededPersisted |-> c > limit(s)]

OverLimit(s, r) == r.count > limit(s)

\* persistRate: a subject that has just gone over gets its row.
Persisted(s, old, new, row) ==
    IF OverLimit(s, new)
        /\ ~(old.window = new.window /\ old.exceededPersisted)
    THEN new.window ELSE row

\* The source is counted whether or not the other levels let the request by.
SourceCounted(c, w) ==
    LET old == IF c.window = w THEN c
               ELSE [UnseenSource EXCEPT !.window = w]
        n == old.localCount + 1
    IN  [old EXCEPT !.localCount = n, !.blocked = @ \/ n > SourceLimit]

\* Mutant: the first request of a window is not reported.
DueLater(c) == c.localCount - c.reportedCount >= ReportInterval

\* A report is due with the first request of a window, and then after so many.
Due(c) ==
    \/ c.localCount = 1
    \/ c.localCount - c.reportedCount >= ReportInterval

\* Reports of a source that are on their way from a coordinator.
UnderWay(o, a) == \E q \in Req : /\ req[q].phase \in {"report", "apply"}
                                 /\ req[q].org = o /\ req[q].source = a

Admit(q) ==
    /\ req[q].phase = "admit"
    /\ LET o == req[q].org
           a == req[q].source
           w == req[q].window
           mine == {req[q].actor, "organization"}
           counted == [s \in Subject |-> IF s \in mine
                                         THEN Counted(s, rate[o][s], w)
                                         ELSE rate[o][s]]
           seen == SourceCounted(source[o][a], w)
           refused == seen.blocked \/ \E s \in mine : OverLimit(s, counted[s])
           decision == IF refused THEN "rate_limited" ELSE "admitted"
       IN  /\ rate' = [rate EXCEPT ![o] = counted]
           /\ block' = [block EXCEPT ![o] =
                 [s \in Subject |-> IF s \in mine
                       THEN Persisted(s, rate[o][s], counted[s], block[o][s])
                       ELSE block[o][s]]]
           /\ source' = [source EXCEPT ![o][a] =
                 IF Due(seen) THEN [seen EXCEPT !.reportedCount = seen.localCount]
                 ELSE seen]
           /\ req' = [req EXCEPT ![q] =
                 IF Due(seen)
                 THEN [@ EXCEPT !.phase = "report", !.decision = decision,
                          !.delta = seen.localCount - seen.reportedCount]
                 ELSE [Answered(q, decision) EXCEPT !.decision = decision]]
           /\ passed' = IF refused THEN passed
                 ELSE [passed EXCEPT ![o] = [s \in Subject |->
                         IF s \in mine THEN [passed[o][s] EXCEPT ![w] = @ + 1]
                         ELSE passed[o][s]]]
           /\ rough' = IF UnderWay(o, a) \/ w < newest[o] THEN rough \cup {a}
                       ELSE rough
           /\ Sees(o, w)
    /\ UNCHANGED <<clock, shard, allowance, attemptVars, world, evictions,
                   faults>>

\* The coordinator is not reached, or its answer is not: the pipeline goes on
\* in degraded mode, and announces so.
Unreached(q) ==
    /\ req[q].phase = "admit"
    /\ Fault
    /\ req' = [req EXCEPT ![q] = Answered(q, "degraded")]
    /\ UNCHANGED <<clock, countVars, appHistory, attemptVars, world, newest,
                   slips, evictions>>

-----------------------------------------------------------------------------
\* The shard of a source, and what a coordinator makes of its answer.

\* handleSourceCount: adds the delta, returns the total, drops old windows.
Report(q) ==
    /\ req[q].phase = "report"
    /\ LET a == req[q].source
           w == req[q].window
           total == shard[a][w] + req[q].delta
       IN  /\ shard' = [shard EXCEPT ![a] =
                 [v \in Window |-> IF v < w - Keep THEN 0
                                   ELSE IF v = w THEN total ELSE shard[a][v]]]
           /\ req' = [req EXCEPT ![q] = [req[q] EXCEPT !.phase = "apply", !.total = total]]
           /\ rough' = IF \E v \in Window : v > w + Keep /\ shard[a][v] > 0
                       THEN rough \cup {a} ELSE rough
    /\ UNCHANGED <<clock, rate, block, source, passed, allowance, attemptVars,
                   world, newest, slips, evictions, faults>>

\* The shard cannot be reached, or its answer is lost after it has counted.
ReportFails(q) ==
    /\ req[q].phase \in {"report", "apply"}
    /\ req[q].phase = "apply" => req[q].total # -1
    /\ Fault
    /\ req' = [req EXCEPT ![q] = [req[q] EXCEPT !.phase = "apply", !.total = -1]]
    /\ rough' = rough \cup {req[q].source}
    /\ UNCHANGED <<clock, countVars, passed, allowance, attemptVars, world,
                   newest, slips, evictions>>

\* applySourceTotal: only while the window it is about is still counted.
BlocksSource(c, w, total) == c.window = w /\ total > SourceLimit

\* handleAdmit after the await: the total is applied, then the block asked.
Apply(q) ==
    /\ req[q].phase = "apply"
    /\ LET o == req[q].org
           a == req[q].source
           w == req[q].window
           now == [source[o][a] EXCEPT !.blocked =
                     @ \/ BlocksSource(source[o][a], w, req[q].total)]
       IN  /\ source' = [source EXCEPT ![o][a] = now]
           /\ req' = [req EXCEPT ![q] = Answered(q,
                 IF now.window = w /\ now.blocked THEN "rate_limited"
                 ELSE req[q].decision)]
    /\ UNCHANGED <<clock, rate, block, shard, appHistory, attemptVars, world,
                   newest, slips, evictions, faults>>

\* Mutant: who was over its limit is forgotten with the counts.
HydratedEmpty(s, row) == Unseen

\* A coordinator is evicted: hydrate brings back who was over, and nothing
\* else; the requests that were waiting in it go on degraded.
Hydrated(s, row) ==
    IF row = -1 THEN Unseen
    ELSE [window |-> row, count |-> limit(s) + 1, exceededPersisted |-> TRUE]

Evict(o) ==
    /\ \E a \in Source : source[o][a] # UnseenSource
    /\ evictions < MaxEvictions
    /\ evictions' = evictions + 1
    /\ rate' = [rate EXCEPT ![o] = [s \in Subject |-> Hydrated(s, block[o][s])]]
    /\ source' = [source EXCEPT ![o] = [a \in Source |-> UnseenSource]]
    /\ req' = [q \in Req |->
          IF req[q].phase \in {"report", "apply"} /\ req[q].org = o
          THEN Answered(q, "degraded") ELSE req[q]]
    /\ allowance' = [allowance EXCEPT ![o] = [s \in Subject |->
          [w \in Window |-> IF rate[o][s].window = w /\ ~OverLimit(s, rate[o][s])
                            THEN allowance[o][s][w] + limit(s)
                            ELSE allowance[o][s][w]]]]
    /\ rough' = rough \cup {a \in Source : source[o][a] # UnseenSource}
    /\ UNCHANGED <<clock, block, shard, passed, attemptVars, world, newest,
                   slips, faults>>

-----------------------------------------------------------------------------
\* dispatchPreAuthRequest: the limiter.

\* countPreAuthAttempt: what the attempt brings its key's count in the window
\* to, refused or not.
CountAfter(l, e, k, w) ==
    (IF tries[l][e][k].window = w THEN tries[l][e][k].count ELSE 0) + 1

\* check of the in-process limiter: counters of older windows are swept, and
\* the attempt is counted.
TriesAfter(l, e, k, w) ==
    [f \in EntryPoint |-> [j \in Key |->
        IF f = e /\ j = k THEN [window |-> w, count |-> CountAfter(l, e, k, w)]
        ELSE IF tries[l][f][j].window < w THEN Untried ELSE tries[l][f][j]]]

\* Mutant: the attempt that reaches the limit is let through once more.
AllowedOnceMore(l, e, k, w, most) == CountAfter(l, e, k, w) <= most + 1

Allowed(l, e, k, w, most) == CountAfter(l, e, k, w) <= most

\* A limiter's check of the key k of request q: it is counted, and let
\* through or not.
Checks(q, k, most) ==
    LET l == req[q].limiter
        e == req[q].entry
        w == req[q].window
    IN  /\ tries' = [tries EXCEPT ![l] = TriesAfter(l, e, k, w)]
        /\ reached' = IF Allowed(l, e, k, w, most)
                      THEN [reached EXCEPT ![l][e][k][w] = @ + 1] ELSE reached
        /\ Sees(l, w)

\* A denial of this category will be counted before that answer is given.
Denied(q, category, answer) ==
    [req[q] EXCEPT !.phase = "evidence", !.decision = category,
                   !.answer = answer]

\* Mutant: what is reported once per entry point is reported once for all.
NoticedOnce(cause, e) ==
    IF \E f \in EntryPoint : <<cause, f>> \in notices THEN notices
    ELSE notices \cup {<<cause, e>>}

\* announcePreAuthFailure: causes of configuration, once per entry point.
Noticed(cause, e) == notices \cup {<<cause, e>>}

\* The check per source comes first. A static entry point answers then; one
\* without a handler gives its collapsed answer; a body may be malformed. The
\* identifier is checked where the handler declares a field for it, the
\* bucketer is composed and the field was filled; the handler runs at once
\* where one of the three is missing, and it is announced if it is the second.
CheckSource(q) ==
    /\ req[q].phase = "source"
    /\ LET e == req[q].entry
       IN  /\ Checks(q, req[q].source, EntryLimit[e])
           /\ \/ /\ ~Allowed(req[q].limiter, e, req[q].source, req[q].window,
                             EntryLimit[e])
                 /\ req' = [req EXCEPT ![q] =
                               Denied(q, "rate_limited", "rate_limited")]
                 /\ UNCHANGED notices
              \/ /\ Allowed(req[q].limiter, e, req[q].source, req[q].window,
                            EntryLimit[e])
                 /\ \/ /\ e = "health"
                       /\ req' = [req EXCEPT ![q] = Answered(q, "static")]
                       /\ UNCHANGED notices
                    \/ /\ e \in Delegated \ handlers
                       /\ req' = [req EXCEPT ![q] = Answered(q, collapseTo(e))]
                       /\ notices' = Noticed("handler_absent", e)
                    \/ /\ e \in handlers
                       /\ req' = [req EXCEPT ![q] = Answered(q, "invalid")]
                       /\ UNCHANGED notices
                    \/ /\ e \in handlers \cap identifierField
                       /\ "bucketer" \in wired
                       /\ req' = [req EXCEPT ![q].phase = "identifier"]
                       /\ UNCHANGED notices
                    \/ /\ e \in handlers
                       /\ req' = [req EXCEPT ![q].phase = "handle"]
                       /\ notices' = IF e \in identifierField
                                        /\ "bucketer" \notin wired
                                     THEN Noticed("identifier_level_absent", e)
                                     ELSE notices
    /\ UNCHANGED <<clock, countVars, appHistory, world, evictions, faults>>

\* checkIdentifierLimit: the submitted identifier falls in some bucket, and
\* the attempt is counted by it.
CheckIdentifier(q) ==
    /\ req[q].phase = "identifier"
    /\ \E b \in Bucket :
          /\ Checks(q, b, IdentifierLimit)
          /\ req' = [req EXCEPT ![q] =
                IF Allowed(req[q].limiter, req[q].entry, b, req[q].window,
                           IdentifierLimit)
                THEN [@ EXCEPT !.phase = "handle"]
                ELSE Denied(q, "rate_limited", "rate_limited")]
    /\ UNCHANGED <<clock, countVars, appHistory, notices, world, evictions,
                   faults>>

\* bucket() throws, outside the try of checkIdentifierLimit: nothing of the
\* dispatch catches it, and fetchHandler answers internal.
BucketerThrows(q) ==
    /\ req[q].phase = "identifier"
    /\ Fault
    /\ req' = [req EXCEPT ![q] = Answered(q, "internal")]
    /\ UNCHANGED <<clock, countVars, appHistory, attemptVars, world, newest,
                   slips, evictions>>

\* A limiter that cannot answer refuses; this is announced each time.
LimiterFails(q) ==
    /\ req[q].phase \in {"source", "identifier"}
    /\ Fault
    /\ req' = [req EXCEPT ![q] = Denied(q, "rate_limited", "rate_limited")]
    /\ UNCHANGED <<clock, countVars, appHistory, attemptVars, world, newest,
                   slips, evictions>>

-----------------------------------------------------------------------------
\* dispatchPreAuthRequest: the handler, and evidence of what it refused.

\* What a handler said, reduced to what its entry point declares.
FinalOutcome(e, said) == IF said \in outcomes(e) THEN said ELSE collapseTo(e)

Handle(q) ==
    /\ req[q].phase = "handle"
    /\ \E said \in OutcomeKind \cup {"threw"} :
          LET outcome == FinalOutcome(req[q].entry, said)
          IN  req' = [req EXCEPT ![q] = IF outcome \in Refusal
                                        THEN Denied(q, outcome, outcome)
                                        ELSE Answered(q, outcome)]
    /\ UNCHANGED <<clock, countVars, appHistory, attemptVars, world, newest,
                   slips, evictions, faults>>

\* countDenial: the recorder took it.
CountDenial(q) ==
    /\ req[q].phase = "evidence"
    /\ "evidence" \in wired
    /\ req' = [req EXCEPT ![q] = [req[q] EXCEPT !.phase = "done", !.trace = "counted"]]
    /\ UNCHANGED <<clock, countVars, appHistory, attemptVars, world, newest,
                   slips, evictions, faults>>

\* countDenial: the recorder failed or threw.
EvidenceUnrecorded(q) ==
    /\ req[q].phase = "evidence"
    /\ "evidence" \in wired
    /\ Fault
    /\ req' = [req EXCEPT ![q] = [req[q] EXCEPT !.phase = "done", !.trace = "announced"]]
    /\ UNCHANGED <<clock, countVars, appHistory, attemptVars, world, newest,
                   slips, evictions>>

\* countDenial: there is no recorder, as in the Worker's composition.
EvidenceAbsent(q) ==
    /\ req[q].phase = "evidence"
    /\ "evidence" \notin wired
    /\ req' = [req EXCEPT ![q].phase = "done"]
    /\ notices' = Noticed("evidence_recorder_absent", req[q].entry)
    /\ UNCHANGED <<clock, countVars, appHistory, tries, reached, world, newest,
                   slips, evictions, faults>>

-----------------------------------------------------------------------------
None == [s \in Subject |-> [w \in Window |-> 0]]

Init ==
    /\ clock = 0
    /\ rate = [o \in Org |-> [s \in Subject |-> Unseen]]
    /\ block = [o \in Org |-> [s \in Subject |-> -1]]
    /\ source = [o \in Org |-> [a \in Source |-> UnseenSource]]
    /\ shard = [a \in Source |-> [w \in Window |-> 0]]
    /\ tries = [l \in Limiter |-> [e \in EntryPoint |-> [k \in Key |-> Untried]]]
    /\ \E s \in Setups : wired = s[1] /\ kinds = s[2]
    /\ notices = {}
    /\ req = [q \in Req |-> Idle]
    /\ newest = [x \in Org \cup Limiter |-> 0]
    /\ slips = [x \in Org \cup Limiter |-> 0]
    /\ passed = [o \in Org |-> None]
    /\ allowance = [o \in Org |-> [s \in Subject |-> [w \in Window |-> limit(s)]]]
    /\ reached = [l \in Limiter |-> [e \in EntryPoint |-> [k \in Key |->
                    [w \in Window |-> 0]]]]
    /\ rough = {}
    /\ evictions = 0
    /\ faults = 0

Next ==
    \/ Tick
    \/ \E o \in Org : Evict(o)
    \/ \E q \in Req :
          \/ Invoke(q) \/ Admit(q) \/ Unreached(q)
          \/ Report(q) \/ ReportFails(q) \/ Apply(q)
          \/ Attempt(q) \/ CheckSource(q) \/ CheckIdentifier(q)
          \/ BucketerThrows(q) \/ LimiterFails(q) \/ Handle(q)
          \/ CountDenial(q) \/ EvidenceUnrecorded(q) \/ EvidenceAbsent(q)

Spec == Init /\ [][Next]_vars

-----------------------------------------------------------------------------
\* The variables keep their types (RateSubjectState, SourceSubjectState,
\* PreAuthRateState, the rows of rate_block and source_count).
TypeOK ==
    /\ clock \in Window
    /\ rate \in [Org -> [Subject -> [window : Window \cup {-1}, count : Nat,
                                     exceededPersisted : BOOLEAN]]]
    /\ block \in [Org -> [Subject -> Window \cup {-1}]]
    /\ source \in [Org -> [Source -> [window : Window \cup {-1},
                     localCount : Nat, reportedCount : Nat, blocked : BOOLEAN]]]
    /\ shard \in [Source -> [Window -> Int]]
    /\ tries \in [Limiter -> [EntryPoint -> [Key ->
                     [window : Window \cup {-1}, count : Nat]]]]
    /\ <<wired, kinds>> \in Setups
    /\ notices \subseteq {"handler_absent", "identifier_level_absent",
                          "evidence_recorder_absent"} \X EntryPoint
    /\ req \in [Req -> Request]
    /\ newest \in [Org \cup Limiter -> Window]
    /\ slips \in [Org \cup Limiter -> Nat]
    /\ passed \in [Org -> [Subject -> [Window -> Nat]]]
    /\ allowance \in [Org -> [Subject -> [Window -> Nat]]]
    /\ reached \in [Limiter -> [EntryPoint -> [Key -> [Window -> Nat]]]]
    /\ rough \subseteq Source
    /\ evictions \in 0 .. MaxEvictions
    /\ faults \in 0 .. MaxFaults

\* A principal and an Organization have no more requests let through in a
\* window than their limit; as many again only for an eviction that forgot a
\* count below it, and for a request that reached the coordinator after one of
\* a later window: such a request restarts its own count and loses that of the
\* later window, but no more. Who was over stays over across an eviction
\* (admit, persistRate, hydrate).
RateBounded ==
    \A o \in Org, s \in Subject, w \in Window :
        passed[o][s][w] <= allowance[o][s][w] + slips[o] * limit(s)

\* Attempts that a limiter lets through to a handler, or to the static answer,
\* hold to the limit of the entry point and source, and of the identifier's
\* bucket, which both steps of the login are counted by. A check that comes
\* after one of a later window, as when two attempts straddle its end and the
\* later one has swept the counters, costs one more limit at most
\* (countPreAuthAttempt, sweepPreAuthCounters).
AttemptsBounded ==
    \A l \in Limiter, e \in EntryPoint, w \in Window :
        /\ \A a \in Source :
              reached[l][e][a][w] <= (slips[l] + 1) * EntryLimit[e]
        /\ \A b \in Bucket :
              reached[l][e][b][w] <= (slips[l] + 1) * IdentifierLimit

\* No refusal before authentication goes without a trace: it was counted, or
\* that it could not be was announced, for this attempt or, where the runtime
\* was composed without the recorder or the handler, once for its entry point.
\* What is counted is a refusal the entry point declares, or one of the
\* limiter, whatever its handler said (enforceDeclaredOutcome, countDenial).
RefusalsLeaveTrace ==
    \A q \in Req : req[q].phase = "done" /\ req[q].kind = "attempt" =>
        /\ req[q].answer \in Refusal =>
              \/ req[q].trace # "none"
              \/ <<"evidence_recorder_absent", req[q].entry>> \in notices
              \/ <<"handler_absent", req[q].entry>> \in notices
        /\ req[q].trace = "counted" =>
              req[q].answer \in Refusal \cap
                                   ({"rate_limited"} \cup outcomes(req[q].entry))

\* How many requests of a source, judged by window w, coordinator o admitted.
Admitted(o, a, w) ==
    Cardinality({q \in Req : /\ req[q].kind = "app"
                             /\ req[q].source = a /\ req[q].org = o
                             /\ req[q].window = w
                             /\ req[q].answer = "admitted"})

\* How many of n requests admitted its coordinator need not have reported yet:
\* fewer than the interval, and not the first, which is reported at once.
Unreported(n) == IF n = 0 THEN 0
                 ELSE IF n <= ReportInterval THEN n - 1 ELSE ReportInterval - 1

\* Across Organizations a source has no more requests admitted in a window
\* than its limit and what each coordinator let through since its last report.
\* That holds as long as no report overlapped another request of its source,
\* failed, came late or was forgotten (admit, handleSourceCount,
\* applySourceTotal).
SourceHeldWhenPrompt ==
    \A a \in Source \ rough, w \in Window :
        SumFunctionOnSet([o \in Org |-> Admitted(o, a, w)], Org) <=
            SourceLimit
              + SumFunctionOnSet([o \in Org |-> Unreported(Admitted(o, a, w))], Org)
=============================================================================
