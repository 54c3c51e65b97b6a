-------------------------- MODULE DenialSummaries --------------------------
(***************************************************************************)
(* The evidence of denied requests of one Organization.                    *)
(*                                                                         *)
(* A Worker that denies a request posts /denial to the coordinator of the  *)
(* Organization.  The coordinator counts the attempt in the group of its   *)
(* key (principal, App, Action, category) and 15-minute window, and        *)
(* answers with the summaries that are due: at the points of a ladder of   *)
(* attempt counts, and when a window is found closed.  Every summary is    *)
(* paid for with permits of the day, bought in blocks from the platform's  *)
(* ledger.  The Worker then inserts all the summaries of one answer into   *)
(* the table denial_summary in one batch.                                  *)
(*                                                                         *)
(* A request carries the window in which the Worker started to serve it.   *)
(***************************************************************************)
EXTENDS Integers, FiniteSets

CONSTANTS
    Key,            \* denial group keys of the Organization
    Req,            \* identifiers of denied requests; each is used once
    LastWindow,     \* bound: the windows are 1..LastWindow (0 is "never")
    WindowsPerDay,  \* DAY_MS / DENIAL_WINDOW_MS
    Ladder,         \* the points of EMISSION_LADDER
    Cost,           \* DENIAL_SUMMARY_ROW_WRITES
    OrgCeiling,     \* PER_ORGANIZATION_DAILY_SUMMARY_ROW_WRITES
    Threshold,      \* CONSERVATION_THRESHOLD
    Allocation,     \* DAILY_ALLOCATION.security
    Block,          \* PERMIT_BLOCK
    SweepLimit,     \* SWEEP_LIMIT
    MaxEvictions,   \* bound: how often the coordinator is evicted
    MaxFaults       \* bound: how many calls and batches fail

ASSUME DenialSummariesAssumption ==
    /\ IsFiniteSet(Key)
    /\ LastWindow \in Nat \ {0}
    /\ WindowsPerDay \in Nat \ {0}
    /\ Ladder \subseteq Nat /\ 1 \in Ladder
    /\ IsFiniteSet(Ladder)
    /\ Cost \in Nat \ {0}
    /\ OrgCeiling \in Nat
    /\ Threshold \in Nat
    /\ Allocation \in Nat
    /\ Block \in Nat \ {0}
    /\ SweepLimit \in Nat \ {0}
    /\ MaxEvictions \in Nat
    /\ MaxFaults \in Nat

Window == 1 .. LastWindow
DayOf(w) == ((w - 1) \div WindowsPerDay) + 1
Day == 1 .. DayOf(LastWindow)

VARIABLES
    now,        \* the current window
    groups,     \* groups[k]: the coordinator's group of key k, in memory
    budget,     \* the coordinator's evidence budget, in memory
    stored,     \* what its tables denial_group and budget hold
    ledger,     \* row `security' of the ledger's table ledger
    req,        \* req[r]: the denied request r
    table,      \* the rows of the D1 table denial_summary
    counted,    \* history: counted[k][w], attempts the coordinator counted
    emitted,    \* history: emitted[k][w], summaries the coordinator paid for
    spent,      \* history: spent[d], row-writes it charged to day d
    credited,   \* history: credited[d], permits it received for day d
    announced,  \* history: the <<k, w>> of summaries announced as lost
    newest,     \* history: the newest window the coordinator has handled
    ordered,    \* history: it has handled no window after a newer one
    evictions,  \* history: how often it has been evicted
    faults      \* history: how many calls and batches have failed

coordinatorVars == <<groups, budget, stored>>
historyVars == <<counted, emitted, spent, credited, announced, newest, ordered>>
boundVars == <<evictions, faults>>
vars == <<now, groups, budget, stored, ledger, req, table, historyVars, boundVars>>

-----------------------------------------------------------------------------
(* Groups and summaries.                                                    *)
(* The ladder index of the code is the number of ladder points the attempt  *)
(* count has passed: it grows with the count, one attempt at a time, and is *)
(* stored and reloaded with it.  So a point is crossed by the attempt that  *)
(* reaches it, and the model keeps no index.                                *)

DenialGroup ==
    [window : 0 .. LastWindow, attempts : Nat, emittedAt : Nat, emissions : Nat]
NoGroup == [window |-> 0, attempts |-> 0, emittedAt |-> 0, emissions |-> 0]

Summary == [key : Key, window : Window, sequence : Nat, attempts : Nat]

toSummary(k, g) == [key |-> k, window |-> g.window, sequence |-> g.emissions,
                    attempts |-> g.attempts]

\* denial_summary_id: the primary key of a row.
SummaryId(row) == <<row.key, row.window, row.sequence>>

\* Mutant: a close reports only what was never reported.
UnreportedAtAll(g) == g.emissions = 0

Unreported(g) == g.attempts > g.emittedAt

\* Mutant: the next summary of the group has the same sequence number.
EmittedAgain(g) == [g EXCEPT !.emittedAt = g.attempts]

\* A group after its summary was paid for.
Emitted(g) == [g EXCEPT !.emittedAt = g.attempts, !.emissions = g.emissions + 1]

\* The group after one more attempt in window w; g is of that window or absent.
Attempt(g, w) ==
    IF g.window = w THEN [g EXCEPT !.attempts = g.attempts + 1]
    ELSE [window |-> w, attempts |-> 1, emittedAt |-> 0, emissions |-> 0]

-----------------------------------------------------------------------------
(* The evidence budget of the coordinator.  `day' dates what was used, and  *)
(* `permitsDay' the permits; the row of the table budget has the first only.*)

Budget == [day : 0 .. DayOf(LastWindow), used : Nat,
           permitsDay : 0 .. DayOf(LastWindow), permits : Nat,
           exhausted : 0 .. DayOf(LastWindow)]
NewBudget == [day |-> 0, used |-> 0, permitsDay |-> 0, permits |-> 0,
              exhausted |-> 0]

Smaller(a, b) == IF a < b THEN a ELSE b
Larger(a, b) == IF a > b THEN a ELSE b

UsedOn(b, d) == IF b.day = d THEN b.used ELSE 0
PermitsOn(b, d) == IF b.permitsDay = d THEN b.permits ELSE 0

\* Mutant: only the permits limit what is spent.
affordablePermits(b, d) == PermitsOn(b, d) \div Cost

\* How many summaries in a row spendPermit would pay for.
affordable(b, d) ==
    Smaller(Larger(0, OrgCeiling - UsedOn(b, d)) \div Cost,
            PermitsOn(b, d) \div Cost)

\* n calls of spendPermit in a row, on day d.
spendPermits(b, d, n) ==
    IF n = 0 THEN b
    ELSE LET paid == Smaller(n, affordable(b, d))
         IN  [b EXCEPT !.day = d, !.permitsDay = d,
                       !.used = UsedOn(b, d) + paid * Cost,
                       !.permits = PermitsOn(b, d) - paid * Cost]

conserving(b, d) == b.day = d /\ b.used >= Threshold

permitsToBuy(b, d) ==
    IF \/ b.exhausted = d
       \/ b.day = d /\ b.used + Cost > OrgCeiling
       \/ PermitsOn(b, d) >= Cost
    THEN 0
    ELSE Block

creditPermits(b, granted, d, answered) ==
    [b EXCEPT !.permitsDay = d,
              !.permits = PermitsOn(b, d) + granted,
              !.exhausted = IF answered /\ granted = 0 THEN d ELSE @]

\* persistBudget, then hydrate in a restarted coordinator.
hydrateBudget(b) ==
    [day |-> b.day, used |-> b.used, permitsDay |-> b.day, permits |-> b.permits,
     exhausted |-> 0]

-----------------------------------------------------------------------------
(* Requests.                                                                *)
(*   unborn  not denied yet             sent      /denial is on its way     *)
(*   asking  waits for the ledger       replied   the ledger's answer came  *)
(*   orphan  its coordinator was evicted while /permits was on its way      *)
(*   recorded  the Worker has summaries to insert                           *)
(*   done    finished: the Worker keeps nothing of it                       *)

Phase == {"unborn", "sent", "asking", "replied", "orphan", "recorded", "done"}

\* A request whose answer holds these rows: without any it is finished.
Answered(q, rows) ==
    [phase |-> IF rows = {} THEN "done" ELSE "recorded", key |-> q.key,
     window |-> 1, granted |-> 0, answered |-> FALSE, rows |-> rows]
Finished(q) == Answered(q, {})

TypeOK ==
    /\ now \in Window
    /\ groups \in [Key -> DenialGroup]
    /\ budget \in Budget
    /\ stored \in [groups : [Key -> DenialGroup], budget : Budget]
    /\ ledger \in [day : 0 .. DayOf(LastWindow), used : Nat]
    /\ req \in [Req -> [phase : Phase, key : Key, window : Window,
                        granted : Nat, answered : BOOLEAN,
                        rows : SUBSET Summary]]
    /\ table \subseteq Summary
    /\ counted \in [Key -> [Window -> Nat]]
    /\ emitted \in [Key -> [Window -> Nat]]
    /\ spent \in [Day -> Nat]
    /\ credited \in [Day -> Nat]
    /\ announced \subseteq Key \X Window
    /\ newest \in 0 .. LastWindow
    /\ ordered \in BOOLEAN
    /\ evictions \in 0 .. MaxEvictions
    /\ faults \in 0 .. MaxFaults

Init ==
    /\ now = 1
    /\ groups = [k \in Key |-> NoGroup]
    /\ budget = NewBudget
    /\ stored = [groups |-> groups, budget |-> NewBudget]
    /\ ledger = [day |-> 0, used |-> 0]
    /\ req \in [Req -> [phase : {"unborn"}, key : Key, window : {1},
                        granted : {0}, answered : {FALSE}, rows : {{}}]]
    /\ table = {}
    /\ counted = [k \in Key |-> [w \in Window |-> 0]]
    /\ emitted = [k \in Key |-> [w \in Window |-> 0]]
    /\ spent = [d \in Day |-> 0]
    /\ credited = [d \in Day |-> 0]
    /\ announced = {}
    /\ newest = 0
    /\ ordered = TRUE
    /\ evictions = 0
    /\ faults = 0

-----------------------------------------------------------------------------

Count(condition) == IF condition THEN 1 ELSE 0
Where(condition, element) == IF condition THEN {element} ELSE {}

\* The Worker denies the request and posts /denial with the time at which it
\* started to serve it.
PostDenial(r) ==
    /\ req[r].phase = "unborn"
    /\ req' = [req EXCEPT ![r] = [req[r] EXCEPT !.phase = "sent", !.window = now]]
    /\ UNCHANGED <<now, coordinatorVars, ledger, table, historyVars, boundVars>>

\* Mutant: the first attempt of a window is conserved like any other.
emissionDueConserved(g, b, d) == g.attempts \in Ladder /\ ~conserving(b, d)

\* Whether the attempt just counted in g calls for a summary.
emissionDue(g, b, d) ==
    g.attempts \in Ladder /\ (g.emissions = 0 \/ ~conserving(b, d))

\* recordDenial of an attempt in window w, on a group and a budget before it.
\* A group of another window is closed first, and its total is reported if the
\* last summary did not tell it; b is the budget, and old the group.
Closing(old, w) == old.window \notin {0, w} /\ Unreported(old)
Closed(old, w, b) == Closing(old, w) /\ affordable(b, DayOf(w)) > 0
AfterClose(old, w, b) == spendPermits(b, DayOf(w), Count(Closing(old, w)))

\* Then the attempt is counted, and a summary of it may be due.
Due(old, w, b) == emissionDue(Attempt(old, w), AfterClose(old, w, b), DayOf(w))
Paid(old, w, b) ==
    Due(old, w, b) /\ affordable(AfterClose(old, w, b), DayOf(w)) > 0
AfterRecord(old, w, b) ==
    spendPermits(AfterClose(old, w, b), DayOf(w), Count(Due(old, w, b)))
GroupAfter(old, w, b) ==
    IF Paid(old, w, b) THEN Emitted(Attempt(old, w)) ELSE Attempt(old, w)

\* The groups of other keys whose windows are over, and those of them that
\* have something to tell.
Stale(k, w) == {x \in Key \ {k} : groups[x].window \notin {0, w}}
Pending(k, w) == {x \in Stale(k, w) : Unreported(groups[x])}

\* Which of the stale groups one call of sweepClosedWindows may get through:
\* all, unless it stops at the limit.  The order is that of a Map; any order
\* is allowed here.
maySweep(swept, stale, pending) ==
    IF Cardinality(pending) < SweepLimit THEN swept = stale
    ELSE Cardinality(swept \cap pending) = SweepLimit

\* What the answer holds, if the summaries of the groups in final were paid,
\* and what is announced in their place.
RowsOf(k, w, b, final) ==
    Where(Closed(groups[k], w, b), toSummary(k, groups[k]))
    \cup Where(Paid(groups[k], w, b), toSummary(k, Attempt(groups[k], w)))
    \cup {toSummary(x, groups[x]) : x \in final}
RefusedOf(k, w, b, unpaid) ==
    Where(Closing(groups[k], w) /\ ~Closed(groups[k], w, b), <<k, groups[k].window>>)
    \cup Where(Due(groups[k], w, b) /\ ~Paid(groups[k], w, b), <<k, w>>)
    \cup {<<x, groups[x].window>> : x \in unpaid}

\* recordDenial and sweepClosedWindows for request r, and the saving of what
\* they changed, in one turn of the coordinator: b is its budget before, swept
\* the groups it closes, final those of them whose summary is paid.
Turn(r, b, swept, final) ==
    LET k == req[r].key
        w == req[r].window
        d == DayOf(w)
        recorded == AfterRecord(groups[k], w, b)
        toReport == swept \cap Pending(k, w)
        rows == RowsOf(k, w, b, final)
    IN  /\ maySweep(swept, Stale(k, w), Pending(k, w))
        /\ Cardinality(final) = Smaller(Cardinality(toReport), affordable(recorded, d))
        /\ groups' = [x \in Key |-> IF x = k THEN GroupAfter(groups[k], w, b)
                                    ELSE IF x \in swept THEN NoGroup
                                    ELSE groups[x]]
        /\ budget' = spendPermits(recorded, d, Cardinality(toReport))
        /\ stored' = [groups |-> [x \in Key |->
                          IF x \in swept \/ (x = k /\ Due(groups[k], w, b))
                          THEN groups'[x] ELSE stored.groups[x]],
                      budget |-> budget']
        /\ req' = [req EXCEPT ![r] = Answered(req[r], rows)]
        /\ counted' = [counted EXCEPT ![k][w] = @ + 1]
        /\ emitted' = [x \in Key |-> [v \in Window |-> emitted[x][v]
                          + Count(\E row \in rows : row.key = x /\ row.window = v)]]
        /\ spent' = [spent EXCEPT ![d] = @ + Cost * Cardinality(rows)]
        /\ announced' = announced \cup RefusedOf(k, w, b, toReport \ final)
        /\ newest' = Larger(newest, w)
        /\ ordered' = (ordered /\ newest <= w)

RecordAndSweep(r, b) ==
    \E swept \in SUBSET Stale(req[r].key, req[r].window) :
    \E final \in SUBSET (swept \cap Pending(req[r].key, req[r].window)) :
        Turn(r, b, swept, final)

\* handleDenial up to its await, when it has to buy permits ...
DenialMustBuy(r) ==
    /\ req[r].phase = "sent"
    /\ permitsToBuy(budget, DayOf(req[r].window)) > 0
    /\ req' = [req EXCEPT ![r].phase = "asking"]
    /\ UNCHANGED <<now, coordinatorVars, ledger, table, historyVars, boundVars>>

\* ... and to its end, when it has not.
DenialWithoutBuying(r) ==
    /\ req[r].phase = "sent"
    /\ permitsToBuy(budget, DayOf(req[r].window)) = 0
    /\ RecordAndSweep(r, budget)
    /\ UNCHANGED <<now, ledger, table, credited, boundVars>>

\* The row of the ledger, and what it grants.
LedgerUsed(d) == IF ledger.day = d THEN ledger.used ELSE 0
LedgerGrant(d) == Larger(0, Smaller(Block, Allocation - LedgerUsed(d)))

\* A request whose purchase is answered, or has failed.
Replied(q, granted, answered) ==
    [q EXCEPT !.phase = "replied", !.granted = granted, !.answered = answered]

\* The ledger handles /permits for request r; `heard' says whether its answer
\* gets back to a coordinator that still waits for it.
handlePermits(r, heard) ==
    LET d == DayOf(req[r].window)
        granted == LedgerGrant(d)
    IN  /\ ledger' = [day |-> d, used |-> LedgerUsed(d) + granted]
        /\ req' = [req EXCEPT ![r] =
                      IF req[r].phase = "orphan" THEN Finished(req[r])
                      ELSE Replied(req[r], IF heard THEN granted ELSE 0, heard)]
        /\ UNCHANGED <<now, coordinatorVars, table, historyVars>>

LedgerAnswers(r) ==
    /\ req[r].phase = "asking"
    /\ handlePermits(r, TRUE)
    /\ UNCHANGED boundVars

\* One call or batch fails.
Fault ==
    /\ faults < MaxFaults
    /\ faults' = faults + 1
    /\ UNCHANGED evictions

\* The catch of buyPermits: the ledger granted, the answer was lost.
LedgerAnswerLost(r) == Fault /\ req[r].phase = "asking" /\ handlePermits(r, FALSE)

\* /permits of a request whose coordinator is gone.
LedgerAnswersNobody(r) ==
    /\ req[r].phase = "orphan"
    /\ handlePermits(r, FALSE)
    /\ UNCHANGED boundVars

\* handleDenial from its await to its end.
DenialResumes(r) ==
    LET d == DayOf(req[r].window)
    IN  /\ req[r].phase = "replied"
        /\ RecordAndSweep(r, creditPermits(budget, req[r].granted, d, req[r].answered))
        /\ credited' = [credited EXCEPT ![d] = @ + req[r].granted]
        /\ UNCHANGED <<now, ledger, table, boundVars>>

\* The call fails before the coordinator handles it: record_failed.
RecordFails(r) ==
    /\ Fault
    /\ req[r].phase = "sent"
    /\ req' = [req EXCEPT ![r] = Finished(@)]
    /\ UNCHANGED <<now, coordinatorVars, ledger, table, historyVars>>

Collides(rows) == \E row \in rows, old \in table : SummaryId(row) = SummaryId(old)

\* write: one batch, all the rows of the answer.
write(r) ==
    /\ req[r].phase = "recorded"
    /\ ~Collides(req[r].rows)
    /\ table' = table \cup req[r].rows
    /\ req' = [req EXCEPT ![r] = Finished(@)]
    /\ UNCHANGED <<now, coordinatorVars, ledger, historyVars, boundVars>>

\* The answer is lost on its way, the batch fails, or a row of it has the
\* primary key of a row of the table: none is inserted, and it is announced.
SummariesLost(r) ==
    /\ req[r].phase = "recorded"
    /\ Fault \/ (Collides(req[r].rows) /\ UNCHANGED boundVars)
    /\ req' = [req EXCEPT ![r] = Finished(@)]
    /\ announced' = announced \cup {<<row.key, row.window>> : row \in req[r].rows}
    /\ UNCHANGED <<now, coordinatorVars, ledger, table, counted, emitted, spent,
                   credited, newest, ordered>>

\* Mutant: the groups are not reloaded.
EvictGroups ==
    /\ evictions < MaxEvictions
    /\ evictions' = evictions + 1
    /\ groups' = [k \in Key |-> NoGroup]
    /\ budget' = hydrateBudget(stored.budget)
    /\ req' = [r \in Req |->
                 IF req[r].phase = "asking" THEN [req[r] EXCEPT !.phase = "orphan"]
                 ELSE IF req[r].phase = "replied" THEN Finished(req[r])
                 ELSE req[r]]
    /\ UNCHANGED <<now, stored, ledger, table, historyVars, faults>>

\* The coordinator loses its memory and every handler that was waiting in it.
Evict ==
    /\ evictions < MaxEvictions
    /\ evictions' = evictions + 1
    /\ groups' = stored.groups
    /\ budget' = hydrateBudget(stored.budget)
    /\ req' = [r \in Req |->
                 IF req[r].phase = "asking" THEN [req[r] EXCEPT !.phase = "orphan"]
                 ELSE IF req[r].phase = "replied" THEN Finished(req[r])
                 ELSE req[r]]
    /\ UNCHANGED <<now, stored, ledger, table, historyVars, faults>>

NextWindow ==
    /\ now < LastWindow
    /\ now' = now + 1
    /\ UNCHANGED <<coordinatorVars, ledger, req, table, historyVars, boundVars>>

Next ==
    \/ \E r \in Req : \/ PostDenial(r)
                      \/ DenialMustBuy(r)
                      \/ DenialWithoutBuying(r)
                      \/ LedgerAnswers(r)
                      \/ LedgerAnswerLost(r)
                      \/ LedgerAnswersNobody(r)
                      \/ DenialResumes(r)
                      \/ RecordFails(r)
                      \/ write(r)
                      \/ SummariesLost(r)
    \/ Evict
    \/ NextWindow

Spec == Init /\ [][Next]_vars

-----------------------------------------------------------------------------
(* Properties.                                                              *)

\* The summaries that a Worker has and has not inserted.
BeingInserted == UNION {req[r].rows : r \in {q \in Req : req[q].phase = "recorded"}}

\* What is known of the denials of key k in window w: a row, or one that a
\* Worker is about to insert.
Reports(k, w) ==
    {row \in table \cup BeingInserted : row.key = k /\ row.window = w}

\* A window in which a denial was counted is never without a trace: there is
\* a row for it, or one is being inserted, or the Worker has announced that
\* a summary of it was lost -- whatever the order of the windows, whatever is
\* evicted in between, and with the budget in conservation or exhausted
\* (recordDenial, sweepClosedWindows, persistGroups).
EvidenceNeverAbsent ==
    \A k \in Key, w \in Window :
        counted[k][w] > 0 => Reports(k, w) # {} \/ <<k, w>> \in announced

\* Once a window's group is gone and its summaries are delivered, one of them
\* told the true total, or a loss was announced; the coordinator was not
\* evicted in between (sweepClosedWindows: a close carries the true total).
TotalReported ==
    evictions = 0 =>
    \A k \in Key, w \in Window :
        /\ counted[k][w] > 0
        /\ groups[k].window # w
        /\ \A row \in BeingInserted : ~(row.key = k /\ row.window = w)
        => \/ <<k, w>> \in announced
           \/ \E row \in table : /\ row.key = k /\ row.window = w
                                 /\ row.attempts >= counted[k][w]

\* No emission has the identity of another one, so no batch is lost to a
\* collision (toOperation: the identity is the group, its window and "which
\* emission it is").
EmissionsDistinct ==
    \A r \in Req : req[r].phase = "recorded" => ~Collides(req[r].rows)

\* The same, as long as windows are handled in order: through evictions,
\* faults and answers that overlap (emit, persistGroups).
EmissionsDistinctInOrder == ordered => EmissionsDistinct

\* In that case a group also costs no more than a summary for each ladder
\* point it has passed, and one for its close (MAX_WRITES_PER_GROUP_WINDOW).
EmissionsBounded ==
    ordered =>
    \A k \in Key, w \in Window :
        emitted[k][w] <= Cardinality({p \in Ladder : p <= counted[k][w]})
                         + Count(groups[k].window # w)

\* In that case a day's evidence costs the Organization at most its ceiling
\* (spendPermit, hydrate).
EvidenceCeilingHeld == ordered => \A d \in Day : spent[d] <= OrgCeiling

\* In that case no summary is emitted without permits that the ledger granted
\* for the very day it is charged to (spendPermit, creditPermits,
\* persistBudget).
PermitsConserved ==
    ordered => \A d \in Day : spent[d] + PermitsOn(budget, d) <= credited[d]
=============================================================================
