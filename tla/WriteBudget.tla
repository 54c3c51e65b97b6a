---------------------------- MODULE WriteBudget ----------------------------
(***************************************************************************)
(* The daily row-write budget of src/platform/core/protection.             *)
(*                                                                         *)
(* Every Organization has a coordinator (one Durable Object), and the      *)
(* platform has one ledger (another Durable Object).  A Worker that is     *)
(* about to write asks the coordinator of its Organization to reserve a    *)
(* number of row-writes; the coordinator spends permits it holds, and      *)
(* when it is short of them it buys a block from the ledger first.  That   *)
(* purchase is an `await': while it is outstanding the coordinator serves  *)
(* other requests, the UTC day may change, and the platform may evict the  *)
(* object, which then restarts from the row it last persisted.             *)
(*                                                                         *)
(* A request carries the day on which the Worker started to serve it; no   *)
(* message ever carries the time at which it is handled.                   *)
(***************************************************************************)
EXTENDS Integers, FiniteSets, Functions

CONSTANTS
    Org,            \* Organizations, one coordinator each
    Req,            \* identifiers of requests; each is used once
    LastDay,        \* bound: the UTC days are 1..LastDay (0 is "never")
    OrgCeiling,     \* PER_ORGANIZATION_DAILY_ROW_WRITES
    PlatformShare,  \* PLATFORM_ORIGINATED_DAILY_ROW_WRITES
    Allocation,     \* DAILY_ALLOCATION.business
    Block,          \* WRITE_PERMIT_BLOCK
    Units,          \* bound: the costs a request may declare
    Evictable,      \* whether a coordinator may be evicted
    LedgerFaults    \* whether a call to the ledger may fail

ASSUME WriteBudgetAssumption ==
    /\ IsFiniteSet(Org)
    /\ IsFiniteSet(Req)
    /\ LastDay \in Nat \ {0}
    /\ OrgCeiling \in Nat
    /\ PlatformShare \in Nat
    /\ Allocation \in Nat
    /\ Block \in Nat \ {0}
    /\ Units \subseteq Nat \ {0}
    /\ Evictable \in BOOLEAN
    /\ LedgerFaults \in BOOLEAN

Day == 1 .. LastDay
Origin == {"tenant", "platform"}

VARIABLES
    today,      \* the UTC day
    mem,        \* mem[o]: CoordinationState of o's coordinator, write half
    disk,       \* disk[o]: row 1 of the coordinator's table write_budget
    ledger,     \* row `business' of the ledger's table ledger
    req,        \* req[r]: the request r, in the Worker and in the coordinator
    sold,       \* history: sold[d], permits the ledger granted for day d
    credited,   \* history: credited[o][d], permits o received for day d
    charged,    \* history: charged[o][d], row-writes o reserved on day d
    shared      \* history: shared[o][d], those of platform origin

vars == <<today, mem, disk, ledger, req, sold, credited, charged, shared>>

-----------------------------------------------------------------------------
(* The state of a coordinator.                                              *)
(* writeDay, platformWriteDay and the permit reserve each carry their own   *)
(* day in the code; rollWriteDay moves the three together and hydrate gives *)
(* the share day 0 with nothing used, so one `day' stands for them.         *)

CoordinatorState ==
    [day : 0 .. LastDay, used : Nat, share : Nat, permits : Nat,
     exhausted : 0 .. LastDay]

StoredBudget == [day : 0 .. LastDay, used : Nat, permits : Nat]

createCoordinationState ==
    [day |-> 0, used |-> 0, share |-> 0, permits |-> 0, exhausted |-> 0]

\* Mutant: a restart forgets what the day has spent.
hydrateForgets(row) ==
    [day |-> row.day, used |-> 0, share |-> 0,
     permits |-> row.permits, exhausted |-> 0]

\* The memory a restarted coordinator builds from its row.  An absent row is
\* the row of a new coordinator.
hydrate(row) ==
    [day |-> row.day, used |-> row.used, share |-> 0,
     permits |-> row.permits, exhausted |-> 0]

persistWriteBudget(s) ==
    [day |-> s.day, used |-> s.used, permits |-> s.permits]

\* Mutant: yesterday's reserve stays spendable.
rollKeepsPermits(s, d) ==
    IF s.day = d THEN s ELSE [s EXCEPT !.day = d, !.used = 0, !.share = 0]

rollWriteDay(s, d) ==
    IF s.day = d THEN s
    ELSE [s EXCEPT !.day = d, !.used = 0, !.share = 0, !.permits = 0]

Smaller(a, b) == IF a < b THEN a ELSE b
Larger(a, b) == IF a > b THEN a ELSE b

\* Mutant: a write that would just reach the ceiling buys nothing.
buyBelowCeiling(s, u) ==
    IF \/ s.exhausted = s.day
       \/ s.used + u >= OrgCeiling
       \/ s.permits >= u
    THEN 0
    ELSE Larger(0, Smaller(Larger(Block, u), OrgCeiling - s.used - s.permits))

\* What to ask of the ledger before admitting u; 0 means "do not ask".
writePermitsToBuy(s, u) ==
    IF \/ s.exhausted = s.day
       \/ s.used + u > OrgCeiling
       \/ s.permits >= u
    THEN 0
    ELSE Larger(0, Smaller(Larger(Block, u), OrgCeiling - s.used - s.permits))

creditWritePermits(s, granted, d, answered) ==
    LET t == rollWriteDay(s, d)
    IN  [t EXCEPT !.permits = @ + granted,
                  !.exhausted = IF answered /\ granted = 0 THEN d ELSE @]

\* The two refusals and the grant of admitWrite, on a state already rolled.
OverCeiling(s, u) == s.used + u > OrgCeiling
OverShare(s, u, origin) == origin = "platform" /\ s.share + u > PlatformShare
ShortOfPermits(s, u) == s.permits < u

\* Mutant: the Organization's ceiling is not checked.
admitPastCeiling(s, u, origin) ==
    IF OverShare(s, u, origin) THEN "platform-share"
    ELSE IF ShortOfPermits(s, u) THEN "organization"
    ELSE "granted"

admitWrite(s, u, origin) ==
    IF OverCeiling(s, u) THEN "organization"
    ELSE IF OverShare(s, u, origin) THEN "platform-share"
    ELSE IF ShortOfPermits(s, u) THEN "organization"
    ELSE "granted"

chargeWrite(s, u, origin) ==
    [s EXCEPT !.used = @ + u, !.permits = @ - u,
              !.share = IF origin = "platform" THEN @ + u ELSE @]

-----------------------------------------------------------------------------
(* Requests.                                                                *)
(*   unborn   not started          sent      /reserve is on its way         *)
(*   asking   waits for the ledger replied   the ledger's answer is back    *)
(*   orphan   its coordinator was evicted while /permits was on its way     *)
(*   granted, organization, platform-share, unavailable: answered           *)

Phase == {"unborn", "sent", "asking", "replied", "orphan", "granted",
          "organization", "platform-share", "unavailable"}

InFlight(r) == req[r].phase \in {"sent", "asking", "replied", "orphan"}

TypeOK ==
    /\ today \in Day
    /\ mem \in [Org -> CoordinatorState]
    /\ disk \in [Org -> StoredBudget]
    /\ ledger \in [day : 0 .. LastDay, used : Nat]
    /\ req \in [Req -> [phase : Phase, org : Org, units : Units,
                        origin : Origin, day : Day, wanted : Nat,
                        granted : Nat, answered : BOOLEAN]]
    /\ sold \in [Day -> Nat]
    /\ credited \in [Org -> [Day -> Nat]]
    /\ charged \in [Org -> [Day -> Nat]]
    /\ shared \in [Org -> [Day -> Nat]]

Init ==
    /\ today = 1
    /\ mem = [o \in Org |-> createCoordinationState]
    /\ disk = [o \in Org |-> persistWriteBudget(createCoordinationState)]
    /\ ledger = [day |-> 0, used |-> 0]
    /\ req \in [Req -> [phase : {"unborn"}, org : Org, units : Units,
                        origin : Origin, day : {1}, wanted : {0},
                        granted : {0}, answered : {FALSE}]]
    /\ sold = [d \in Day |-> 0]
    /\ credited = [o \in Org |-> [d \in Day |-> 0]]
    /\ charged = [o \in Org |-> [d \in Day |-> 0]]
    /\ shared = [o \in Org |-> [d \in Day |-> 0]]

-----------------------------------------------------------------------------

\* The Worker fixes the request's time, and posts /reserve.
SendReserve(r) ==
    /\ req[r].phase = "unborn"
    /\ req' = [req EXCEPT ![r] = [req[r] EXCEPT !.phase = "sent", !.day = today]]
    /\ UNCHANGED <<today, mem, disk, ledger, sold, credited, charged, shared>>

\* From admitWrite to the response, in one turn of the coordinator: s is the
\* state of the coordinator when admitWrite is called.
AdmitAndPersist(r, s) ==
    LET q == req[r]
        outcome == admitWrite(s, q.units, q.origin)
        t == IF outcome = "granted" THEN chargeWrite(s, q.units, q.origin) ELSE s
    IN  /\ mem' = [mem EXCEPT ![q.org] = t]
        /\ disk' = [disk EXCEPT ![q.org] = persistWriteBudget(t)]
        /\ req' = [req EXCEPT ![r].phase = outcome]
        /\ charged' = IF outcome = "granted"
                      THEN [charged EXCEPT ![q.org][q.day] = @ + q.units]
                      ELSE charged
        /\ shared' = IF outcome = "granted" /\ q.origin = "platform"
                     THEN [shared EXCEPT ![q.org][q.day] = @ + q.units]
                     ELSE shared

\* handleReserveWrites up to its await, when it has to buy ...
ReserveMustBuy(r) ==
    LET q == req[r]
        s == rollWriteDay(mem[q.org], q.day)
        wanted == writePermitsToBuy(s, q.units)
    IN  /\ q.phase = "sent"
        /\ wanted > 0
        /\ mem' = [mem EXCEPT ![q.org] = s]
        /\ req' = [req EXCEPT ![r] = [req[r] EXCEPT !.phase = "asking", !.wanted = wanted]]
        /\ UNCHANGED <<today, disk, ledger, sold, credited, charged, shared>>

\* Mutant: a request that finds no permits waits for some.
ReserveWaitsForPermits(r) ==
    LET q == req[r]
        s == rollWriteDay(mem[q.org], q.day)
    IN  /\ q.phase = "sent"
        /\ s.permits >= q.units
        /\ AdmitAndPersist(r, s)
        /\ UNCHANGED <<today, ledger, sold, credited>>

\* ... and to its end, when it has not.
ReserveWithoutBuying(r) ==
    LET q == req[r]
        s == rollWriteDay(mem[q.org], q.day)
    IN  /\ q.phase = "sent"
        /\ writePermitsToBuy(s, q.units) = 0
        /\ AdmitAndPersist(r, s)
        /\ UNCHANGED <<today, ledger, sold, credited>>

\* What the ledger remembers of day d, and what it grants on it.
LedgerUsed(d) == IF ledger.day = d THEN ledger.used ELSE 0

LedgerGrant(d, wanted) ==
    Larger(0, Smaller(wanted, Allocation - LedgerUsed(d)))

\* Mutant: the coordinator is told what it asked for.
handlePermitsEchoed(r, heard) ==
    LET q == req[r]
        granted == LedgerGrant(q.day, q.wanted)
    IN  /\ ledger' = [day |-> q.day, used |-> LedgerUsed(q.day) + granted]
        /\ sold' = [sold EXCEPT ![q.day] = @ + granted]
        /\ req' = [req EXCEPT ![r] = [q EXCEPT
                        !.phase = IF q.phase = "orphan"
                                  THEN "unavailable" ELSE "replied",
                        !.granted = IF heard THEN q.wanted ELSE 0,
                        !.answered = heard]]
        /\ UNCHANGED <<today, mem, disk, credited, charged, shared>>

\* The ledger handles /permits for a request; `heard' says whether its answer
\* gets back to a coordinator that still waits for it.
handlePermits(r, heard) ==
    LET q == req[r]
        granted == LedgerGrant(q.day, q.wanted)
    IN  /\ ledger' = [day |-> q.day, used |-> LedgerUsed(q.day) + granted]
        /\ sold' = [sold EXCEPT ![q.day] = @ + granted]
        /\ req' = [req EXCEPT ![r] = [q EXCEPT
                        !.phase = IF q.phase = "orphan"
                                  THEN "unavailable" ELSE "replied",
                        !.granted = IF heard THEN granted ELSE 0,
                        !.answered = heard]]
        /\ UNCHANGED <<today, mem, disk, credited, charged, shared>>

LedgerAnswers(r) == req[r].phase = "asking" /\ handlePermits(r, TRUE)

\* The catch of buyPermits: the ledger granted, the answer was lost.
LedgerAnswerLost(r) ==
    LedgerFaults /\ req[r].phase = "asking" /\ handlePermits(r, FALSE)

\* /permits of a request whose coordinator is gone.
LedgerAnswersNobody(r) == req[r].phase = "orphan" /\ handlePermits(r, FALSE)

\* The catch of buyPermits: the ledger was never reached.
LedgerUnreachable(r) ==
    /\ LedgerFaults
    /\ req[r].phase = "asking"
    /\ req' = [req EXCEPT ![r] = [req[r] EXCEPT !.phase = "replied",
                                     !.granted = 0, !.answered = FALSE]]
    /\ UNCHANGED <<today, mem, disk, ledger, sold, credited, charged, shared>>

\* handleReserveWrites from its await to its end.
ReserveResumes(r) ==
    LET q == req[r]
        s == creditWritePermits(mem[q.org], q.granted, q.day, q.answered)
    IN  /\ q.phase = "replied"
        /\ AdmitAndPersist(r, s)
        /\ credited' = [credited EXCEPT ![q.org][q.day] = @ + q.granted]
        /\ UNCHANGED <<today, ledger, sold>>

\* The coordinator loses its memory and every handler that was waiting in it.
\* Its next use finds what hydrate makes of the persisted row.
Evict(o) ==
    /\ Evictable
    /\ mem' = [mem EXCEPT ![o] = hydrate(disk[o])]
    /\ req' = [r \in Req |->
                 IF req[r].org # o THEN req[r]
                 ELSE IF req[r].phase = "asking"
                      THEN [req[r] EXCEPT !.phase = "orphan"]
                 ELSE IF req[r].phase = "replied"
                      THEN [req[r] EXCEPT !.phase = "unavailable"]
                 ELSE req[r]]
    /\ UNCHANGED <<today, disk, ledger, sold, credited, charged, shared>>

Midnight ==
    /\ today < LastDay
    /\ today' = today + 1
    /\ UNCHANGED <<mem, disk, ledger, req, sold, credited, charged, shared>>

Next ==
    \/ \E r \in Req : \/ SendReserve(r)
                      \/ ReserveMustBuy(r)
                      \/ ReserveWithoutBuying(r)
                      \/ LedgerAnswers(r)
                      \/ LedgerAnswerLost(r)
                      \/ LedgerAnswersNobody(r)
                      \/ LedgerUnreachable(r)
                      \/ ReserveResumes(r)
    \/ \E o \in Org : Evict(o)
    \/ Midnight

Spec == Init /\ [][Next]_vars

\* A midnight no request straddles: the next day starts once the requests of
\* the old one are answered and no message of theirs is on its way.
QuietMidnight == today' # today => \A r \in Req : ~InFlight(r)

QuietNext == Next /\ QuietMidnight
QuietSpec == Init /\ [][QuietNext]_vars

\* A message that was sent is handled, and an await that is over is resumed.
Served(r) == \/ ReserveMustBuy(r) \/ ReserveWithoutBuying(r)
             \/ LedgerAnswers(r) \/ LedgerAnswersNobody(r) \/ ReserveResumes(r)
FairSpec == Spec /\ \A r \in Req : WF_vars(Served(r))

-----------------------------------------------------------------------------
(* Properties.                                                              *)

\* What a coordinator still holds for day d, in memory and after a restart.
HeldFor(o, d) == IF mem[o].day = d THEN mem[o].permits ELSE 0
StoredFor(o, d) == IF disk[o].day = d THEN disk[o].permits ELSE 0

\* No row-write is reserved without a permit that the ledger granted to this
\* Organization for the very day it is charged to, and no permit is spent
\* twice: not after a restart that reloads the reserve, not when answers for
\* two days arrive in any order (rollWriteDay, creditWritePermits, hydrate).
PermitConservation ==
    \A o \in Org, d \in Day :
        /\ charged[o][d] + HeldFor(o, d) <= credited[o][d]
        /\ charged[o][d] + StoredFor(o, d) <= credited[o][d]

\* What all the Organizations have of a quantity on day d.
AllOf(f, d) == SumFunctionOnSet([o \in Org |-> f[o][d]], Org)

\* What the coordinators were credited with was granted by the ledger once:
\* an answer that is lost, or that reaches an evicted coordinator, loses
\* permits and never makes any; so all Organizations together reserve at most
\* what the ledger granted (creditWritePermits after buyPermits).
CreditBacked ==
    \A d \in Day : /\ AllOf(credited, d) <= sold[d]
                   /\ AllOf(charged, d) <= sold[d]

\* One Organization reserves at most its daily ceiling, across purchases that
\* overlap and across restarts of its coordinator (admitWrite with
\* persistWriteBudget and hydrate).
OrgCeilingHeld ==
    \A o \in Org, d \in Day : charged[o][d] <= OrgCeiling

\* The ledger grants at most the day's allocation (handlePermits).
AllocationHeld ==
    \A d \in Day : sold[d] <= Allocation

\* As long as no request straddles midnight, the coordinator's memory, the row
\* it would restart from and the ledger's row each know exactly what their
\* current day has been charged (rollWriteDay, persistWriteBudget, hydrate,
\* handlePermits).
UsedToday(s) == IF s.day = today THEN s.used ELSE 0
BooksBalance ==
    /\ \A r \in Req : InFlight(r) => req[r].day = today
    /\ \A o \in Org :
         /\ mem[o].day <= today
         /\ disk[o].day <= today
         /\ charged[o][today] = UsedToday(mem[o])
         /\ charged[o][today] = UsedToday(disk[o])
         /\ \A d \in Day : d > today => charged[o][d] = 0
    /\ ledger.day <= today
    /\ sold[today] = LedgerUsed(today)
    /\ \A d \in Day : d > today => sold[d] = 0

\* As long as no request straddles midnight, a write is deferred only when the
\* day is spent -- the Organization's own ceiling has no room for it, or the
\* ledger has nothing left to grant, or, for a write of the platform, its share
\* has no room -- or when its own call to the ledger failed.  In particular a
\* customer's write is never refused for what the platform spent of its share,
\* or for the permits an evicted coordinator lost (admitWrite after
\* writePermitsToBuy).
DaySpent(q) == \/ charged[q.org][q.day] + q.units > OrgCeiling
               \/ sold[q.day] >= Allocation
LedgerFailed(q) == q.phase = "replied" /\ ~q.answered
HonestDeferral ==
    [][\A r \in Req :
         /\ req'[r].phase = "organization" /\ req[r].phase # "organization"
            => DaySpent(req[r]) \/ LedgerFailed(req[r])
         /\ req'[r].phase = "platform-share" /\ req[r].phase # "platform-share"
            => /\ req[r].origin = "platform"
               /\ shared[req[r].org][req[r].day] + req[r].units > PlatformShare
      ]_vars

\* Coordinators, ledger and messages implement the abstract allowance.
Allowance == INSTANCE DailyAllowance
ImplementsAllowance == Allowance!Spec

\* Every reservation that is asked for is answered, whatever the other
\* requests of the Organization, the ledger and evictions do.
Answered(r) == req[r].phase \in {"granted", "organization", "platform-share",
                                 "unavailable"}
EveryReserveAnswered ==
    \A r \in Req : req[r].phase = "sent" ~> Answered(r)
=============================================================================
