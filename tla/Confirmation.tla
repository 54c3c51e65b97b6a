---------------------------- MODULE Confirmation ----------------------------
(***************************************************************************)
(* Confirmation of critical operations.                                    *)
(*                                                                         *)
(* A principal first asks for a challenge: the operation and its           *)
(* parameters, with principal and session, are hashed into a binding, and  *)
(* the row of that binding in D1's table confirmation receives a new       *)
(* identifier, an expiry, and no mark of being spent.  The operation is    *)
(* then submitted with that identifier and the principal's credential.     *)
(* The gate spends the confirmation in one conditional update, verifies    *)
(* the credential whatever came of that, and lets the operation through    *)
(* only when both hold.                                                    *)
(*                                                                         *)
(* Both writes are admitted first by the control plane's ceilings, one per *)
(* principal and one for all, and by the day's shared ledger; the ceilings *)
(* are checked before the ledger is awaited and charged after it.          *)
(***************************************************************************)
EXTENDS Integers, FiniteSets, Functions

CONSTANTS
    Binding,           \* principal, session, operation and parameters, hashed
    Principal,
    Owner,             \* Owner[b]: the principal of binding b
    Req,               \* requests; each is served once
    Lifetime,          \* CONFIRMATION_LIFETIME_MS
    DayLength,         \* how many clock readings make a UTC day
    LastTime,          \* bound: the clock runs over 0..LastTime
    Units,             \* CONFIRMATION_ROW_WRITES
    PrincipalCeiling,  \* PER_PRINCIPAL_DAILY_ROW_WRITES
    PlatformCeiling,   \* CONTROL_PLANE_DAILY_ROW_WRITES
    Remaining,         \* what others may have left of the day's allocation
    Earlier,           \* what a principal may have been granted before
    MaxFaults          \* bound: how many calls fail

ASSUME ConfirmationAssumption ==
    /\ Binding # {}
    /\ IsFiniteSet(Principal)
    /\ Owner \in [Binding -> Principal]
    /\ Lifetime \in Nat \ {0}
    /\ DayLength \in Nat \ {0}
    /\ LastTime \in Nat
    /\ Units \in Nat \ {0}
    /\ PrincipalCeiling \in Nat
    /\ PlatformCeiling \in Nat
    /\ Remaining \subseteq Nat
    /\ Earlier \subseteq Nat
    /\ \A u \in Earlier : u <= PrincipalCeiling /\ u <= PlatformCeiling
    /\ MaxFaults \in Nat

Time == 0 .. LastTime
utcDay(t) == t \div DayLength
Day == 0 .. utcDay(LastTime)

VARIABLES
    clock,     \* the present time
    rows,      \* rows[b]: the row of binding b, or NoRow
    nextId,    \* the next confirmation identifier
    shown,     \* history: the challenges that reached their client
    req,       \* req[q]: the request q
    principal, \* principal[p]: its counter of the day, or of an earlier one
    platform,  \* the counter of all principals
    left,      \* left[d]: what the shared ledger still grants on day d
    granted,   \* history: granted[d][p], units granted to p on day d
    smooth,    \* history: no two admissions overlapped, nor went back in days
    faults     \* how many calls have failed

storeVars == <<rows, nextId, shown>>
budgetVars == <<principal, platform, left, granted, smooth>>
vars == <<clock, storeVars, req, budgetVars, faults>>

-----------------------------------------------------------------------------
NoRow == [id |-> 0, expires |-> 0, spent |-> FALSE]
Row == [id : Nat, expires : Nat, spent : BOOLEAN]

\* Whose credential is submitted: the caller's own, somebody else's, none.
Credential == {"own", "other", "none"}

Phase == {"idle", "reserve", "take", "issue", "spend", "verify", "perform",
          "done"}

\* kind: what is asked; at: the clock reading the request is judged by;
\* took: this request spent the confirmation; spending: what verifyAndSpend
\* answered.
Request == [phase : Phase, kind : {"none", "challenge", "operation"},
            binding : Binding, id : Nat, credential : Credential, at : Nat,
            took : BOOLEAN,
            spending : {"none", "ok", "forbidden", "quota_exceeded", "unavailable"},
            answer : {"none", "ok", "forbidden", "quota_exceeded", "unavailable"}]

Idle == [phase |-> "idle", kind |-> "none", binding |-> CHOOSE b \in Binding : TRUE,
         id |-> 0, credential |-> "none", at |-> 0, took |-> FALSE,
         spending |-> "none", answer |-> "none"]

Counter == [day : Int, used : Nat]

Fault == faults < MaxFaults /\ faults' = faults + 1

By(q) == Owner[req[q].binding]

-----------------------------------------------------------------------------
\* Requests arrive.

\* issueChallenge: the statement is rendered and the clock is read.
AskChallenge(q) ==
    /\ req[q].phase = "idle"
    /\ \E b \in Binding :
          req' = [req EXCEPT ![q] = [Idle EXCEPT !.phase = "reserve",
                    !.kind = "challenge", !.binding = b, !.at = clock]]
    /\ UNCHANGED <<clock, storeVars, budgetVars, faults>>

\* enforce, of an operation: a client presents an identifier it was shown,
\* with this operation or with another one.
Submit(q) ==
    /\ req[q].phase = "idle"
    /\ \E b \in Binding, c \in shown, credential \in Credential :
          /\ Owner[b] = Owner[c.binding]
          /\ req' = [req EXCEPT ![q] = [Idle EXCEPT !.phase = "reserve",
                       !.kind = "operation", !.binding = b, !.id = c.id,
                       !.credential = credential, !.at = clock]]
    /\ UNCHANGED <<clock, storeVars, budgetVars, faults>>

-----------------------------------------------------------------------------
\* Admission.

\* A counter, rolled to the day of the request.
Rolled(counter, d) == IF counter.day = d THEN counter ELSE [day |-> d, used |-> 0]

\* Mutant: the last units of a ceiling are given twice.
FitsBelow(counter, ceiling) == counter.used < ceiling

Fits(counter, ceiling) == counter.used + Units <= ceiling

\* A request that got its units.
Granted(r) ==
    [r EXCEPT !.phase = IF r.kind = "challenge" THEN "issue" ELSE "spend"]

\* A request that gets no units: a challenge is refused, an operation still
\* has its credential verified.
NotAdmitted(r, code) ==
    IF r.kind = "challenge"
    THEN [r EXCEPT !.phase = "done", !.answer = code]
    ELSE [r EXCEPT !.phase = "verify", !.spending = code]

\* reserve, up to its await: both counters are rolled, the platform's ceiling
\* is checked before the principal's.
CheckCeilings(q) ==
    /\ req[q].phase = "reserve"
    /\ LET d == utcDay(req[q].at)
           all == Rolled(platform, d)
           own == Rolled(principal[By(q)], d) IN
       /\ platform' = all
       /\ IF ~ Fits(all, PlatformCeiling)
          THEN /\ req' = [req EXCEPT ![q] = NotAdmitted(@, "quota_exceeded")]
               /\ UNCHANGED principal
          ELSE /\ principal' = [principal EXCEPT ![By(q)] = own]
               /\ req' = [req EXCEPT ![q] =
                            IF Fits(own, PrincipalCeiling)
                            THEN [@ EXCEPT !.phase = "take"]
                            ELSE NotAdmitted(@, "quota_exceeded")]
       /\ smooth' = (/\ smooth
                     /\ \A o \in Req : req[o].phase # "take"
                     /\ platform.day <= d)
    /\ UNCHANGED <<clock, storeVars, left, granted, faults>>

\* What the shared ledger gives on day d; a share is not given back.
Taken(d) == IF left[d] < Units THEN left[d] ELSE Units

\* reserve, once the ledger answered: both counters are charged.
TakeFromLedger(q) ==
    /\ req[q].phase = "take"
    /\ LET d == utcDay(req[q].at)
           taken == Taken(d) IN
       /\ left' = [left EXCEPT ![d] = @ - taken]
       /\ IF taken < Units
          THEN /\ req' = [req EXCEPT ![q] = NotAdmitted(@, "quota_exceeded")]
               /\ UNCHANGED <<principal, platform, granted>>
          ELSE /\ req' = [req EXCEPT ![q] = Granted(@)]
               /\ principal' = [principal EXCEPT ![By(q)].used = @ + Units]
               /\ platform' = [platform EXCEPT !.used = @ + Units]
               /\ granted' = [granted EXCEPT ![d][By(q)] = @ + Units]
    /\ UNCHANGED <<clock, storeVars, smooth, faults>>

\* The ledger cannot be reached, before or after it charged the units.
LedgerFails(q) ==
    /\ req[q].phase = "take"
    /\ Fault
    /\ req' = [req EXCEPT ![q] = NotAdmitted(@, "unavailable")]
    /\ LET d == utcDay(req[q].at) IN
       \E taken \in {0, Taken(d)} :
          left' = [left EXCEPT ![d] = @ - taken]
    /\ UNCHANGED <<clock, storeVars, principal, platform, granted, smooth>>

-----------------------------------------------------------------------------
\* The table of confirmations.

\* The row a challenge leaves: new identifier, new expiry, not spent.
Issued(r) == [id |-> nextId, expires |-> r.at + Lifetime, spent |-> FALSE]

\* issue: a row of the same binding is replaced, spent or not; the client
\* sees the challenge unless the answer is lost.
StoreChallenge(q) ==
    /\ req[q].phase = "issue"
    /\ LET r == req[q]
           row == Issued(r)
           answered(code, id) ==
               [r EXCEPT !.phase = "done", !.answer = code, !.id = id] IN
       \/ /\ rows' = [rows EXCEPT ![r.binding] = row]
          /\ nextId' = nextId + 1
          /\ shown' = shown \cup {[id |-> row.id, binding |-> r.binding,
                                   expires |-> row.expires]}
          /\ req' = [req EXCEPT ![q] = answered("ok", row.id)]
          /\ UNCHANGED faults
       \/ /\ rows' = [rows EXCEPT ![r.binding] = row]
          /\ nextId' = nextId + 1
          /\ req' = [req EXCEPT ![q] = answered("unavailable", 0)]
          /\ Fault
          /\ UNCHANGED shown
       \/ /\ req' = [req EXCEPT ![q] = answered("unavailable", 0)]
          /\ Fault
          /\ UNCHANGED storeVars
    /\ UNCHANGED <<clock, budgetVars>>

\* Mutant: the identifier presented is not compared.
SpendableByAny(row, r) == row.id # 0 /\ ~ row.spent /\ row.expires > r.at
\* Mutant: a spent confirmation can be spent again.
SpendableAgain(row, r) == row.id # 0 /\ row.id = r.id /\ row.expires > r.at
\* Mutant: the expiry is not compared.
SpendableForever(row, r) == row.id # 0 /\ row.id = r.id /\ ~ row.spent

\* The condition of the update that spends.
Spendable(row, r) ==
    /\ row.id # 0
    /\ row.id = r.id
    /\ ~ row.spent
    /\ row.expires > r.at

\* spend: the check and the mark are one statement.
Spend(q) ==
    /\ req[q].phase = "spend"
    /\ LET r == req[q]
           took == Spendable(rows[r.binding], r)
           marked == [rows EXCEPT ![r.binding].spent = @ \/ took]
           verifying(code) == [r EXCEPT !.phase = "verify", !.spending = code] IN
       \/ /\ rows' = marked
          /\ req' = [req EXCEPT ![q] =
                       [verifying(IF took THEN "ok" ELSE "forbidden")
                            EXCEPT !.took = took]]
          /\ UNCHANGED faults
       \/ /\ rows' = marked   \* its answer is lost
          /\ req' = [req EXCEPT ![q] =
                       [verifying("unavailable") EXCEPT !.took = took]]
          /\ Fault
       \/ /\ req' = [req EXCEPT ![q] = verifying("unavailable")]
          /\ Fault
          /\ UNCHANGED rows
    /\ UNCHANGED <<clock, nextId, shown, budgetVars>>

\* Mutant: anybody's credential will do.
PresenceOfAnyone(r) == r.credential \in {"own", "other"}

\* Both halves must hold, and what failed is not told; a failure of a store
\* is told as itself.
Presence(r) == r.credential = "own"

\* The rest of enforce, once the credential store answered.
VerifyCredential(q) ==
    /\ req[q].phase = "verify"
    /\ LET r == req[q]
           refused(code) == [r EXCEPT !.phase = "done", !.answer = code] IN
       \/ /\ req' = [req EXCEPT ![q] =
                IF r.spending \in {"quota_exceeded", "unavailable"}
                THEN refused(r.spending)
                ELSE IF r.spending = "ok" /\ Presence(r)
                THEN [r EXCEPT !.phase = "perform"]
                ELSE refused("forbidden")]
          /\ UNCHANGED faults
       \/ /\ req' = [req EXCEPT ![q] = refused("unavailable")]
          /\ Fault
    /\ UNCHANGED <<clock, storeVars, budgetVars>>

\* The handler of the operation, which may still refuse or fail, and the
\* audit record, which may fail after it.
Perform(q) ==
    /\ req[q].phase = "perform"
    /\ \/ /\ \E code \in {"ok", "forbidden"} :
                req' = [req EXCEPT ![q] = [req[q] EXCEPT !.phase = "done",
                                                         !.answer = code]]
          /\ UNCHANGED faults
       \/ /\ req' = [req EXCEPT ![q] = [req[q] EXCEPT !.phase = "done",
                                                    !.answer = "unavailable"]]
          /\ Fault
    /\ UNCHANGED <<clock, storeVars, budgetVars>>

Tick ==
    /\ clock < LastTime
    /\ clock' = clock + 1
    /\ UNCHANGED <<storeVars, req, budgetVars, faults>>

-----------------------------------------------------------------------------
Init ==
    /\ clock = 0
    /\ rows = [b \in Binding |-> NoRow]
    /\ nextId = 1
    /\ shown = {}
    /\ req = [q \in Req |-> Idle]
    /\ \E early \in Principal, used \in Earlier :
          /\ principal = [p \in Principal |->
                            IF p = early THEN [day |-> 0, used |-> used]
                            ELSE [day |-> -1, used |-> 0]]
          /\ platform = [day |-> 0, used |-> used]
          /\ granted = [d \in Day |-> [p \in Principal |->
                          IF d = 0 /\ p = early THEN used ELSE 0]]
    /\ \E rest \in Remaining : left = [d \in Day |-> rest]
    /\ smooth = TRUE
    /\ faults = 0

Step(q) ==
    \/ AskChallenge(q) \/ Submit(q)
    \/ CheckCeilings(q) \/ TakeFromLedger(q) \/ LedgerFails(q)
    \/ StoreChallenge(q) \/ Spend(q) \/ VerifyCredential(q) \/ Perform(q)

Next == Tick \/ \E q \in Req : Step(q)

Spec == Init /\ [][Next]_vars

-----------------------------------------------------------------------------
\* Properties.

\* Everything has its type; the ledger never grants more than it has.
TypeOK ==
    /\ clock \in Time
    /\ rows \in [Binding -> Row]
    /\ nextId \in Nat \ {0}
    /\ shown \subseteq [id : Nat, binding : Binding, expires : Nat]
    /\ req \in [Req -> Request]
    /\ principal \in [Principal -> Counter]
    /\ platform \in Counter
    /\ left \in [Day -> Nat]
    /\ granted \in [Day -> [Principal -> Nat]]
    /\ smooth \in BOOLEAN
    /\ faults \in Nat

\* A confirmation lets one submission through at most, and one whose operation
\* failed, whose credential was wrong or whose answer was lost is used up: the
\* row is marked in the statement that checks it, and a challenge issued again
\* for the same binding never revives an identifier (spend, issue).
SingleUse ==
    \A p, q \in Req :
        req[p].took /\ req[q].took /\ req[p].id = req[q].id => p = q

\* What is performed is what a challenge told its principal: the identifier
\* was issued for that very binding, was alive at the time of the submission,
\* was taken by this submission, and the credential was the principal's own
\* (enforce, verifyAndSpend).
PerformedIsConfirmed ==
    \A q \in Req :
        (req[q].kind = "operation"
            /\ (req[q].phase = "perform" \/ req[q].answer = "ok"))
        => /\ req[q].took
           /\ req[q].credential = "own"
           /\ \E c \in shown : /\ c.id = req[q].id
                               /\ c.binding = req[q].binding
                               /\ c.expires > req[q].at

\* The ceilings of a day hold for one principal and for all together as long
\* as admissions did not overlap nor go back in days; the units are charged
\* after the shared ledger was awaited (reserve).
CeilingsHeldInTurn ==
    smooth => \A d \in Day :
        /\ \A p \in Principal : granted[d][p] <= PrincipalCeiling
        /\ SumFunctionOnSet(granted[d], Principal) <= PlatformCeiling
=============================================================================
