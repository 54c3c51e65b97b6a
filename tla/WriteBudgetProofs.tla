------------------------- MODULE WriteBudgetProofs -------------------------
(***************************************************************************)
(* Theorems about WriteBudget, for any Organizations, requests, ceilings   *)
(* and number of days.                                                     *)
(***************************************************************************)
EXTENDS WriteBudget, FiniteSetTheorems, WellFoundedInduction, TLAPS

-----------------------------------------------------------------------------
(* The operators on the state of a coordinator.                             *)

\* A roll gives a well-formed state of the day asked for, which holds what the
\* old one held only if the day is the same.
LEMMA RollLemma ==
    ASSUME NEW s \in CoordinatorState, NEW d \in Day
    PROVE  /\ rollWriteDay(s, d) \in CoordinatorState
           /\ rollWriteDay(s, d).day = d
           /\ s.day = d => rollWriteDay(s, d) = s
           /\ s.day # d => /\ rollWriteDay(s, d).used = 0
                           /\ rollWriteDay(s, d).permits = 0
  <1>1. d \in 0 .. LastDay
    BY WriteBudgetAssumption DEF Day
  <1>2. CASE s.day = d
    BY <1>2 DEF rollWriteDay
  <1>3. CASE s.day # d
    <2>1. rollWriteDay(s, d) =
            [day |-> d, used |-> 0, share |-> 0, permits |-> 0,
             exhausted |-> s.exhausted]
      BY <1>3 DEF rollWriteDay, CoordinatorState
    <2>2. s.exhausted \in 0 .. LastDay
      BY DEF CoordinatorState
    <2>3. QED
      BY <1>1, <1>3, <2>1, <2>2 DEF CoordinatorState
  <1>4. QED
    BY <1>2, <1>3

\* A purchase is a natural number.
LEMMA BuyLemma ==
    ASSUME NEW s \in CoordinatorState, NEW u \in Units
    PROVE  writePermitsToBuy(s, u) \in Nat
  BY WriteBudgetAssumption
     DEF writePermitsToBuy, CoordinatorState, Larger, Smaller

\* A credit adds the grant to the reserve of the day it was bought for.
LEMMA CreditLemma ==
    ASSUME NEW s \in CoordinatorState, NEW d \in Day, NEW g \in Nat,
           NEW a \in BOOLEAN
    PROVE  /\ creditWritePermits(s, g, d, a) \in CoordinatorState
           /\ creditWritePermits(s, g, d, a).day = d
           /\ creditWritePermits(s, g, d, a).used = rollWriteDay(s, d).used
           /\ creditWritePermits(s, g, d, a).permits
                = rollWriteDay(s, d).permits + g
  <1> DEFINE t == rollWriteDay(s, d)
  <1>1. t \in CoordinatorState /\ t.day = d
    BY RollLemma
  <1> HIDE DEF t
  <1> DEFINE e == IF a /\ g = 0 THEN d ELSE t.exhausted
  <1>2. e \in 0 .. LastDay
    BY <1>1, WriteBudgetAssumption DEF CoordinatorState, Day
  <1>3. creditWritePermits(s, g, d, a) =
          [t EXCEPT !.permits = t.permits + g, !.exhausted = e]
    BY DEF creditWritePermits, t
  <1> HIDE DEF e, t
  <1>4. creditWritePermits(s, g, d, a) =
          [day |-> t.day, used |-> t.used, share |-> t.share,
           permits |-> t.permits + g, exhausted |-> e]
    BY <1>1, <1>3 DEF CoordinatorState
  <1>5. creditWritePermits(s, g, d, a) \in CoordinatorState
    BY <1>1, <1>2, <1>4 DEF CoordinatorState
  <1>6. QED
    BY <1>1, <1>4, <1>5 DEF t

\* A write is granted only within the ceiling and the reserve, and charging it
\* moves its units from the reserve to what is used.
LEMMA ChargeLemma ==
    ASSUME NEW s \in CoordinatorState, NEW u \in Units, NEW origin \in Origin,
           admitWrite(s, u, origin) = "granted"
    PROVE  /\ chargeWrite(s, u, origin) \in CoordinatorState
           /\ chargeWrite(s, u, origin).day = s.day
           /\ chargeWrite(s, u, origin).used = s.used + u
           /\ chargeWrite(s, u, origin).used <= OrgCeiling
           /\ chargeWrite(s, u, origin).permits = s.permits - u
  <1>1. s.used + u <= OrgCeiling /\ u <= s.permits
    BY WriteBudgetAssumption
       DEF admitWrite, OverCeiling, OverShare, ShortOfPermits, CoordinatorState
  <1>2. u \in Nat
    BY WriteBudgetAssumption
  <1> DEFINE h == IF origin = "platform" THEN s.share + u ELSE s.share
  <1>3. h \in Nat
    BY <1>2 DEF CoordinatorState
  <1>4. chargeWrite(s, u, origin) =
          [s EXCEPT !.used = s.used + u, !.permits = s.permits - u,
                    !.share = h]
    BY DEF chargeWrite
  <1> HIDE DEF h
  <1>5. QED
    <2>1. chargeWrite(s, u, origin) =
            [day |-> s.day, used |-> s.used + u, share |-> h,
             permits |-> s.permits - u, exhausted |-> s.exhausted]
      BY <1>4 DEF CoordinatorState
    <2>2. QED
      BY <1>1, <1>2, <1>3, <2>1 DEF CoordinatorState

\* What the ledger grants is a natural number, and with what it has granted
\* before on that day it stays within the allocation.
LEMMA GrantLemma ==
    ASSUME TypeOK, NEW d \in Day, NEW w \in Nat
    PROVE  /\ LedgerGrant(d, w) \in Nat
           /\ LedgerUsed(d) \in Nat
           /\ LedgerUsed(d) <= Allocation
                => LedgerUsed(d) + LedgerGrant(d, w) <= Allocation
  BY WriteBudgetAssumption
     DEF LedgerGrant, LedgerUsed, Larger, Smaller, TypeOK

-----------------------------------------------------------------------------
(* Type correctness.                                                        *)

Request ==
    [phase : Phase, org : Org, units : Units, origin : Origin, day : Day,
     wanted : Nat, granted : Nat, answered : BOOLEAN]

\* The two tables that a grant changes keep their types.
LEMMA AddLemma ==
    ASSUME NEW f \in [Org -> [Day -> Nat]], NEW o \in Org, NEW d \in Day,
           NEW n \in Nat
    PROVE  /\ [f EXCEPT ![o][d] = @ + n] \in [Org -> [Day -> Nat]]
           /\ \A p \in Org, e \in Day :
                [f EXCEPT ![o][d] = @ + n][p][e] =
                   IF p = o /\ e = d THEN f[p][e] + n ELSE f[p][e]
  OBVIOUS

\* The whole of a decision keeps the types and moves the units of a granted
\* write from the reserve to the account of its Organization and day.
LEMMA DecideLemma ==
    ASSUME TypeOK, NEW r \in Req, NEW s \in CoordinatorState,
           AdmitAndPersist(r, s)
    PROVE  /\ mem' \in [Org -> CoordinatorState]
           /\ disk' \in [Org -> StoredBudget]
           /\ req' \in [Req -> Request]
           /\ charged' \in [Org -> [Day -> Nat]]
           /\ shared' \in [Org -> [Day -> Nat]]
  <1> DEFINE q == req[r]
             outcome == admitWrite(s, q.units, q.origin)
             t == IF outcome = "granted"
                  THEN chargeWrite(s, q.units, q.origin) ELSE s
  <1>1. q \in Request
    BY DEF TypeOK, Request
  <1>2. q.org \in Org /\ q.day \in Day /\ q.units \in Units /\ q.origin \in Origin
    BY <1>1 DEF Request
  <1>3. q.units \in Nat
    BY <1>2, WriteBudgetAssumption
  <1>4. t \in CoordinatorState
    BY <1>2, ChargeLemma
  <1>5. outcome \in Phase
    BY DEF admitWrite, Phase
  <1>6. persistWriteBudget(t) \in StoredBudget
    BY <1>4 DEF persistWriteBudget, CoordinatorState, StoredBudget
  <1>7. mem' = [mem EXCEPT ![q.org] = t]
    BY DEF AdmitAndPersist
  <1>8. disk' = [disk EXCEPT ![q.org] = persistWriteBudget(t)]
    BY DEF AdmitAndPersist
  <1>9. req' = [req EXCEPT ![r].phase = outcome]
    BY DEF AdmitAndPersist
  <1>10. charged' \in [Org -> [Day -> Nat]]
    BY <1>2, <1>3, AddLemma DEF AdmitAndPersist, TypeOK
  <1>11. shared' \in [Org -> [Day -> Nat]]
    BY <1>2, <1>3, AddLemma DEF AdmitAndPersist, TypeOK
  <1> HIDE DEF t, outcome
  <1>12. mem' \in [Org -> CoordinatorState]
    BY <1>2, <1>4, <1>7 DEF TypeOK
  <1>13. disk' \in [Org -> StoredBudget]
    BY <1>2, <1>6, <1>8 DEF TypeOK
  <1>14. req' \in [Req -> Request]
    BY <1>1, <1>5, <1>9 DEF TypeOK, Request
  <1>15. QED
    BY <1>10, <1>11, <1>12, <1>13, <1>14

\* What a request remembers has its type: the operands of its reservation.
LEMMA RequestLemma ==
    ASSUME TypeOK, NEW r \in Req
    PROVE  /\ req[r] \in Request
           /\ req[r].org \in Org
           /\ req[r].day \in Day
           /\ req[r].units \in Units
           /\ req[r].units \in Nat
           /\ req[r].origin \in Origin
           /\ req[r].wanted \in Nat
           /\ req[r].granted \in Nat
           /\ req[r].answered \in BOOLEAN
           /\ mem[req[r].org] \in CoordinatorState
           /\ disk[req[r].org] \in StoredBudget
  BY WriteBudgetAssumption DEF TypeOK, Request

\* The ledger's step keeps the types, whoever hears the answer.
LEMMA PermitsLemma ==
    ASSUME TypeOK, NEW r \in Req, NEW heard \in BOOLEAN,
           handlePermits(r, heard)
    PROVE  TypeOK'
  <1> DEFINE q == req[r]
             g == LedgerGrant(q.day, q.wanted)
  <1>1. g \in Nat /\ LedgerUsed(q.day) \in Nat /\ q.day \in Day
    BY RequestLemma, GrantLemma
  <1>2. ledger' \in [day : 0 .. LastDay, used : Nat]
    BY <1>1, WriteBudgetAssumption DEF handlePermits, Day
  <1>3. sold' \in [Day -> Nat]
    BY <1>1 DEF handlePermits, TypeOK
  <1>4. req' \in [Req -> Request]
    <2> DEFINE p == IF q.phase = "orphan" THEN "unavailable" ELSE "replied"
               h == IF heard THEN g ELSE 0
    <2>1. p \in Phase /\ h \in Nat
      BY <1>1 DEF Phase
    <2>2. req' = [req EXCEPT ![r] = [req[r] EXCEPT !.phase = p, !.granted = h,
                             !.answered = heard]]
      BY DEF handlePermits
    <2> HIDE DEF p, h
    <2>3. [req[r] EXCEPT !.phase = p, !.granted = h, !.answered = heard]
            \in Request
      BY <2>1, RequestLemma DEF Request
    <2>4. QED
      BY <2>2, <2>3 DEF TypeOK, Request
  <1>5. UNCHANGED <<today, mem, disk, credited, charged, shared>>
    BY DEF handlePermits
  <1>6. QED
    BY <1>2, <1>3, <1>4, <1>5 DEF TypeOK, Request

\* Every variable keeps its type through every step.
LEMMA TypeStep == TypeOK /\ [Next]_vars => TypeOK'
  <1> SUFFICES ASSUME TypeOK, [Next]_vars PROVE TypeOK'
    OBVIOUS
  <1>1. ASSUME NEW r \in Req, SendReserve(r) PROVE TypeOK'
    <2>1. "sent" \in Phase /\ today \in Day
      BY DEF Phase, TypeOK
    <2>2. req' = [req EXCEPT ![r] = [req[r] EXCEPT !.phase = "sent", !.day = today]]
      BY <1>1 DEF SendReserve
    <2>3. [req[r] EXCEPT !.phase = "sent", !.day = today] \in Request
      BY <2>1, RequestLemma DEF Request
    <2>4. req \in [Req -> Request]
      BY DEF TypeOK, Request
    <2>5. req' \in [Req -> Request]
      BY <2>2, <2>3, <2>4
    <2>6. QED
      BY <1>1, <2>5 DEF SendReserve, TypeOK, Request
  <1>2. ASSUME NEW r \in Req, ReserveMustBuy(r) PROVE TypeOK'
    <2> DEFINE s == rollWriteDay(mem[req[r].org], req[r].day)
               w == writePermitsToBuy(s, req[r].units)
    <2>1. s \in CoordinatorState
      BY RequestLemma, RollLemma
    <2>2. w \in Nat
      BY <2>1, RequestLemma, BuyLemma
    <2>3. /\ mem' = [mem EXCEPT ![req[r].org] = s]
          /\ req' = [req EXCEPT ![r] = [req[r] EXCEPT !.phase = "asking", !.wanted = w]]
          /\ UNCHANGED <<today, disk, ledger, sold, credited, charged, shared>>
      BY <1>2 DEF ReserveMustBuy
    <2> HIDE DEF s, w
    <2>4. "asking" \in Phase
      BY DEF Phase
    <2>5. req' \in [Req -> Request]
      BY <2>2, <2>3, <2>4, RequestLemma DEF TypeOK, Request
    <2>6. QED
      BY <2>1, <2>3, <2>5, RequestLemma DEF TypeOK, Request
  <1>3. ASSUME NEW r \in Req, ReserveWithoutBuying(r) PROVE TypeOK'
    <2>1. rollWriteDay(mem[req[r].org], req[r].day) \in CoordinatorState
      BY RequestLemma, RollLemma
    <2>2. /\ AdmitAndPersist(r, rollWriteDay(mem[req[r].org], req[r].day))
          /\ UNCHANGED <<today, ledger, sold, credited>>
      BY <1>3 DEF ReserveWithoutBuying
    <2>3. QED
      BY <2>1, <2>2, DecideLemma DEF TypeOK, Request
  <1>4. ASSUME NEW r \in Req, LedgerAnswers(r) PROVE TypeOK'
    BY <1>4, PermitsLemma DEF LedgerAnswers
  <1>5. ASSUME NEW r \in Req, LedgerAnswerLost(r) PROVE TypeOK'
    BY <1>5, PermitsLemma DEF LedgerAnswerLost
  <1>6. ASSUME NEW r \in Req, LedgerAnswersNobody(r) PROVE TypeOK'
    BY <1>6, PermitsLemma DEF LedgerAnswersNobody
  <1>7. ASSUME NEW r \in Req, LedgerUnreachable(r) PROVE TypeOK'
    <2>1. "replied" \in Phase
      BY DEF Phase
    <2>2. req' = [req EXCEPT ![r] = [req[r] EXCEPT !.phase = "replied", !.granted = 0,
                             !.answered = FALSE]]
      BY <1>7 DEF LedgerUnreachable
    <2>3. [req[r] EXCEPT !.phase = "replied", !.granted = 0,
                         !.answered = FALSE] \in Request
      BY <2>1, RequestLemma DEF Request
    <2>4. req' \in [Req -> Request]
      BY <2>2, <2>3, RequestLemma DEF TypeOK, Request
    <2>5. QED
      BY <1>7, <2>4 DEF LedgerUnreachable, TypeOK, Request
  <1>8. ASSUME NEW r \in Req, ReserveResumes(r) PROVE TypeOK'
    <2> DEFINE q == req[r]
               s == creditWritePermits(mem[q.org], q.granted, q.day, q.answered)
    <2>1. s \in CoordinatorState
      BY RequestLemma, CreditLemma
    <2>2. /\ AdmitAndPersist(r, s)
          /\ credited' = [credited EXCEPT ![q.org][q.day] = @ + q.granted]
          /\ UNCHANGED <<today, ledger, sold>>
      BY <1>8 DEF ReserveResumes
    <2>3. credited' \in [Org -> [Day -> Nat]]
      BY <2>2, RequestLemma, AddLemma DEF TypeOK
    <2> HIDE DEF s
    <2>4. QED
      BY <2>1, <2>2, <2>3, DecideLemma DEF TypeOK, Request
  <1>9. ASSUME NEW o \in Org, Evict(o) PROVE TypeOK'
    <2>1. hydrate(disk[o]) \in CoordinatorState
      BY WriteBudgetAssumption
         DEF hydrate, TypeOK, StoredBudget, CoordinatorState
    <2>2. mem' \in [Org -> CoordinatorState]
      BY <1>9, <2>1 DEF Evict, TypeOK
    <2>3. req' \in [Req -> Request]
      <3>1. "orphan" \in Phase /\ "unavailable" \in Phase
        BY DEF Phase
      <3>2. \A r \in Req :
              /\ [req[r] EXCEPT !.phase = "orphan"] \in Request
              /\ [req[r] EXCEPT !.phase = "unavailable"] \in Request
              /\ req[r] \in Request
        BY <3>1, RequestLemma DEF Request
      <3>3. QED
        BY <1>9, <3>2 DEF Evict
    <2>4. QED
      BY <1>9, <2>2, <2>3 DEF Evict, TypeOK, Request
  <1>10. ASSUME Midnight PROVE TypeOK'
    BY <1>10, WriteBudgetAssumption DEF Midnight, TypeOK, Day
  <1>11. CASE UNCHANGED vars
    BY <1>11 DEF vars, TypeOK
  <1>12. QED
    BY <1>1, <1>2, <1>3, <1>4, <1>5, <1>6, <1>7, <1>8, <1>9, <1>10, <1>11
       DEF Next

\* Every variable of the write budget keeps its type in every execution:
\* in particular no counter of a coordinator or of the ledger is ever
\* negative, although permits and ceilings are subtracted from each other.
THEOREM TypeCorrect == Spec => []TypeOK
  <1>1. Init => TypeOK
    <2> SUFFICES ASSUME Init PROVE TypeOK
      OBVIOUS
    <2>1. 1 \in Day /\ 0 \in 0 .. LastDay
      BY WriteBudgetAssumption DEF Day
    <2>2. createCoordinationState \in CoordinatorState
      BY <2>1 DEF createCoordinationState, CoordinatorState
    <2>3. persistWriteBudget(createCoordinationState) \in StoredBudget
      BY <2>1 DEF createCoordinationState, persistWriteBudget, StoredBudget
    <2>4. req \in [Req -> Request]
      <3>1. [phase : {"unborn"}, org : Org, units : Units, origin : Origin,
             day : {1}, wanted : {0}, granted : {0}, answered : {FALSE}]
              \subseteq Request
        <4>1. {"unborn"} \subseteq Phase /\ {1} \subseteq Day
          BY <2>1 DEF Phase
        <4>2. {0} \subseteq Nat /\ {FALSE} \subseteq BOOLEAN
          OBVIOUS
        <4>3. QED
          BY <4>1, <4>2, Zenon DEF Request
      <3>2. QED
        BY <3>1 DEF Init
    <2>5. QED
      BY <2>1, <2>2, <2>3, <2>4 DEF Init, TypeOK, Request
  <1>2. QED
    BY <1>1, TypeStep, PTL DEF Spec

-----------------------------------------------------------------------------
(* Permits.                                                                 *)

\* A decision moves some n units, possibly none, from the reserve to what is
\* used, in memory and in the row, and charges the same n to the account of
\* the Organization; if there are any the ceiling has room for them.
LEMMA AccountLemma ==
    ASSUME TypeOK, NEW r \in Req, NEW s \in CoordinatorState,
           AdmitAndPersist(r, s)
    PROVE  \E t \in CoordinatorState, n \in Nat :
             /\ t.day = s.day
             /\ t.used = s.used + n
             /\ t.permits = s.permits - n
             /\ n = 0 \/ t.used <= OrgCeiling
             /\ mem' = [mem EXCEPT ![req[r].org] = t]
             /\ disk' = [disk EXCEPT ![req[r].org] = persistWriteBudget(t)]
             /\ \A p \in Org, e \in Day :
                  charged'[p][e] = IF p = req[r].org /\ e = req[r].day
                                   THEN charged[p][e] + n ELSE charged[p][e]
  <1> DEFINE q == req[r]
  <1>1. /\ q.org \in Org /\ q.day \in Day /\ q.units \in Units
        /\ q.units \in Nat /\ q.origin \in Origin
    BY RequestLemma
  <1>2. CASE admitWrite(s, q.units, q.origin) = "granted"
    <2> DEFINE t == chargeWrite(s, q.units, q.origin)
    <2>1. /\ t \in CoordinatorState /\ t.day = s.day
          /\ t.used = s.used + q.units /\ t.used <= OrgCeiling
          /\ t.permits = s.permits - q.units
      BY <1>1, <1>2, ChargeLemma
    <2>2. /\ mem' = [mem EXCEPT ![q.org] = t]
          /\ disk' = [disk EXCEPT ![q.org] = persistWriteBudget(t)]
          /\ charged' = [charged EXCEPT ![q.org][q.day] = @ + q.units]
      BY <1>2 DEF AdmitAndPersist
    <2>3. \A p \in Org, e \in Day :
            charged'[p][e] = IF p = q.org /\ e = q.day
                             THEN charged[p][e] + q.units ELSE charged[p][e]
      BY <1>1, <2>2, AddLemma DEF TypeOK
    <2> HIDE DEF t
    <2>4. QED
      BY <1>1, <2>1, <2>2, <2>3
  <1>3. CASE admitWrite(s, q.units, q.origin) # "granted"
    <2>1. /\ mem' = [mem EXCEPT ![q.org] = s]
          /\ disk' = [disk EXCEPT ![q.org] = persistWriteBudget(s)]
          /\ charged' = charged
      BY <1>3 DEF AdmitAndPersist
    <2>2. \A p \in Org, e \in Day : charged[p][e] \in Nat
      BY DEF TypeOK
    <2>3. \A p \in Org, e \in Day :
            charged'[p][e] = IF p = q.org /\ e = q.day
                             THEN charged[p][e] + 0 ELSE charged[p][e]
      BY <2>1, <2>2
    <2>4. s.used = s.used + 0 /\ s.permits = s.permits - 0
      BY DEF CoordinatorState
    <2>5. QED
      BY <2>1, <2>3, <2>4
  <1>4. QED
    BY <1>2, <1>3

\* A decision made on a state s of day d keeps the permits accounted for, if
\* what s holds and what was charged are covered by what is credited after it.
LEMMA ConservationLemma ==
    ASSUME TypeOK, PermitConservation, NEW r \in Req,
           NEW s \in CoordinatorState, AdmitAndPersist(r, s),
           s.day = req[r].day,
           charged[req[r].org][req[r].day] + s.permits
             <= credited'[req[r].org][req[r].day],
           credited' \in [Org -> [Day -> Nat]],
           \A o \in Org, d \in Day : credited[o][d] <= credited'[o][d]
    PROVE  PermitConservation'
  <1> DEFINE q == req[r]
  <1>1. PICK t \in CoordinatorState, n \in Nat :
             /\ t.day = s.day
             /\ t.used = s.used + n
             /\ t.permits = s.permits - n
             /\ n = 0 \/ t.used <= OrgCeiling
             /\ mem' = [mem EXCEPT ![q.org] = t]
             /\ disk' = [disk EXCEPT ![q.org] = persistWriteBudget(t)]
             /\ \A p \in Org, e \in Day :
                  charged'[p][e] = IF p = q.org /\ e = q.day
                                   THEN charged[p][e] + n ELSE charged[p][e]
    BY AccountLemma
  <1>2. /\ q.org \in Org /\ q.day \in Day
        /\ t.permits \in Nat /\ s.permits \in Nat
    BY RequestLemma DEF CoordinatorState
  <1> SUFFICES ASSUME NEW o \in Org, NEW d \in Day
               PROVE  /\ charged'[o][d] + HeldFor(o, d)' <= credited'[o][d]
                      /\ charged'[o][d] + StoredFor(o, d)' <= credited'[o][d]
    BY DEF PermitConservation
  <1>3. /\ charged[o][d] \in Nat /\ credited[o][d] \in Nat
        /\ credited'[o][d] \in Nat
        /\ charged[o][d] + HeldFor(o, d) <= credited[o][d]
        /\ charged[o][d] + StoredFor(o, d) <= credited[o][d]
        /\ HeldFor(o, d) \in Nat /\ StoredFor(o, d) \in Nat
        /\ credited[o][d] <= credited'[o][d]
    BY DEF TypeOK, PermitConservation, HeldFor, StoredFor, CoordinatorState,
           StoredBudget
  <1>4. CASE o # q.org
    <2>1. /\ mem'[o] = mem[o] /\ disk'[o] = disk[o]
          /\ charged'[o][d] = charged[o][d]
      BY <1>1, <1>4 DEF TypeOK
    <2>2. HeldFor(o, d)' = HeldFor(o, d) /\ StoredFor(o, d)' = StoredFor(o, d)
      BY <2>1 DEF HeldFor, StoredFor
    <2>3. QED
      BY <1>3, <2>1, <2>2
  <1>5. CASE o = q.org
    <2>1. /\ HeldFor(o, d)' = IF d = q.day THEN t.permits ELSE 0
          /\ StoredFor(o, d)' = IF d = q.day THEN t.permits ELSE 0
      BY <1>1, <1>2, <1>5 DEF HeldFor, StoredFor, persistWriteBudget, TypeOK
    <2>2. charged'[o][d] = IF d = q.day THEN charged[o][d] + n ELSE charged[o][d]
      BY <1>1, <1>5
    <2>3. CASE d = q.day
      BY <1>1, <1>2, <1>3, <1>5, <2>1, <2>2, <2>3
    <2>4. CASE d # q.day
      BY <1>3, <2>1, <2>2, <2>4
    <2>5. QED
      BY <2>3, <2>4
  <1>6. QED
    BY <1>4, <1>5

\* A roll never adds to what is held for the day it rolls to.
LEMMA HeldAfterRoll ==
    ASSUME TypeOK, PermitConservation, NEW o \in Org, NEW d \in Day
    PROVE  /\ rollWriteDay(mem[o], d).permits \in Nat
           /\ charged[o][d] + rollWriteDay(mem[o], d).permits <= credited[o][d]
  <1>1. /\ mem[o] \in CoordinatorState
        /\ charged[o][d] \in Nat /\ credited[o][d] \in Nat
        /\ charged[o][d] + HeldFor(o, d) <= credited[o][d]
        /\ HeldFor(o, d) \in Nat
    BY DEF TypeOK, PermitConservation, HeldFor, CoordinatorState
  <1>2. rollWriteDay(mem[o], d).permits = HeldFor(o, d)
    BY <1>1, RollLemma DEF HeldFor
  <1>3. QED
    BY <1>1, <1>2

LEMMA ConservationStep ==
    TypeOK /\ PermitConservation /\ [Next]_vars => PermitConservation'
  <1> SUFFICES ASSUME TypeOK, PermitConservation, [Next]_vars
               PROVE  PermitConservation'
    OBVIOUS
  <1>1. \A o \in Org, d \in Day :
          /\ charged[o][d] \in Nat /\ credited[o][d] \in Nat
          /\ HeldFor(o, d) \in Nat /\ StoredFor(o, d) \in Nat
    BY DEF TypeOK, HeldFor, StoredFor, CoordinatorState, StoredBudget
  <1>2. ASSUME NEW r \in Req, ReserveMustBuy(r) PROVE PermitConservation'
    <2> DEFINE q == req[r]
               s == rollWriteDay(mem[q.org], q.day)
    <2>1. /\ s \in CoordinatorState /\ s.day = q.day
          /\ q.org \in Org /\ q.day \in Day
      BY RequestLemma, RollLemma
    <2>2. /\ mem' = [mem EXCEPT ![q.org] = s]
          /\ UNCHANGED <<disk, credited, charged>>
      BY <1>2 DEF ReserveMustBuy
    <2>3. charged[q.org][q.day] + s.permits <= credited[q.org][q.day]
      BY <2>1, HeldAfterRoll
    <2> HIDE DEF s
    <2>4. ASSUME NEW o \in Org, NEW d \in Day
          PROVE  charged[o][d] + HeldFor(o, d)' <= credited[o][d]
      <3>1. CASE o = q.org /\ d = q.day
        BY <2>1, <2>2, <2>3, <3>1 DEF HeldFor, TypeOK
      <3>2. CASE o = q.org /\ d # q.day
        <4>1. HeldFor(o, d)' = 0
          BY <2>1, <2>2, <3>2 DEF HeldFor, TypeOK
        <4>2. charged[o][d] <= credited[o][d]
          BY <1>1 DEF PermitConservation
        <4>3. QED
          BY <1>1, <4>1, <4>2
      <3>3. CASE o # q.org
        BY <2>1, <2>2, <3>3 DEF HeldFor, TypeOK, PermitConservation
      <3>4. QED
        BY <3>1, <3>2, <3>3
    <2>5. QED
      BY <2>2, <2>4 DEF PermitConservation, StoredFor
  <1>3. ASSUME NEW r \in Req, ReserveWithoutBuying(r) PROVE PermitConservation'
    <2> DEFINE q == req[r]
               s == rollWriteDay(mem[q.org], q.day)
    <2>1. /\ s \in CoordinatorState /\ s.day = q.day
          /\ q.org \in Org /\ q.day \in Day
      BY RequestLemma, RollLemma
    <2>2. AdmitAndPersist(r, s) /\ credited' = credited
      BY <1>3 DEF ReserveWithoutBuying
    <2>3. charged[q.org][q.day] + s.permits <= credited[q.org][q.day]
      BY <2>1, HeldAfterRoll
    <2> HIDE DEF s
    <2>4. credited' \in [Org -> [Day -> Nat]]
      BY <2>2 DEF TypeOK
    <2>5. \A o \in Org, d \in Day : credited[o][d] <= credited'[o][d]
      BY <1>1, <2>2
    <2>6. QED
      BY <2>1, <2>2, <2>3, <2>4, <2>5, ConservationLemma
  <1>4. ASSUME NEW r \in Req, ReserveResumes(r) PROVE PermitConservation'
    <2> DEFINE q == req[r]
               u == rollWriteDay(mem[q.org], q.day)
               s == creditWritePermits(mem[q.org], q.granted, q.day, q.answered)
    <2>1. /\ q.org \in Org /\ q.day \in Day /\ q.granted \in Nat
          /\ q.answered \in BOOLEAN /\ mem[q.org] \in CoordinatorState
      BY RequestLemma
    <2>2. /\ s \in CoordinatorState /\ s.day = q.day
          /\ s.permits = u.permits + q.granted
      BY <2>1, CreditLemma
    <2>3. /\ AdmitAndPersist(r, s)
          /\ credited' = [credited EXCEPT ![q.org][q.day] = @ + q.granted]
      BY <1>4 DEF ReserveResumes
    <2>4. /\ u.permits \in Nat
          /\ charged[q.org][q.day] + u.permits <= credited[q.org][q.day]
      BY <2>1, HeldAfterRoll
    <2> HIDE DEF s, u
    <2>5. credited' \in [Org -> [Day -> Nat]]
      BY <2>1, <2>3, AddLemma DEF TypeOK
    <2>6. \A o \in Org, d \in Day :
            credited'[o][d] = IF o = q.org /\ d = q.day
                              THEN credited[o][d] + q.granted
                              ELSE credited[o][d]
      BY <2>1, <2>3, AddLemma DEF TypeOK
    <2>7. \A o \in Org, d \in Day : credited[o][d] <= credited'[o][d]
      BY <1>1, <2>1, <2>6
    <2>8. charged[q.org][q.day] + s.permits <= credited'[q.org][q.day]
      BY <1>1, <2>1, <2>2, <2>4, <2>6
    <2>9. QED
      BY <2>2, <2>3, <2>5, <2>7, <2>8, ConservationLemma
  <1>5. ASSUME NEW o \in Org, Evict(o) PROVE PermitConservation'
    <2>1. /\ mem' = [mem EXCEPT ![o] = hydrate(disk[o])]
          /\ UNCHANGED <<disk, credited, charged>>
      BY <1>5 DEF Evict
    <2>2. \A p \in Org, d \in Day :
            HeldFor(p, d)' = IF p = o THEN StoredFor(p, d) ELSE HeldFor(p, d)
      BY <2>1 DEF HeldFor, StoredFor, hydrate, TypeOK
    <2>3. QED
      BY <2>1, <2>2 DEF PermitConservation, StoredFor
  <1>6. ASSUME UNCHANGED <<mem, disk, credited, charged>>
        PROVE  PermitConservation'
    BY <1>6 DEF PermitConservation, HeldFor, StoredFor
  <1>7. QED
    BY <1>2, <1>3, <1>4, <1>5, <1>6
       DEF Next, vars, SendReserve, LedgerAnswers, LedgerAnswerLost,
           LedgerAnswersNobody, LedgerUnreachable, handlePermits, Midnight

\* No row-write is ever reserved without a permit the ledger granted to that
\* Organization for that day, and no permit is spent twice: whatever the order
\* in which requests of different days are handled, whatever answers are lost
\* and whenever coordinators are evicted.
THEOREM PermitsConserved == Spec => []PermitConservation
  <1>1. Init => PermitConservation
    BY DEF Init, PermitConservation, HeldFor, StoredFor,
           createCoordinationState, persistWriteBudget
  <1>2. QED
    BY <1>1, TypeCorrect, ConservationStep, PTL DEF Spec

-----------------------------------------------------------------------------
(* The ceilings, when no request straddles midnight.                        *)
(* Neither ceiling is inductive: what stops a coordinator is the number it  *)
(* keeps, so the proof needs that this number, and the row it restarts      *)
(* from, are what the day was really charged.  That is BooksBalance.        *)

Ceilings == BooksBalance /\ OrgCeilingHeld /\ AllocationHeld

\* A decision on a state that knows today's account keeps the books and both
\* ceilings.
LEMMA DecisionKeepsBooks ==
    ASSUME TypeOK, Ceilings, NEW r \in Req, InFlight(r),
           NEW s \in CoordinatorState, AdmitAndPersist(r, s),
           s.day = req[r].day, s.used = charged[req[r].org][today],
           UNCHANGED <<today, ledger, sold>>
    PROVE  Ceilings'
  <1> DEFINE q == req[r]
  <1>1. PICK t \in CoordinatorState, n \in Nat :
             /\ t.day = s.day
             /\ t.used = s.used + n
             /\ t.permits = s.permits - n
             /\ n = 0 \/ t.used <= OrgCeiling
             /\ mem' = [mem EXCEPT ![q.org] = t]
             /\ disk' = [disk EXCEPT ![q.org] = persistWriteBudget(t)]
             /\ \A p \in Org, e \in Day :
                  charged'[p][e] = IF p = q.org /\ e = q.day
                                   THEN charged[p][e] + n ELSE charged[p][e]
    BY AccountLemma
  <1>2. /\ q.org \in Org /\ q.day = today /\ today \in Day
        /\ \A o \in Org, d \in Day : charged[o][d] \in Nat
    BY RequestLemma DEF Ceilings, BooksBalance, TypeOK
  <1>3. t.day = today /\ t.used \in Nat /\ t.used = charged[q.org][today] + n
    BY <1>1, <1>2 DEF CoordinatorState
  <1>4. today \in Nat /\ \A d \in Day : d \in Nat
    BY <1>2, WriteBudgetAssumption DEF Day
  <1>5. OrgCeilingHeld'
    BY <1>1, <1>2, <1>3 DEF OrgCeilingHeld, Ceilings
  <1>6. AllocationHeld'
    BY DEF AllocationHeld, Ceilings
  <1>7. ASSUME NEW x \in Req, InFlight(x)' PROVE req'[x].day = today'
    <2>1. PICK p \in Phase : req' = [req EXCEPT ![r].phase = p]
      BY DEF AdmitAndPersist, admitWrite, Phase
    <2>2. req'[x].day = req[x].day /\ (x # r => req'[x] = req[x])
      BY <2>1 DEF TypeOK
    <2>3. InFlight(x)
      BY <1>7, <2>2 DEF InFlight
    <2>4. QED
      BY <2>2, <2>3 DEF Ceilings, BooksBalance
  <1>8. ASSUME NEW o \in Org
        PROVE  /\ mem'[o].day <= today'
               /\ disk'[o].day <= today'
               /\ charged'[o][today'] = UsedToday(mem[o])'
               /\ charged'[o][today'] = UsedToday(disk[o])'
               /\ \A d \in Day : d > today' => charged'[o][d] = 0
    <2>1. CASE o = q.org
      <3>1. /\ mem'[o] = t /\ disk'[o].day = t.day /\ disk'[o].used = t.used
        BY <1>1, <1>2, <2>1 DEF persistWriteBudget, TypeOK
      <3>2. charged'[o][today] = t.used
        BY <1>1, <1>2, <1>3, <2>1
      <3>3. ASSUME NEW d \in Day, d > today PROVE charged'[o][d] = 0
        <4>1. d # q.day
          BY <1>2, <1>4, <3>3
        <4>2. charged[o][d] = 0
          BY <3>3 DEF Ceilings, BooksBalance
        <4>3. QED
          BY <1>1, <4>1, <4>2
      <3>4. QED
        BY <1>3, <1>4, <3>1, <3>2, <3>3 DEF UsedToday
    <2>2. CASE o # q.org
      <3>1. /\ mem'[o] = mem[o] /\ disk'[o] = disk[o]
            /\ \A d \in Day : charged'[o][d] = charged[o][d]
        BY <1>1, <2>2 DEF TypeOK
      <3>2. QED
        BY <1>2, <3>1 DEF Ceilings, BooksBalance, UsedToday
    <2>3. QED
      BY <2>1, <2>2
  <1>9. /\ ledger'.day <= today'
        /\ sold'[today'] = LedgerUsed(today)'
        /\ \A d \in Day : d > today' => sold'[d] = 0
    BY DEF Ceilings, BooksBalance, LedgerUsed
  <1>10. QED
    BY <1>5, <1>6, <1>7, <1>8, <1>9 DEF Ceilings, BooksBalance

\* What a coordinator knows of today once it has rolled to it.
LEMMA RollKnowsToday ==
    ASSUME TypeOK, Ceilings, NEW o \in Org
    PROVE  rollWriteDay(mem[o], today).used = charged[o][today]
  <1>1. mem[o] \in CoordinatorState /\ today \in Day
    BY DEF TypeOK
  <1>2. charged[o][today] = UsedToday(mem[o])
    BY DEF Ceilings, BooksBalance
  <1>3. QED
    BY <1>1, <1>2, RollLemma DEF UsedToday

\* The ledger's step keeps the books and the allocation.
LEMMA GrantKeepsBooks ==
    ASSUME TypeOK, Ceilings, NEW r \in Req, InFlight(r),
           NEW heard \in BOOLEAN, handlePermits(r, heard)
    PROVE  Ceilings'
  <1> DEFINE q == req[r]
             g == LedgerGrant(q.day, q.wanted)
  <1>1. /\ q.day = today /\ today \in Day /\ q.wanted \in Nat
    BY RequestLemma DEF Ceilings, BooksBalance, TypeOK
  <1>2. /\ g \in Nat /\ LedgerUsed(today) \in Nat
        /\ LedgerUsed(today) <= Allocation
             => LedgerUsed(today) + g <= Allocation
    BY <1>1, GrantLemma
  <1>3. /\ sold[today] = LedgerUsed(today) /\ sold[today] <= Allocation
        /\ \A d \in Day : sold[d] \in Nat
    BY <1>1 DEF Ceilings, BooksBalance, AllocationHeld, TypeOK
  <1>4. today \in Nat /\ \A d \in Day : d \in Nat
    BY <1>1, WriteBudgetAssumption DEF Day
  <1>5. /\ ledger' = [day |-> today, used |-> LedgerUsed(today) + g]
        /\ sold' = [sold EXCEPT ![today] = @ + g]
        /\ UNCHANGED <<today, mem, disk, charged>>
    BY <1>1 DEF handlePermits
  <1> HIDE DEF g
  <1>6. \A d \in Day : sold'[d] = IF d = today THEN sold[d] + g ELSE sold[d]
    BY <1>1, <1>5 DEF TypeOK
  <1>7. AllocationHeld'
    BY <1>1, <1>2, <1>3, <1>6 DEF AllocationHeld, Ceilings
  <1>8. OrgCeilingHeld'
    BY <1>5 DEF OrgCeilingHeld, Ceilings
  <1>9. ASSUME NEW x \in Req, InFlight(x)' PROVE req'[x].day = today'
    <2>1. req'[x].day = req[x].day /\ (x # r => req'[x] = req[x])
      BY DEF handlePermits, TypeOK
    <2>2. InFlight(x)
      BY <1>9, <2>1 DEF InFlight
    <2>3. QED
      BY <1>5, <2>1, <2>2 DEF Ceilings, BooksBalance
  <1>10. /\ ledger'.day <= today'
         /\ sold'[today'] = LedgerUsed(today)'
         /\ \A d \in Day : d > today' => sold'[d] = 0
    BY <1>1, <1>3, <1>4, <1>5, <1>6 DEF Ceilings, BooksBalance, LedgerUsed
  <1>11. QED
    BY <1>5, <1>7, <1>8, <1>9, <1>10 DEF Ceilings, BooksBalance, UsedToday

LEMMA CeilingStep ==
    TypeOK /\ Ceilings /\ [QuietNext]_vars => Ceilings'
  <1> SUFFICES ASSUME TypeOK, Ceilings, [QuietNext]_vars PROVE Ceilings'
    OBVIOUS
  <1>1. ASSUME NEW r \in Req, SendReserve(r) PROVE Ceilings'
    <2>1. \A x \in Req : InFlight(x)' => req'[x].day = today
      BY <1>1 DEF SendReserve, InFlight, Ceilings, BooksBalance, TypeOK
    <2>2. UNCHANGED <<today, mem, disk, ledger, sold, charged>>
      BY <1>1 DEF SendReserve
    <2>3. QED
      BY <2>1, <2>2 DEF Ceilings, BooksBalance, OrgCeilingHeld,
                        AllocationHeld, UsedToday, LedgerUsed
  <1>2. ASSUME NEW r \in Req, ReserveMustBuy(r) PROVE Ceilings'
    <2> DEFINE q == req[r]
               s == rollWriteDay(mem[q.org], q.day)
    <2>1. InFlight(r)
      BY <1>2 DEF ReserveMustBuy, InFlight
    <2>2. /\ q.day = today /\ today \in Day /\ q.org \in Org
          /\ mem[q.org] \in CoordinatorState
      BY <2>1, RequestLemma DEF Ceilings, BooksBalance, TypeOK
    <2>3. s.day = today /\ s.used = charged[q.org][today]
      BY <2>2, RollLemma, RollKnowsToday
    <2> DEFINE w == writePermitsToBuy(s, q.units)
    <2>4. /\ mem' = [mem EXCEPT ![q.org] = s]
          /\ req' = [req EXCEPT ![r] = [req[r] EXCEPT !.phase = "asking", !.wanted = w]]
          /\ UNCHANGED <<today, disk, ledger, sold, charged>>
      BY <1>2 DEF ReserveMustBuy
    <2> HIDE DEF s, w
    <2>5. ASSUME NEW x \in Req, InFlight(x)' PROVE req'[x].day = today
      <3>1. /\ req'[x].day = req[x].day
            /\ x # r => req'[x] = req[x]
        BY <2>4 DEF TypeOK
      <3>2. InFlight(x)
        BY <2>1, <2>5, <3>1 DEF InFlight
      <3>3. QED
        BY <3>1, <3>2 DEF Ceilings, BooksBalance
    <2>6. \A o \in Org : mem'[o] = IF o = q.org THEN s ELSE mem[o]
      BY <2>2, <2>4 DEF TypeOK
    <2>7. today \in Nat
      BY <2>2, WriteBudgetAssumption DEF Day
    <2>8. \A o \in Org : mem'[o].day <= today
                         /\ charged[o][today] = UsedToday(mem[o])'
      BY <2>3, <2>4, <2>6, <2>7 DEF UsedToday, Ceilings, BooksBalance
    <2>9. QED
      BY <2>4, <2>5, <2>8 DEF Ceilings, BooksBalance, OrgCeilingHeld,
                              AllocationHeld, UsedToday, LedgerUsed
  <1>3. ASSUME NEW r \in Req, ReserveWithoutBuying(r) PROVE Ceilings'
    <2> DEFINE q == req[r]
               s == rollWriteDay(mem[q.org], q.day)
    <2>1. InFlight(r)
      BY <1>3 DEF ReserveWithoutBuying, InFlight
    <2>2. /\ q.day = today /\ today \in Day /\ q.org \in Org
          /\ mem[q.org] \in CoordinatorState
      BY <2>1, RequestLemma DEF Ceilings, BooksBalance, TypeOK
    <2>3. /\ s \in CoordinatorState /\ s.day = q.day
          /\ s.used = charged[q.org][today]
      BY <2>2, RollLemma, RollKnowsToday
    <2>4. AdmitAndPersist(r, s) /\ UNCHANGED <<today, ledger, sold>>
      BY <1>3 DEF ReserveWithoutBuying
    <2> HIDE DEF s
    <2>5. QED
      BY <2>1, <2>3, <2>4, DecisionKeepsBooks
  <1>4. ASSUME NEW r \in Req, ReserveResumes(r) PROVE Ceilings'
    <2> DEFINE q == req[r]
               s == creditWritePermits(mem[q.org], q.granted, q.day, q.answered)
    <2>1. InFlight(r)
      BY <1>4 DEF ReserveResumes, InFlight
    <2>2. /\ q.day = today /\ today \in Day /\ q.org \in Org
          /\ mem[q.org] \in CoordinatorState
          /\ q.granted \in Nat /\ q.answered \in BOOLEAN
      BY <2>1, RequestLemma DEF Ceilings, BooksBalance, TypeOK
    <2>3. /\ s \in CoordinatorState /\ s.day = q.day
          /\ s.used = charged[q.org][today]
      BY <2>2, CreditLemma, RollKnowsToday
    <2>4. AdmitAndPersist(r, s) /\ UNCHANGED <<today, ledger, sold>>
      BY <1>4 DEF ReserveResumes
    <2> HIDE DEF s
    <2>5. QED
      BY <2>1, <2>3, <2>4, DecisionKeepsBooks
  <1>5. ASSUME NEW r \in Req, LedgerAnswers(r) PROVE Ceilings'
    BY <1>5, GrantKeepsBooks DEF LedgerAnswers, InFlight
  <1>6. ASSUME NEW r \in Req, LedgerAnswerLost(r) PROVE Ceilings'
    BY <1>6, GrantKeepsBooks DEF LedgerAnswerLost, InFlight
  <1>7. ASSUME NEW r \in Req, LedgerAnswersNobody(r) PROVE Ceilings'
    BY <1>7, GrantKeepsBooks DEF LedgerAnswersNobody, InFlight
  <1>8. ASSUME NEW r \in Req, LedgerUnreachable(r) PROVE Ceilings'
    <2>1. \A x \in Req : /\ req'[x].day = req[x].day
                         /\ x # r => req'[x] = req[x]
      BY <1>8 DEF LedgerUnreachable, TypeOK
    <2>2. InFlight(r)
      BY <1>8 DEF LedgerUnreachable, InFlight
    <2>3. UNCHANGED <<today, mem, disk, ledger, sold, charged>>
      BY <1>8 DEF LedgerUnreachable
    <2>4. ASSUME NEW x \in Req, InFlight(x)' PROVE req'[x].day = today'
      <3>1. InFlight(x)
        BY <2>1, <2>2, <2>4 DEF InFlight
      <3>2. QED
        BY <2>1, <2>3, <3>1 DEF Ceilings, BooksBalance
    <2>5. QED
      BY <2>3, <2>4 DEF Ceilings, BooksBalance, OrgCeilingHeld,
                        AllocationHeld, UsedToday, LedgerUsed
  <1>9. ASSUME NEW o \in Org, Evict(o) PROVE Ceilings'
    <2>1. ASSUME NEW x \in Req, InFlight(x)' PROVE req'[x].day = today
      <3>1. req'[x].day = req[x].day
        BY <1>9, RequestLemma DEF Evict, Request
      <3>2. InFlight(x)
        BY <1>9, <2>1, RequestLemma DEF Evict, InFlight, Request
      <3>3. QED
        BY <3>1, <3>2 DEF Ceilings, BooksBalance
    <2>2. /\ mem' = [mem EXCEPT ![o] = hydrate(disk[o])]
          /\ UNCHANGED <<today, disk, ledger, sold, charged>>
      BY <1>9 DEF Evict
    <2>3. /\ mem'[o].day = disk[o].day /\ mem'[o].used = disk[o].used
          /\ \A p \in Org \ {o} : mem'[p] = mem[p]
      BY <2>2 DEF hydrate, TypeOK
    <2>4. \A p \in Org : /\ mem'[p].day <= today
                         /\ charged[p][today] = UsedToday(mem[p])'
      BY <2>2, <2>3 DEF UsedToday, Ceilings, BooksBalance
    <2>5. QED
      BY <2>1, <2>2, <2>4 DEF Ceilings, BooksBalance, OrgCeilingHeld,
                              AllocationHeld, UsedToday, LedgerUsed
  <1>10. ASSUME Midnight, QuietMidnight PROVE Ceilings'
    <2>1. /\ today \in Day /\ today' = today + 1 /\ today' \in Day
          /\ today \in Nat
          /\ UNCHANGED <<mem, disk, ledger, req, sold, charged>>
      BY <1>10, WriteBudgetAssumption DEF Midnight, TypeOK, Day
    <2>2. \A x \in Req : ~InFlight(x)'
      BY <1>10, <2>1 DEF QuietMidnight, InFlight
    <2>3. \A o \in Org : /\ mem[o].day \in Nat /\ disk[o].day \in Nat
                         /\ mem[o].day <= today /\ disk[o].day <= today
                         /\ charged[o][today + 1] = 0
      BY <2>1, WriteBudgetAssumption
         DEF TypeOK, CoordinatorState, StoredBudget, Ceilings, BooksBalance
    <2>4. \A o \in Org : UsedToday(mem[o])' = 0 /\ UsedToday(disk[o])' = 0
      BY <2>1, <2>3 DEF UsedToday
    <2>5. ledger.day \in Nat /\ ledger.day <= today /\ sold[today + 1] = 0
      BY <2>1, WriteBudgetAssumption DEF TypeOK, Ceilings, BooksBalance
    <2>6. LedgerUsed(today)' = 0
      BY <2>1, <2>5 DEF LedgerUsed
    <2>7. \A d \in Day : d \in Nat
      BY WriteBudgetAssumption DEF Day
    <2>8. QED
      BY <2>1, <2>2, <2>3, <2>4, <2>5, <2>6, <2>7
         DEF Ceilings, BooksBalance, OrgCeilingHeld, AllocationHeld
  <1>11. CASE UNCHANGED vars
    BY <1>11 DEF vars, Ceilings, BooksBalance, OrgCeilingHeld, AllocationHeld,
                 UsedToday, LedgerUsed, InFlight
  <1>12. QED
    BY <1>1, <1>2, <1>3, <1>4, <1>5, <1>6, <1>7, <1>8, <1>9, <1>10, <1>11
       DEF QuietNext, Next

\* The books balance and both ceilings hold, together.
LEMMA CeilingsAlways == QuietSpec => []Ceilings
  <1>1. Init => Ceilings
    <2> SUFFICES ASSUME Init PROVE Ceilings
      OBVIOUS
    <2>1. 1 \in Day /\ today = 1 /\ \A d \in Day : d \in Nat
      BY WriteBudgetAssumption DEF Init, Day
    <2>2. /\ \A o \in Org : /\ mem[o].day = 0 /\ mem[o].used = 0
                           /\ disk[o].day = 0 /\ disk[o].used = 0
          /\ ledger.day = 0 /\ ledger.used = 0
      BY DEF Init, createCoordinationState, persistWriteBudget
    <2>3. /\ \A o \in Org, d \in Day : charged[o][d] = 0
          /\ \A d \in Day : sold[d] = 0
      BY DEF Init
    <2>4. \A r \in Req : ~InFlight(r)
      BY DEF Init, InFlight
    <2>5. OrgCeilingHeld /\ AllocationHeld
      BY <2>3, WriteBudgetAssumption DEF OrgCeilingHeld, AllocationHeld
    <2>6. BooksBalance
      BY <2>1, <2>2, <2>3, <2>4 DEF BooksBalance, UsedToday, LedgerUsed
    <2>7. QED
      BY <2>5, <2>6 DEF Ceilings
  <1>2. QuietSpec => Spec
    BY PTL DEF QuietSpec, Spec, QuietNext
  <1>3. QED
    BY <1>1, <1>2, TypeCorrect, CeilingStep, PTL DEF QuietSpec

\* As long as no request straddles midnight, no Organization ever reserves
\* more than its daily ceiling, through overlapping purchases, lost ledger
\* answers and evictions of its coordinator.
THEOREM OrgCeilingAlways == QuietSpec => []OrgCeilingHeld
  <1>1. Ceilings => OrgCeilingHeld
    BY DEF Ceilings
  <1>2. QED
    BY <1>1, CeilingsAlways, PTL

\* As long as no request straddles midnight, the ledger never grants more
\* permits for a day than the day's allocation.
THEOREM AllocationAlways == QuietSpec => []AllocationHeld
  <1>1. Ceilings => AllocationHeld
    BY DEF Ceilings
  <1>2. QED
    BY <1>1, CeilingsAlways, PTL

-----------------------------------------------------------------------------
(* Sums over a finite set.                                                   *)
(* SumFunctionOnSet picks one element after the other, by CHOOSE; its        *)
(* recursion is a function on the subsets.                                   *)

Pick(s) == CHOOSE x \in s : TRUE

Adds(iter, f, S) ==
    iter = [s \in SUBSET S |-> IF s = {} THEN 0 ELSE f[Pick(s)] + iter[s \ {Pick(s)}]]

\* What holds of the empty set, and of a set when it does without its pick,
\* holds of every finite set.
LEMMA ByPicks ==
    ASSUME NEW S, IsFiniteSet(S), NEW G, {} \in G,
           \A s \in SUBSET S : s # {} /\ s \ {Pick(s)} \in G => s \in G
    PROVE  SUBSET S \subseteq G
  <1>1. PICK bad : bad = (SUBSET S) \ G
    OBVIOUS
  <1>2. SUFFICES ASSUME bad # {} PROVE FALSE
    BY <1>1
  <1>3. bad \subseteq FiniteSubsetsOf(S)
    BY <1>1, FS_Subset DEF FiniteSubsetsOf
  <1>4. PICK s \in bad : \A t \in bad : <<t, s>> \notin StrictSubsetOrdering(S)
    BY <1>2, <1>3, FS_StrictSubsetOrderingWellFounded, WFMin
  <1>5. s \in SUBSET S /\ s # {}
    BY <1>1
  <1>6. PICK t : t = s \ {Pick(s)}
    OBVIOUS
  <1>7. Pick(s) \in s
    BY <1>5 DEF Pick
  <1>8. t \in SUBSET S /\ t \subseteq s /\ t # s
    BY <1>5, <1>6, <1>7
  <1>9. <<t, s>> \in StrictSubsetOrdering(S)
    BY <1>5, <1>8 DEF StrictSubsetOrdering
  <1>10. t \in G
    BY <1>1, <1>4, <1>8, <1>9
  <1>11. QED
    BY <1>1, <1>5, <1>6, <1>10

\* The recursion has a solution.
LEMMA AddsExists ==
    ASSUME NEW S, IsFiniteSet(S), NEW f
    PROVE  \E iter : Adds(iter, f, S)
  <1> DEFINE Upto(n) == {s \in SUBSET S : Cardinality(s) <= n}
             Sums(g, s) == IF s = {} THEN 0 ELSE f[Pick(s)] + g[s \ {Pick(s)}]
             Solved == {n \in Nat : \E g : g = [s \in Upto(n) |-> Sums(g, s)]}
  <1>1. \A s \in SUBSET S : /\ IsFiniteSet(s) /\ Cardinality(s) \in Nat
                            /\ s # {} => /\ Pick(s) \in s
                                         /\ s \ {Pick(s)} \in SUBSET S
                                         /\ Cardinality(s \ {Pick(s)}) = Cardinality(s) - 1
    <2>1. ASSUME NEW s \in SUBSET S PROVE IsFiniteSet(s) /\ Cardinality(s) \in Nat
      BY FS_Subset, FS_CardinalityType
    <2>2. ASSUME NEW s \in SUBSET S, s # {}
          PROVE  /\ Pick(s) \in s /\ s \ {Pick(s)} \in SUBSET S
                 /\ Cardinality(s \ {Pick(s)}) = Cardinality(s) - 1
      <3>1. Pick(s) \in s
        BY <2>2 DEF Pick
      <3>2. QED
        BY <2>1, <3>1, FS_RemoveElement
    <2>3. QED
      BY <2>1, <2>2
  <1>2. 0 \in Solved
    <2>1. PICK g : g = [s \in Upto(0) |-> 0]
      OBVIOUS
    <2>2. ASSUME NEW s \in Upto(0) PROVE s = {}
      <3>1. Cardinality(s) <= 0 /\ Cardinality(s) \in Nat /\ IsFiniteSet(s)
        BY <1>1, <2>2
      <3>2. QED
        BY <1>1, <3>1, FS_EmptySet
    <2>3. g = [s \in Upto(0) |-> Sums(g, s)]
      BY <2>1, <2>2
    <2>4. QED
      BY <2>3
  <1>3. ASSUME NEW n \in Solved PROVE n + 1 \in Solved
    <2>1. PICK g : g = [s \in Upto(n) |-> Sums(g, s)]
      OBVIOUS
    <2>2. PICK h : h = [s \in Upto(n + 1) |-> Sums(g, s)]
      OBVIOUS
    <2>3. ASSUME NEW s \in Upto(n) PROVE s \in Upto(n + 1) /\ h[s] = g[s]
      <3>1. n \in Nat /\ Cardinality(s) \in Nat
        BY <1>1
      <3>2. s \in Upto(n + 1)
        BY <3>1
      <3>3. h[s] = Sums(g, s) /\ g[s] = Sums(g, s)
        <4> HIDE DEF Upto, Sums
        <4>1. QED
          BY <2>1, <2>2, <2>3, <3>2
      <3>4. QED
        BY <3>2, <3>3
    <2>4. ASSUME NEW s \in Upto(n + 1) PROVE Sums(g, s) = Sums(h, s)
      <3>1. CASE s = {}
        BY <3>1
      <3>2. CASE s # {}
        <4>1. s \ {Pick(s)} \in Upto(n)
          BY <1>1, <3>2
        <4>2. h[s \ {Pick(s)}] = g[s \ {Pick(s)}]
          BY <2>3, <4>1
        <4>3. QED
          BY <3>2, <4>2
      <3>3. QED
        BY <3>1, <3>2
    <2>5. h = [s \in Upto(n + 1) |-> Sums(h, s)]
      <3> HIDE DEF Upto, Sums
      <3>1. QED
        BY <2>2, <2>4
    <2>6. n + 1 \in Nat
      OBVIOUS
    <2>7. QED
      <3> HIDE DEF Upto, Sums
      <3>1. QED
        BY <2>5, <2>6
  <1>4. Solved = Nat
    <2>1. SUFFICES ASSUME Nat \ Solved # {} PROVE FALSE
      OBVIOUS
    <2>2. PICK bad : bad = Nat \ Solved
      OBVIOUS
    <2>3. PICK n \in bad : \A k \in bad : <<k, n>> \notin OpToRel(<, Nat)
      <3> HIDE DEF Solved
      <3>1. bad \subseteq Nat /\ bad # {}
        BY <2>1, <2>2
      <3>2. QED
        BY <3>1, NatLessThanWellFounded, WFMin
    <2>4. n \in Nat /\ n # 0 /\ n - 1 \in Nat
      <3> HIDE DEF Solved
      <3>1. n \in Nat /\ n # 0
        BY <1>2, <2>2, <2>3
      <3>2. QED
        BY <3>1
    <2>5. n - 1 \notin bad
      <3> HIDE DEF Solved
      <3>1. <<n - 1, n>> \in OpToRel(<, Nat)
        BY <2>4 DEF OpToRel
      <3>2. QED
        BY <2>3, <3>1
    <2>6. QED
      <3>1. n - 1 \in Solved
        BY <2>2, <2>4, <2>5
      <3>2. (n - 1) + 1 = n
        BY <2>4
      <3>3. (n - 1) + 1 \in Solved
        BY <1>3, <3>1
      <3> HIDE DEF Solved
      <3>4. n \in Solved
        BY <3>2, <3>3
      <3>5. QED
        BY <2>2, <3>4
  <1>5. Cardinality(S) \in Solved
    BY <1>1, <1>4
  <1>6. PICK g : g = [s \in Upto(Cardinality(S)) |-> Sums(g, s)]
    BY <1>5
  <1>7. Upto(Cardinality(S)) = SUBSET S
    BY FS_Subset
  <1>8. Adds(g, f, S)
    BY <1>6, <1>7 DEF Adds
  <1>9. QED
    BY <1>8

\* The sum is a solution of it.
LEMMA SumRule ==
    ASSUME NEW S, IsFiniteSet(S), NEW f
    PROVE  \E iter : Adds(iter, f, S) /\ SumFunctionOnSet(f, S) = iter[S]
  <1>1. SumFunctionOnSet(f, S) = (CHOOSE iter : Adds(iter, f, S))[S]
    BY DEF SumFunctionOnSet, FoldFunctionOnSet, MapThenFoldSet, Adds, Pick
  <1>2. QED
    BY <1>1, AddsExists

\* A sum of numbers is one.
LEMMA SumType ==
    ASSUME NEW S, IsFiniteSet(S), NEW f, \A x \in S : f[x] \in Nat
    PROVE  SumFunctionOnSet(f, S) \in Nat
  <1>1. PICK iter : Adds(iter, f, S) /\ SumFunctionOnSet(f, S) = iter[S]
    BY SumRule
  <1>2. PICK G : G = {s \in SUBSET S : iter[s] \in Nat}
    OBVIOUS
  <1>3. {} \in G
    BY <1>1, <1>2 DEF Adds
  <1>4. ASSUME NEW s \in SUBSET S, s # {}, s \ {Pick(s)} \in G PROVE s \in G
    <2>1. iter[s] = f[Pick(s)] + iter[s \ {Pick(s)}] /\ Pick(s) \in s
      BY <1>1, <1>4 DEF Adds, Pick
    <2>2. QED
      BY <1>2, <1>4, <2>1
  <1>5. S \in G
    BY <1>3, <1>4, ByPicks
  <1>6. QED
    BY <1>1, <1>2, <1>5

\* If g exceeds f at most by k, and that at y alone, so does its sum.
LEMMA SumGrows ==
    ASSUME NEW S, IsFiniteSet(S), NEW f, NEW g, NEW y, NEW k \in Int,
           \A x \in S : f[x] \in Int /\ g[x] \in Int,
           \A x \in S : g[x] <= f[x] + (IF x = y THEN k ELSE 0)
    PROVE  /\ SumFunctionOnSet(f, S) \in Int /\ SumFunctionOnSet(g, S) \in Int
           /\ SumFunctionOnSet(g, S) <= SumFunctionOnSet(f, S) + (IF y \in S THEN k ELSE 0)
  <1>1. PICK i : Adds(i, f, S) /\ SumFunctionOnSet(f, S) = i[S]
    BY SumRule
  <1>2. PICK j : Adds(j, g, S) /\ SumFunctionOnSet(g, S) = j[S]
    BY SumRule
  <1>3. PICK G : G = {s \in SUBSET S : /\ i[s] \in Int /\ j[s] \in Int
                                       /\ j[s] <= i[s] + (IF y \in s THEN k ELSE 0)}
    OBVIOUS
  <1>4. {} \in G
    BY <1>1, <1>2, <1>3 DEF Adds
  <1>5. ASSUME NEW s \in SUBSET S, s # {}, s \ {Pick(s)} \in G PROVE s \in G
    <2>1. PICK x \in s : x = Pick(s)
      BY <1>5 DEF Pick
    <2>2. PICK t : t = s \ {x}
      OBVIOUS
    <2>3. i[s] = f[x] + i[t] /\ j[s] = g[x] + j[t]
      BY <1>1, <1>2, <1>5, <2>1, <2>2 DEF Adds
    <2>4. i[t] \in Int /\ j[t] \in Int /\ j[t] <= i[t] + (IF y \in t THEN k ELSE 0)
      BY <1>3, <1>5, <2>1, <2>2
    <2>5. f[x] \in Int /\ g[x] \in Int /\ g[x] <= f[x] + (IF x = y THEN k ELSE 0)
      OBVIOUS
    <2>6. y \in s <=> y \in t \/ y = x
      BY <2>2
    <2>7. x \notin t
      BY <2>2
    <2>8. i[s] \in Int /\ j[s] \in Int
      BY <2>3, <2>4, <2>5
    <2>9. j[s] <= i[s] + (IF y \in s THEN k ELSE 0)
      BY <2>3, <2>4, <2>5, <2>6, <2>7
    <2>10. QED
      BY <1>3, <2>8, <2>9
  <1>6. S \in G
    BY <1>4, <1>5, ByPicks
  <1>7. QED
    BY <1>1, <1>2, <1>3, <1>6

\* Nothing adds up to nothing.
LEMMA SumOfNothing ==
    ASSUME NEW S, IsFiniteSet(S), NEW f, \A x \in S : f[x] = 0
    PROVE  SumFunctionOnSet(f, S) = 0
  <1>1. PICK iter : Adds(iter, f, S) /\ SumFunctionOnSet(f, S) = iter[S]
    BY SumRule
  <1>2. PICK G : G = {s \in SUBSET S : iter[s] = 0}
    OBVIOUS
  <1>3. {} \in G
    BY <1>1, <1>2 DEF Adds
  <1>4. ASSUME NEW s \in SUBSET S, s # {}, s \ {Pick(s)} \in G PROVE s \in G
    <2>1. iter[s] = f[Pick(s)] + iter[s \ {Pick(s)}] /\ Pick(s) \in s
      BY <1>1, <1>4 DEF Adds, Pick
    <2>2. QED
      BY <1>2, <1>4, <2>1
  <1>5. S \in G
    BY <1>3, <1>4, ByPicks
  <1>6. QED
    BY <1>1, <1>2, <1>5

-----------------------------------------------------------------------------
(* What the coordinators were credited with was granted to them.             *)
(* The sum of the credits alone is not inductive: a grant may still be on    *)
(* its way, in the answer that a request is about to resume with.            *)

\* What a request in state q waits with for day d, and all of them together.
Waits(q, d) == IF q.phase = "replied" /\ q.day = d THEN q.granted ELSE 0
Coming(d) == SumFunctionOnSet([r \in Req |-> Waits(req[r], d)], Req)

Backed == \A d \in Day : AllOf(credited, d) + Coming(d) <= sold[d]

\* One request may wait with j more than before, and one coordinator be credited
\* with k more, if the ledger grants j + k.
LEMMA BackedMoves ==
    ASSUME TypeOK, TypeOK', NEW d \in Day, NEW r, NEW o, NEW j \in Int, NEW k \in Int,
           r \in Req \/ j = 0, o \in Org \/ k = 0,
           \A x \in Req : Waits(req'[x], d) <= Waits(req[x], d) + (IF x = r THEN j ELSE 0),
           \A p \in Org : credited'[p][d] <= credited[p][d] + (IF p = o THEN k ELSE 0),
           sold[d] + j + k <= sold'[d],
           AllOf(credited, d) + Coming(d) <= sold[d]
    PROVE  AllOf(credited', d) + Coming(d)' <= sold'[d]
  <1>1. PICK f : f = [x \in Req |-> Waits(req[x], d)]
    OBVIOUS
  <1>2. PICK g : g = [x \in Req |-> Waits(req'[x], d)]
    OBVIOUS
  <1>3. \A x \in Req : f[x] \in Int /\ g[x] \in Int
    BY <1>1, <1>2 DEF Waits, TypeOK
  <1>4. \A x \in Req : g[x] <= f[x] + (IF x = r THEN j ELSE 0)
    BY <1>1, <1>2
  <1>5. /\ SumFunctionOnSet(f, Req) \in Int /\ SumFunctionOnSet(g, Req) \in Int
        /\ SumFunctionOnSet(g, Req) <= SumFunctionOnSet(f, Req) + j
    BY <1>3, <1>4, SumGrows, WriteBudgetAssumption
  <1>6. PICK a : a = [p \in Org |-> credited[p][d]]
    OBVIOUS
  <1>7. PICK b : b = [p \in Org |-> credited'[p][d]]
    OBVIOUS
  <1>8. \A p \in Org : a[p] \in Int /\ b[p] \in Int
    BY <1>6, <1>7 DEF TypeOK
  <1>9. \A p \in Org : b[p] <= a[p] + (IF p = o THEN k ELSE 0)
    BY <1>6, <1>7
  <1>10. /\ SumFunctionOnSet(a, Org) \in Int /\ SumFunctionOnSet(b, Org) \in Int
         /\ SumFunctionOnSet(b, Org) <= SumFunctionOnSet(a, Org) + k
    BY <1>8, <1>9, SumGrows, WriteBudgetAssumption
  <1>11. /\ Coming(d) = SumFunctionOnSet(f, Req) /\ Coming(d)' = SumFunctionOnSet(g, Req)
    BY <1>1, <1>2 DEF Coming
  <1>12. /\ AllOf(credited, d) = SumFunctionOnSet(a, Org)
         /\ AllOf(credited', d) = SumFunctionOnSet(b, Org)
    BY <1>6, <1>7 DEF AllOf
  <1>13. sold[d] \in Int /\ sold'[d] \in Int
    BY DEF TypeOK
  <1>14. QED
    BY <1>5, <1>10, <1>11, <1>12, <1>13

\* A step that grants nothing, credits nothing and gives no answer.
LEMMA BackedWaits ==
    ASSUME TypeOK, TypeOK', Backed, UNCHANGED <<sold, credited>>,
           \A x \in Req, d \in Day : Waits(req'[x], d) <= Waits(req[x], d)
    PROVE  Backed'
  <1> SUFFICES ASSUME NEW d \in Day PROVE AllOf(credited', d) + Coming(d)' <= sold'[d]
    BY DEF Backed
  <1>1. \A x \in Req : Waits(req[x], d) \in Int
    BY DEF Waits, TypeOK
  <1>2. \A p \in Org : credited[p][d] \in Int /\ credited'[p][d] = credited[p][d]
    BY DEF TypeOK
  <1>3. sold[d] + 0 + 0 <= sold'[d]
    BY DEF TypeOK
  <1>4. \A x \in Req : Waits(req'[x], d) <= Waits(req[x], d) + 0
    BY <1>1
  <1>5. \A p \in Org : credited'[p][d] <= credited[p][d] + 0
    BY <1>2
  <1>6. QED
    BY <1>3, <1>4, <1>5, BackedMoves DEF Backed

\* The ledger grants.
LEMMA BackedGrants ==
    ASSUME TypeOK, TypeOK', Backed, NEW r \in Req, NEW heard \in BOOLEAN,
           req[r].phase \in {"asking", "orphan"}, handlePermits(r, heard)
    PROVE  Backed'
  <1> DEFINE q == req[r]
  <1>1. PICK g \in Nat : g = LedgerGrant(q.day, q.wanted)
    BY RequestLemma, GrantLemma
  <1>2. PICK y \in Request : /\ req' = [req EXCEPT ![r] = y]
                             /\ y.day = q.day /\ y.granted <= g
    <2>1. PICK p : p = IF q.phase = "orphan" THEN "unavailable" ELSE "replied"
      OBVIOUS
    <2>2. PICK h : h = IF heard THEN g ELSE 0
      OBVIOUS
    <2>3. PICK y : y = [req[r] EXCEPT !.phase = p, !.granted = h, !.answered = heard]
      OBVIOUS
    <2>4. p \in Phase /\ h \in Nat /\ h <= g
      BY <2>1, <2>2 DEF Phase
    <2>5. y \in Request /\ y.day = q.day /\ y.granted = h
      BY <2>3, <2>4, RequestLemma DEF Request
    <2>6. req' = [req EXCEPT ![r] = y]
      BY <1>1, <2>1, <2>2, <2>3 DEF handlePermits
    <2>7. QED
      BY <2>4, <2>5, <2>6
  <1>3. sold' = [sold EXCEPT ![q.day] = sold[q.day] + g] /\ credited' = credited
    BY <1>1 DEF handlePermits
  <1> SUFFICES ASSUME NEW d \in Day PROVE AllOf(credited', d) + Coming(d)' <= sold'[d]
    BY DEF Backed
  <1>4. PICK j \in Nat : j = IF d = q.day THEN g ELSE 0
    OBVIOUS
  <1>5. \A x \in Req : Waits(req'[x], d) <= Waits(req[x], d) + (IF x = r THEN j ELSE 0)
    <2>1. Waits(y, d) <= j /\ Waits(req[r], d) = 0
      BY <1>2, <1>4 DEF Waits, Request
    <2>2. \A x \in Req : Waits(req[x], d) \in Nat
      BY DEF Waits, TypeOK
    <2>3. \A x \in Req : req'[x] = IF x = r THEN y ELSE req[x]
      BY <1>2 DEF TypeOK
    <2>4. Waits(y, d) \in Nat
      BY <1>2 DEF Waits, Request
    <2>5. QED
      BY <2>1, <2>2, <2>3, <2>4
  <1>6. \A p \in Org : credited'[p][d] <= credited[p][d] + 0
    BY <1>3 DEF TypeOK
  <1>7. sold[d] + j + 0 <= sold'[d]
    BY <1>3, <1>4, RequestLemma DEF TypeOK
  <1>8. QED
    BY <1>5, <1>6, <1>7, BackedMoves DEF Backed

\* A coordinator resumes with what it was granted.
LEMMA BackedResumes ==
    ASSUME TypeOK, TypeOK', Backed, NEW r \in Req, ReserveResumes(r)
    PROVE  Backed'
  <1> DEFINE q == req[r]
  <1>1. /\ q.org \in Org /\ q.day \in Day /\ q.phase = "replied"
        /\ q.granted \in Nat
    BY RequestLemma DEF ReserveResumes
  <1>2. PICK outcome \in Phase : req' = [req EXCEPT ![r].phase = outcome]
                                 /\ outcome # "replied"
    <2>1. PICK s : AdmitAndPersist(r, s)
      BY DEF ReserveResumes
    <2>2. PICK outcome : outcome = admitWrite(s, q.units, q.origin)
      OBVIOUS
    <2>3. outcome \in Phase /\ outcome # "replied"
      BY <2>2 DEF admitWrite, Phase
    <2>4. req' = [req EXCEPT ![r].phase = outcome]
      BY <2>1, <2>2 DEF AdmitAndPersist
    <2>5. QED
      BY <2>3, <2>4
  <1>3. \A p \in Org, e \in Day :
           credited'[p][e] = IF p = q.org /\ e = q.day
                             THEN credited[p][e] + q.granted ELSE credited[p][e]
    BY <1>1, AddLemma DEF ReserveResumes, TypeOK
  <1> SUFFICES ASSUME NEW d \in Day PROVE AllOf(credited', d) + Coming(d)' <= sold'[d]
    BY DEF Backed
  <1>4. PICK k \in Nat : k = IF d = q.day THEN q.granted ELSE 0
    BY <1>1
  <1>5. -k \in Int /\ sold'[d] = sold[d] /\ sold[d] \in Nat
    BY DEF ReserveResumes, TypeOK
  <1>6. \A x \in Req : Waits(req'[x], d) <= Waits(req[x], d) + (IF x = r THEN -k ELSE 0)
    <2>1. Waits(req[r], d) = k
      BY <1>1, <1>4 DEF Waits
    <2>2. req'[r].phase = outcome /\ \A x \in Req \ {r} : req'[x] = req[x]
      BY <1>2 DEF TypeOK
    <2>3. Waits(req'[r], d) = 0
      BY <1>2, <2>2 DEF Waits
    <2>4. \A x \in Req : Waits(req[x], d) \in Nat
      BY DEF Waits, TypeOK
    <2>5. QED
      BY <2>1, <2>2, <2>3, <2>4
  <1>7. \A p \in Org : credited'[p][d] <= credited[p][d] + (IF p = q.org THEN k ELSE 0)
    BY <1>3, <1>4 DEF TypeOK
  <1>8. sold[d] + (-k) + k <= sold'[d]
    BY <1>5
  <1>9. q.org \in Org
    BY <1>1
  <1>10. QED
    BY <1>5, <1>6, <1>7, <1>8, <1>9, BackedMoves DEF Backed

LEMMA BackedStep ==
    ASSUME TypeOK, TypeOK', Backed, [Next]_vars
    PROVE  Backed'
  <1>1. ASSUME NEW r \in Req, NEW y \in Request, y.phase # "replied" \/ y.granted = 0,
               req' = [req EXCEPT ![r] = y], UNCHANGED <<sold, credited>>
        PROVE  Backed'
    <2>1. \A x \in Req : req'[x] = IF x = r THEN y ELSE req[x]
      BY <1>1 DEF TypeOK
    <2>2. \A x \in Req, d \in Day : Waits(req[x], d) \in Nat /\ Waits(y, d) = 0
      BY <1>1 DEF Waits, TypeOK
    <2>3. QED
      BY <1>1, <2>1, <2>2, BackedWaits
  <1>2. ASSUME NEW r \in Req, SendReserve(r) PROVE Backed'
    <2>1. PICK d \in Day : d = today
      BY DEF TypeOK
    <2>2. PICK y : y = [req[r] EXCEPT !.phase = "sent", !.day = d]
      OBVIOUS
    <2>3. y \in Request /\ y.phase = "sent"
      BY <2>2, RequestLemma DEF Request, Phase
    <2>4. QED
      BY <1>1, <1>2, <2>1, <2>2, <2>3 DEF SendReserve
  <1>3. ASSUME NEW r \in Req, ReserveMustBuy(r) PROVE Backed'
    <2>1. PICK w : req' = [req EXCEPT ![r] = [req[r] EXCEPT !.phase = "asking", !.wanted = w]]
      BY <1>3 DEF ReserveMustBuy
    <2>2. PICK y : y = [req[r] EXCEPT !.phase = "asking", !.wanted = w]
      OBVIOUS
    <2>3. req' = [req EXCEPT ![r] = y]
      BY <2>1, <2>2
    <2>4. y \in Request /\ y.phase = "asking"
      <3>1. req'[r] = y /\ req'[r] \in Request
        BY <2>3 DEF TypeOK, Request
      <3>2. QED
        BY <2>2, <3>1, RequestLemma DEF Request
    <2>5. QED
      BY <1>1, <1>3, <2>3, <2>4 DEF ReserveMustBuy
  <1>4. ASSUME NEW r \in Req, ReserveWithoutBuying(r) PROVE Backed'
    <2>1. PICK outcome \in Phase : req' = [req EXCEPT ![r].phase = outcome]
                                   /\ outcome # "replied"
      BY <1>4 DEF ReserveWithoutBuying, AdmitAndPersist, admitWrite, Phase
    <2>2. PICK y : y = [req[r] EXCEPT !.phase = outcome]
      OBVIOUS
    <2>3. y \in Request /\ y.phase = outcome
      BY <2>2, RequestLemma DEF Request
    <2>4. req' = [req EXCEPT ![r] = y]
      BY <2>1, <2>2
    <2>5. QED
      BY <1>1, <1>4, <2>1, <2>3, <2>4 DEF ReserveWithoutBuying
  <1>5. ASSUME NEW r \in Req, LedgerUnreachable(r) PROVE Backed'
    <2>1. PICK y : y = [req[r] EXCEPT !.phase = "replied", !.granted = 0, !.answered = FALSE]
      OBVIOUS
    <2>2. y \in Request /\ y.granted = 0
      BY <2>1, RequestLemma DEF Request, Phase
    <2>3. QED
      BY <1>1, <1>5, <2>1, <2>2 DEF LedgerUnreachable
  <1>6. ASSUME NEW r \in Req, LedgerAnswers(r) \/ LedgerAnswerLost(r) \/ LedgerAnswersNobody(r)
        PROVE  Backed'
    <2>1. PICK heard \in BOOLEAN : handlePermits(r, heard)
      BY <1>6 DEF LedgerAnswers, LedgerAnswerLost, LedgerAnswersNobody
    <2>2. req[r].phase \in {"asking", "orphan"}
      BY <1>6 DEF LedgerAnswers, LedgerAnswerLost, LedgerAnswersNobody
    <2>3. QED
      BY <2>1, <2>2, BackedGrants
  <1>7. ASSUME NEW o \in Org, Evict(o) PROVE Backed'
    <2>1. ASSUME NEW x \in Req, NEW d \in Day PROVE Waits(req'[x], d) <= Waits(req[x], d)
      <3>1. PICK q \in Request : q = req[x]
        BY RequestLemma
      <3>2. Waits(q, d) \in Nat
        BY <3>1 DEF Waits, Request
      <3>3. req'[x] = q \/ req'[x].phase \in {"orphan", "unavailable"}
        BY <1>7, <3>1 DEF Evict, Request
      <3>4. QED
        BY <3>1, <3>2, <3>3 DEF Waits
    <2>2. QED
      BY <1>7, <2>1, BackedWaits DEF Evict
  <1>8. ASSUME UNCHANGED <<req, sold, credited>> PROVE Backed'
    <2>1. \A x \in Req, d \in Day : Waits(req[x], d) \in Nat
      BY DEF Waits, TypeOK
    <2>2. QED
      BY <1>8, <2>1, BackedWaits
  <1>9. QED
    BY <1>2, <1>3, <1>4, <1>5, <1>6, <1>7, <1>8, BackedResumes DEF Next, Midnight, vars

\* What was charged was credited, so together too.
LEMMA BackedCredits ==
    ASSUME TypeOK, PermitConservation, Backed
    PROVE  CreditBacked
  <1> SUFFICES ASSUME NEW d \in Day
               PROVE  AllOf(credited, d) <= sold[d] /\ AllOf(charged, d) <= sold[d]
    BY DEF CreditBacked
  <1>1. PICK f : f = [r \in Req |-> Waits(req[r], d)]
    OBVIOUS
  <1>2. \A r \in Req : f[r] \in Nat
    BY <1>1 DEF Waits, TypeOK
  <1>3. SumFunctionOnSet(f, Req) \in Nat
    BY <1>2, SumType, WriteBudgetAssumption
  <1>4. Coming(d) \in Nat
    BY <1>1, <1>3 DEF Coming
  <1>5. PICK a : a = [p \in Org |-> credited[p][d]]
    OBVIOUS
  <1>6. PICK b : b = [p \in Org |-> charged[p][d]]
    OBVIOUS
  <1>7. \A p \in Org : a[p] \in Int /\ b[p] \in Int
    BY <1>5, <1>6 DEF TypeOK
  <1>8. \A p \in Org : b[p] <= a[p] + 0
    <2>1. ASSUME NEW p \in Org PROVE charged[p][d] <= credited[p][d] + 0
      <3>1. charged[p][d] + HeldFor(p, d) <= credited[p][d]
        BY DEF PermitConservation
      <3>2. charged[p][d] \in Nat /\ credited[p][d] \in Nat /\ HeldFor(p, d) \in Nat
        BY DEF TypeOK, HeldFor, CoordinatorState
      <3>3. QED
        BY <3>1, <3>2
    <2>2. QED
      BY <1>5, <1>6, <2>1
  <1>9. /\ SumFunctionOnSet(a, Org) \in Int /\ SumFunctionOnSet(b, Org) \in Int
        /\ SumFunctionOnSet(b, Org) <= SumFunctionOnSet(a, Org) + 0
    <2>1. \A p \in Org : b[p] <= a[p] + (IF p = 0 THEN 0 ELSE 0)
      BY <1>8
    <2>2. QED
      BY <1>7, <2>1, SumGrows, WriteBudgetAssumption
  <1>10. AllOf(credited, d) + Coming(d) <= sold[d] /\ sold[d] \in Nat
    BY DEF Backed, TypeOK
  <1>11. AllOf(credited, d) = SumFunctionOnSet(a, Org)
         /\ AllOf(charged, d) = SumFunctionOnSet(b, Org)
    BY <1>5, <1>6 DEF AllOf
  <1>12. QED
    BY <1>4, <1>9, <1>10, <1>11

LEMMA BackedAlways == Spec => []Backed
  <1>1. Init => Backed
    <2> SUFFICES ASSUME Init, NEW d \in Day PROVE AllOf(credited, d) + Coming(d) <= sold[d]
      BY DEF Backed
    <2>1. PICK f : f = [r \in Req |-> Waits(req[r], d)]
      OBVIOUS
    <2>2. \A r \in Req : f[r] = 0
      BY <2>1 DEF Init, Waits
    <2>3. PICK a : a = [p \in Org |-> credited[p][d]]
      OBVIOUS
    <2>4. \A p \in Org : a[p] = 0
      BY <2>3 DEF Init
    <2>5. SumFunctionOnSet(f, Req) = 0 /\ SumFunctionOnSet(a, Org) = 0
      BY <2>2, <2>4, SumOfNothing, WriteBudgetAssumption
    <2>6. AllOf(credited, d) = 0 /\ Coming(d) = 0
      BY <2>1, <2>3, <2>5 DEF AllOf, Coming
    <2>7. sold[d] = 0
      BY DEF Init
    <2>8. QED
      BY <2>6, <2>7
  <1>2. TypeOK /\ TypeOK' /\ Backed /\ [Next]_vars => Backed'
    BY BackedStep
  <1>3. QED
    BY <1>1, <1>2, TypeCorrect, PTL DEF Spec

\* All coordinators together are credited with no more than the ledger granted,
\* and together reserve no more, for any number of Organizations and requests and
\* whatever answers are lost or reach nobody (buyPermits, creditWritePermits).
THEOREM CreditIsBacked == Spec => []CreditBacked
  <1>1. TypeOK /\ PermitConservation /\ Backed => CreditBacked
    BY BackedCredits
  <1>2. QED
    BY <1>1, TypeCorrect, PermitsConserved, BackedAlways, PTL

-----------------------------------------------------------------------------
(* The coordinators and the ledger implement the daily allowance.            *)

\* A decision charges the allowance of today, or leaves it.
LEMMA DecisionReserves ==
    ASSUME TypeOK, TypeOK', Ceilings, Ceilings', CreditBacked', NEW r \in Req,
           InFlight(r), NEW s, AdmitAndPersist(r, s), UNCHANGED today
    PROVE  [Allowance!Next]_<<today, charged>>
  <1>1. PICK o \in Org : o = req[r].org
    BY RequestLemma
  <1>2. PICK n \in Nat : n = req[r].units /\ n \in Units /\ n >= 1
    BY RequestLemma, WriteBudgetAssumption
  <1>3. req[r].day = today /\ today \in Day
    BY DEF Ceilings, BooksBalance, TypeOK
  <1>4. CASE charged' = charged
    BY <1>4
  <1>5. CASE charged' = [charged EXCEPT ![o][today] = @ + n]
    <2>1. \A p \in Org : charged'[p][today] =
             IF p = o THEN charged[p][today] + n ELSE charged[p][today]
      BY <1>3, <1>5, AddLemma DEF TypeOK
    <2>2. charged[o][today] + n <= OrgCeiling
      BY <1>3, <2>1 DEF Ceilings, OrgCeilingHeld
    <2>3. PICK f : f = [p \in Org |-> charged[p][today]]
      OBVIOUS
    <2>4. PICK g : g = [p \in Org |-> charged'[p][today]]
      OBVIOUS
    <2>5. /\ SumFunctionOnSet(f, Org) \in Int /\ SumFunctionOnSet(g, Org) \in Int
          /\ SumFunctionOnSet(f, Org) <= SumFunctionOnSet(g, Org) + (-n)
      <3>1. \A p \in Org : f[p] \in Int /\ g[p] \in Int
        BY <1>3, <2>3, <2>4 DEF TypeOK
      <3>2. \A p \in Org : f[p] <= g[p] + (IF p = o THEN -n ELSE 0)
        BY <2>1, <2>3, <2>4, <3>1
      <3>3. -n \in Int
        OBVIOUS
      <3>4. QED
        BY <3>1, <3>2, <3>3, SumGrows, WriteBudgetAssumption
    <2>6. AllOf(charged', today) <= sold'[today] /\ sold'[today] <= Allocation
      BY <1>3 DEF CreditBacked, Ceilings, AllocationHeld
    <2>7. SumFunctionOnSet(g, Org) <= sold'[today]
      BY <2>4, <2>6 DEF AllOf
    <2>8. SumFunctionOnSet(f, Org) + n <= Allocation
      <3>1. sold'[today] \in Nat /\ Allocation \in Nat
        BY <1>3, WriteBudgetAssumption DEF TypeOK
      <3>2. QED
        BY <2>5, <2>6, <2>7, <3>1
    <2>9. Allowance!Total(today) + n <= Allocation
      <3>1. Allowance!Total(today) = SumFunctionOnSet([p \in Org |-> charged[p][today]], Org)
        BY DEF Allowance!Total, Allowance!SumFunctionOnSet, Allowance!FoldFunctionOnSet,
               Allowance!MapThenFoldSet, SumFunctionOnSet, FoldFunctionOnSet, MapThenFoldSet
      <3>2. QED
        BY <2>3, <2>8, <3>1
    <2>10. Allowance!Reserve(o, n)
      BY <1>5, <2>2, <2>9 DEF Allowance!Reserve
    <2>11. n \in 1 .. OrgCeiling
      <3>1. charged[o][today] \in Nat /\ OrgCeiling \in Nat
        BY <1>3, WriteBudgetAssumption DEF TypeOK
      <3>2. QED
        BY <1>2, <2>2, <3>1
    <2>12. QED
      BY <2>10, <2>11 DEF Allowance!Next
  <1>6. QED
    BY <1>1, <1>2, <1>3, <1>4, <1>5 DEF AdmitAndPersist

LEMMA AllowanceStep ==
    ASSUME TypeOK, TypeOK', Ceilings, Ceilings', CreditBacked', [QuietNext]_vars
    PROVE  [Allowance!Next]_<<today, charged>>
  <1>1. ASSUME NEW r \in Req, ReserveWithoutBuying(r)
        PROVE  [Allowance!Next]_<<today, charged>>
    BY <1>1, DecisionReserves DEF ReserveWithoutBuying, InFlight
  <1>2. ASSUME NEW r \in Req, ReserveResumes(r)
        PROVE  [Allowance!Next]_<<today, charged>>
    BY <1>2, DecisionReserves DEF ReserveResumes, InFlight
  <1>3. CASE Midnight
    BY <1>3 DEF Midnight, Allowance!Next, Allowance!NextDay
  <1>4. ASSUME UNCHANGED <<today, charged>>
        PROVE  [Allowance!Next]_<<today, charged>>
    BY <1>4
  <1>5. QED
    BY <1>1, <1>2, <1>3, <1>4
       DEF QuietNext, Next, vars, SendReserve, ReserveMustBuy, LedgerAnswers,
           LedgerAnswerLost, LedgerAnswersNobody, LedgerUnreachable, handlePermits, Evict

\* As long as no request straddles midnight, coordinators, permits, ledger and
\* messages implement the allowance, for any number of Organizations, requests and
\* days: each reservation fits the Organization's ceiling and, with all the others,
\* the allocation of the day, although nobody ever adds them up.
THEOREM AllowanceIsKept == QuietSpec => ImplementsAllowance
  <1>1. Init => Allowance!Init
    BY DEF Init, Allowance!Init, Allowance!Day, Day
  <1>2. /\ TypeOK /\ TypeOK' /\ Ceilings /\ Ceilings' /\ CreditBacked' /\ [QuietNext]_vars
        => [Allowance!Next]_<<today, charged>>
    BY AllowanceStep
  <1>3. QuietSpec => Spec
    BY PTL DEF QuietSpec, Spec, QuietNext
  <1>4. QED
    BY <1>1, <1>2, <1>3, TypeCorrect, CeilingsAlways, CreditIsBacked, PTL
       DEF QuietSpec, ImplementsAllowance, Allowance!Spec

-----------------------------------------------------------------------------
(* A deferral is honest, when no request straddles midnight.                 *)
(* What a request was granted may be spent by another one before it resumes. *)
(* It still finds enough: it bought what it needs, or all that the ceiling   *)
(* left to buy, and what a coordinator has used or holds on a day never      *)
(* falls while a request waits in it; or else the ledger was emptied.        *)

\* A coordinator in state s believes the ledger empty only if it is, and counts
\* no more of the platform's share than was charged to it.
Marks(s, table) == s.exhausted # 0 => table[s.exhausted] >= Allocation
Shares(o, s, table) == s.day # 0 => s.share <= table[o][s.day]

\* What request q bought is enough for it at its coordinator in state s.
Enough(q, bought, s) ==
    bought >= q.units \/ bought + s.used + s.permits >= OrgCeiling

\* Request q waits in its coordinator, and gets enough unless the ledger has not.
Covers(q, s, table) ==
    /\ q.phase \in {"asking", "replied"} => s.day = q.day
    /\ q.phase = "asking" => q.wanted > 0 /\ Enough(q, q.wanted, s)
    /\ (q.phase = "replied" /\ q.answered) =>
          \/ table[q.day] >= Allocation
          \/ q.granted > 0 /\ Enough(q, q.granted, s)

Honest ==
    /\ \A o \in Org : Marks(mem[o], sold) /\ Shares(o, mem[o], shared)
    /\ \A r \in Req : Covers(req[r], mem[req[r].org], sold)

\* What a coordinator has used or holds does not fall.
Grows(s, t) == t.day = s.day /\ s.used + s.permits <= t.used + t.permits

LEMMA HonestMoves ==
    ASSUME TypeOK, TypeOK', Honest,
           \A d \in Day : sold[d] <= sold'[d],
           \A p \in Org, d \in Day : shared[p][d] <= shared'[p][d],
           \A p \in Org : \/ mem'[p] = mem[p]
                          \/ Marks(mem'[p], sold') /\ Shares(p, mem'[p], shared'),
           \A x \in Req : \/ Covers(req'[x], mem'[req'[x].org], sold')
                          \/ /\ req'[x] = req[x]
                             /\ Grows(mem[req[x].org], mem'[req[x].org])
    PROVE  Honest'
  <1>1. Allocation \in Nat /\ OrgCeiling \in Nat /\ 0 \notin Day
        /\ (0 .. LastDay) \ {0} \subseteq Day
    BY WriteBudgetAssumption DEF Day
  <1>2. \A d \in Day : sold[d] \in Nat /\ sold'[d] \in Nat
    BY DEF TypeOK
  <1>3. ASSUME NEW p \in Org PROVE Marks(mem'[p], sold') /\ Shares(p, mem'[p], shared')
    <2>1. CASE mem'[p] = mem[p]
      <3>1. PICK s \in CoordinatorState : s = mem[p]
        BY DEF TypeOK
      <3>2. Marks(s, sold) /\ Shares(p, s, shared)
        BY <3>1 DEF Honest
      <3>3. s.exhausted # 0 => s.exhausted \in Day
        BY <1>1 DEF CoordinatorState
      <3>4. s.day # 0 => s.day \in Day
        BY <1>1 DEF CoordinatorState
      <3>5. Marks(s, sold')
        BY <1>1, <1>2, <3>2, <3>3 DEF Marks
      <3>6. \A d \in Day : shared[p][d] \in Nat /\ shared'[p][d] \in Nat
                           /\ shared[p][d] <= shared'[p][d]
        BY DEF TypeOK
      <3>7. s.share \in Nat
        BY DEF CoordinatorState
      <3>8. Shares(p, s, shared')
        BY <3>2, <3>4, <3>6, <3>7 DEF Shares
      <3>9. QED
        BY <2>1, <3>1, <3>5, <3>8
    <2>2. QED
      BY <2>1
  <1>4. ASSUME NEW x \in Req PROVE Covers(req'[x], mem'[req'[x].org], sold')
    <2>1. CASE req'[x] = req[x] /\ Grows(mem[req[x].org], mem'[req[x].org])
      <3>1. PICK q \in Request : q = req[x] /\ q.day \in Day
        BY RequestLemma
      <3>2. PICK s \in CoordinatorState : s = mem[q.org]
        BY <3>1, RequestLemma
      <3>3. PICK t \in CoordinatorState : t = mem'[q.org]
        BY <3>1, RequestLemma DEF TypeOK
      <3>4. Covers(q, s, sold) /\ Grows(s, t)
        BY <2>1, <3>1, <3>2, <3>3 DEF Honest
      <3>5. /\ s.used \in Nat /\ s.permits \in Nat /\ t.used \in Nat /\ t.permits \in Nat
            /\ q.wanted \in Nat /\ q.granted \in Nat /\ q.units \in Nat
        BY <3>1, RequestLemma DEF CoordinatorState
      <3>6. /\ Enough(q, q.wanted, s) => Enough(q, q.wanted, t)
            /\ Enough(q, q.granted, s) => Enough(q, q.granted, t)
        BY <1>1, <3>4, <3>5 DEF Enough, Grows
      <3>7. sold[q.day] >= Allocation => sold'[q.day] >= Allocation
        BY <1>1, <1>2, <3>1
      <3>8. Covers(q, t, sold')
        BY <3>4, <3>6, <3>7 DEF Covers, Grows
      <3>9. QED
        BY <2>1, <3>1, <3>3, <3>8
    <2>2. QED
      BY <2>1
  <1>5. QED
    BY <1>3, <1>4 DEF Honest

\* Others wait on while coordinator o goes to t.
LEMMA OthersWait ==
    ASSUME TypeOK, Ceilings, Honest, NEW o \in Org, NEW t \in CoordinatorState,
           mem' = [mem EXCEPT ![o] = t],
           mem[o].day = today => Grows(mem[o], t),
           NEW x \in Req, req'[x] = req[x]
    PROVE  \/ Covers(req'[x], mem'[req'[x].org], sold')
           \/ req'[x] = req[x] /\ Grows(mem[req[x].org], mem'[req[x].org])
  <1>1. CASE req[x].phase \notin {"asking", "replied"}
    BY <1>1 DEF Covers
  <1>2. CASE req[x].phase \in {"asking", "replied"} /\ req[x].org = o
    <2>1. req[x].day = today
      BY <1>2 DEF Ceilings, BooksBalance, InFlight
    <2>2. mem[o].day = today
      BY <1>2, <2>1 DEF Honest, Covers
    <2>3. mem'[o] = t
      BY DEF TypeOK
    <2>4. QED
      BY <1>2, <2>2, <2>3
  <1>3. CASE req[x].org # o
    <2>1. mem'[req[x].org] = mem[req[x].org]
      BY <1>3, RequestLemma DEF TypeOK
    <2>2. PICK s \in CoordinatorState : s = mem[req[x].org]
      BY RequestLemma
    <2>3. Grows(s, s)
      BY DEF Grows, CoordinatorState
    <2>4. QED
      BY <2>1, <2>2, <2>3
  <1>4. QED
    BY <1>1, <1>2, <1>3

\* A roll keeps what a coordinator knows.
LEMMA RollKeeps ==
    ASSUME NEW s \in CoordinatorState, NEW o, NEW d \in Day, NEW table, NEW charges,
           Marks(s, table), Shares(o, s, charges), charges[o][d] \in Nat
    PROVE  LET t == rollWriteDay(s, d)
           IN  Marks(t, table) /\ Shares(o, t, charges) /\ t.exhausted = s.exhausted
  <1>1. CASE s.day = d
    BY <1>1 DEF rollWriteDay
  <1>2. CASE s.day # d
    <2>1. rollWriteDay(s, d) = [day |-> d, used |-> 0, share |-> 0, permits |-> 0,
                                exhausted |-> s.exhausted]
      BY <1>2 DEF rollWriteDay, CoordinatorState
    <2>2. QED
      BY <2>1 DEF Marks, Shares
  <1>3. QED
    BY <1>1, <1>2

\* A decision moves units, and counts as the platform's what it charges to it:
\* k of them, in the coordinator's state and in the charges of day d.
Moved(s, t, k) ==
    /\ t.day = s.day /\ t.exhausted = s.exhausted
    /\ t.used + t.permits = s.used + s.permits
    /\ t.share = s.share + k
ChargedTo(o, d, k, f, g) ==
    \A p \in Org, e \in Day :
        g[p][e] = IF p = o /\ e = d THEN f[p][e] + k ELSE f[p][e]

LEMMA DecisionMoves ==
    ASSUME TypeOK, NEW r \in Req, NEW s \in CoordinatorState, AdmitAndPersist(r, s)
    PROVE  \E t \in CoordinatorState, k \in Nat :
             /\ Moved(s, t, k)
             /\ mem' = [mem EXCEPT ![req[r].org] = t]
             /\ ChargedTo(req[r].org, req[r].day, k, shared, shared')
  <1> DEFINE q == req[r]
  <1>1. /\ q.org \in Org /\ q.day \in Day /\ q.units \in Units
        /\ q.units \in Nat /\ q.origin \in Origin
    BY RequestLemma
  <1>2. \A p \in Org, e \in Day : shared[p][e] \in Nat
    BY DEF TypeOK
  <1>3. CASE admitWrite(s, q.units, q.origin) = "granted"
    <2>1. PICK k \in Nat : k = IF q.origin = "platform" THEN q.units ELSE 0
      BY <1>1
    <2>2. PICK t \in CoordinatorState : t = chargeWrite(s, q.units, q.origin)
      BY <1>1, <1>3, ChargeLemma
    <2>3. s.used \in Nat /\ s.permits \in Nat /\ s.share \in Nat
      BY DEF CoordinatorState
    <2>4. PICK u, p, h : u = s.used + q.units /\ p = s.permits - q.units
                         /\ h = (IF q.origin = "platform" THEN s.share + q.units ELSE s.share)
      OBVIOUS
    <2>5. t = [s EXCEPT !.used = u, !.permits = p, !.share = h]
      BY <2>2, <2>4 DEF chargeWrite
    <2>6. t = [day |-> s.day, used |-> u, share |-> h, permits |-> p,
               exhausted |-> s.exhausted]
      BY <2>5 DEF CoordinatorState
    <2>7. h = s.share + k /\ u + p = s.used + s.permits
      BY <1>1, <2>1, <2>3, <2>4
    <2>8. mem' = [mem EXCEPT ![q.org] = t]
      BY <1>3, <2>2 DEF AdmitAndPersist
    <2>9. ChargedTo(q.org, q.day, k, shared, shared')
      <3>1. CASE q.origin = "platform"
        <4>1. shared' = [shared EXCEPT ![q.org][q.day] = @ + q.units]
          BY <1>3, <3>1 DEF AdmitAndPersist
        <4>2. QED
          BY <1>1, <2>1, <3>1, <4>1, AddLemma DEF TypeOK, ChargedTo
      <3>2. CASE q.origin # "platform"
        <4>1. shared' = shared
          BY <1>3, <3>2 DEF AdmitAndPersist
        <4>2. QED
          BY <1>2, <2>1, <3>2, <4>1 DEF ChargedTo
      <3>3. QED
        BY <3>1, <3>2
    <2>10. Moved(s, t, k)
      BY <2>6, <2>7 DEF Moved
    <2>11. QED
      BY <2>8, <2>9, <2>10
  <1>4. CASE admitWrite(s, q.units, q.origin) # "granted"
    <2>1. mem' = [mem EXCEPT ![q.org] = s] /\ shared' = shared
      BY <1>4 DEF AdmitAndPersist
    <2>2. Moved(s, s, 0)
      BY DEF CoordinatorState, Moved
    <2>3. ChargedTo(q.org, q.day, 0, shared, shared')
      BY <1>2, <2>1 DEF ChargedTo
    <2>4. QED
      BY <2>1, <2>2, <2>3
  <1>5. QED
    BY <1>3, <1>4

\* So a decision on a state that knows the truth, and holds what the coordinator
\* did, keeps everything honest.
LEMMA DecisionHonest ==
    ASSUME TypeOK, TypeOK', Ceilings, Honest, NEW r \in Req, InFlight(r),
           NEW s \in CoordinatorState, AdmitAndPersist(r, s), UNCHANGED sold,
           s.day = req[r].day, Marks(s, sold), Shares(req[r].org, s, shared),
           mem[req[r].org].day = today => Grows(mem[req[r].org], s)
    PROVE  Honest'
  <1>1. PICK o \in Org : o = req[r].org
    BY RequestLemma
  <1>2. PICK d \in Day : d = req[r].day /\ d = today
    BY RequestLemma DEF Ceilings, BooksBalance
  <1>3. PICK t \in CoordinatorState, k \in Nat :
             /\ Moved(s, t, k)
             /\ mem' = [mem EXCEPT ![req[r].org] = t]
             /\ ChargedTo(req[r].org, req[r].day, k, shared, shared')
    BY DecisionMoves
  <1>4. /\ Moved(s, t, k)
        /\ mem' = [mem EXCEPT ![o] = t]
        /\ ChargedTo(o, d, k, shared, shared')
    BY <1>1, <1>2, <1>3
  <1>5. \A p \in Org, e \in Day : shared[p][e] \in Nat
    BY DEF TypeOK
  <1>6. \A p \in Org, e \in Day : shared[p][e] <= shared'[p][e]
    BY <1>4, <1>5 DEF ChargedTo
  <1>7. \A e \in Day : sold[e] <= sold'[e]
    BY DEF TypeOK
  <1>8. Marks(t, sold') /\ Shares(o, t, shared')
    <2>1. Marks(t, sold')
      BY <1>4 DEF Marks, Moved
    <2>2. s.day = d /\ s.day # 0 /\ s.share \in Nat
      BY <1>1, <1>2, WriteBudgetAssumption DEF Day, CoordinatorState
    <2>3. s.share <= shared[o][d]
      BY <1>1, <2>2 DEF Shares
    <2>4. shared'[o][d] = shared[o][d] + k /\ shared[o][d] \in Nat
      BY <1>4, <1>5 DEF ChargedTo
    <2>5. t.day = d /\ t.share = s.share + k
      BY <1>4, <2>2 DEF Moved
    <2>6. t.share <= shared'[o][d]
      BY <2>2, <2>3, <2>4, <2>5
    <2>7. Shares(o, t, shared')
      BY <2>5, <2>6 DEF Shares
    <2>8. QED
      BY <2>1, <2>7
  <1>9. \A p \in Org : \/ mem'[p] = mem[p]
                       \/ Marks(mem'[p], sold') /\ Shares(p, mem'[p], shared')
    BY <1>4, <1>8 DEF TypeOK
  <1>10. mem[o].day = today => Grows(mem[o], t)
    BY <1>1, <1>4 DEF Grows, Moved
  <1>11. PICK outcome : req' = [req EXCEPT ![r].phase = outcome]
                        /\ outcome \notin {"asking", "replied"}
    <2>1. PICK outcome : outcome = admitWrite(s, req[r].units, req[r].origin)
      OBVIOUS
    <2>2. outcome \notin {"asking", "replied"}
      BY <2>1 DEF admitWrite
    <2>3. QED
      BY <2>1, <2>2 DEF AdmitAndPersist
  <1>12. ASSUME NEW x \in Req
         PROVE  \/ Covers(req'[x], mem'[req'[x].org], sold')
                \/ req'[x] = req[x] /\ Grows(mem[req[x].org], mem'[req[x].org])
    <2>1. CASE x = r
      <3>1. req'[r].phase = outcome
        BY <1>11 DEF TypeOK
      <3>2. QED
        BY <1>11, <2>1, <3>1 DEF Covers
    <2>2. CASE x # r
      <3>1. req'[x] = req[x]
        BY <1>11, <2>2 DEF TypeOK
      <3>2. QED
        BY <1>4, <1>10, <3>1, OthersWait
    <2>3. QED
      BY <2>1, <2>2
  <1>13. QED
    BY <1>6, <1>7, <1>9, <1>12, HonestMoves

\* A purchase buys enough: what the request needs, or all that is left.
LEMMA PurchaseIsEnough ==
    ASSUME NEW q \in Request, NEW s \in CoordinatorState, q.units \in Nat,
           NEW w, w = writePermitsToBuy(s, q.units), w > 0
    PROVE  Enough(q, w, s)
  <1>1. /\ s.used \in Nat /\ s.permits \in Nat /\ OrgCeiling \in Nat /\ Block \in Nat
    BY WriteBudgetAssumption DEF CoordinatorState
  <1>2. w = Larger(0, Smaller(Larger(Block, q.units), OrgCeiling - s.used - s.permits))
    BY DEF writePermitsToBuy
  <1>3. \/ w >= q.units
        \/ w = OrgCeiling - s.used - s.permits
    BY <1>1, <1>2 DEF Larger, Smaller
  <1>4. QED
    BY <1>1, <1>3 DEF Enough

\* An answer that reaches the coordinator it is for finds it on the day it was
\* asked for, and adds to it: a mark only if the ledger is empty.
LEMMA CreditAdds ==
    ASSUME TypeOK, Ceilings, Honest, NEW r \in Req, req[r].phase = "replied"
    PROVE  LET m == mem[req[r].org]
               q == req[r]
           IN  /\ m.day = q.day /\ q.day = today
               /\ creditWritePermits(m, q.granted, q.day, q.answered) =
                    [day |-> q.day, used |-> m.used, share |-> m.share,
                     permits |-> m.permits + q.granted,
                     exhausted |-> IF q.answered /\ q.granted = 0 THEN q.day
                                   ELSE m.exhausted]
  <1>1. PICK q \in Request : q = req[r]
    BY RequestLemma
  <1>2. PICK m \in CoordinatorState : m = mem[req[r].org]
    BY RequestLemma
  <1>3. m.day = q.day
    BY <1>1, <1>2 DEF Honest, Covers
  <1>4. q.day = today
    BY <1>1 DEF Ceilings, BooksBalance, InFlight
  <1>5. PICK e : e = IF q.answered /\ q.granted = 0 THEN q.day ELSE m.exhausted
    OBVIOUS
  <1>6. PICK n : n = m.permits + q.granted
    OBVIOUS
  <1>7. creditWritePermits(m, q.granted, q.day, q.answered) =
          [m EXCEPT !.permits = n, !.exhausted = e]
    BY <1>3, <1>5, <1>6 DEF creditWritePermits, rollWriteDay
  <1>8. PICK c : c = [m EXCEPT !.permits = n, !.exhausted = e]
    OBVIOUS
  <1>9. c = [day |-> m.day, used |-> m.used, share |-> m.share,
             permits |-> n, exhausted |-> e]
    BY <1>8 DEF CoordinatorState
  <1>10. QED
    BY <1>1, <1>2, <1>3, <1>4, <1>5, <1>6, <1>7, <1>9, <1>8

\* So it leaves a coordinator that knows the truth, and holds no less.
LEMMA CreditHonest ==
    ASSUME TypeOK, Ceilings, Honest, NEW r \in Req, req[r].phase = "replied",
           NEW s, s = creditWritePermits(mem[req[r].org], req[r].granted,
                                         req[r].day, req[r].answered)
    PROVE  /\ s \in CoordinatorState /\ s.day = req[r].day
           /\ Marks(s, sold) /\ Shares(req[r].org, s, shared)
           /\ Grows(mem[req[r].org], s)
  <1>1. PICK q \in Request : q = req[r]
    BY RequestLemma
  <1>2. PICK m \in CoordinatorState : m = mem[q.org]
    BY <1>1, RequestLemma
  <1>3. /\ m.day = q.day /\ q.day \in Day
        /\ s = [day |-> q.day, used |-> m.used, share |-> m.share,
                permits |-> m.permits + q.granted,
                exhausted |-> IF q.answered /\ q.granted = 0 THEN q.day
                              ELSE m.exhausted]
    BY <1>1, <1>2, CreditAdds, RequestLemma
  <1>4. q.org \in Org /\ q.granted \in Nat /\ q.answered \in BOOLEAN
    BY <1>1, RequestLemma
  <1>5. Marks(m, sold) /\ Shares(q.org, m, shared)
    BY <1>2, <1>4 DEF Honest
  <1>6. s \in CoordinatorState /\ s.day = q.day
    <2>1. s = creditWritePermits(m, q.granted, q.day, q.answered)
      BY <1>1, <1>2
    <2>2. QED
      BY <1>3, <1>4, <2>1, CreditLemma
  <1>7. Marks(s, sold)
    <2>1. CASE q.answered /\ q.granted = 0
      <3>1. Covers(q, m, sold)
        BY <1>1, <1>2 DEF Honest
      <3>2. sold[q.day] >= Allocation
        BY <1>1, <2>1, <3>1 DEF Covers
      <3>3. s.exhausted = q.day
        BY <1>3, <2>1
      <3>4. QED
        BY <3>2, <3>3 DEF Marks
    <2>2. CASE ~(q.answered /\ q.granted = 0)
      BY <1>3, <1>5, <2>2 DEF Marks
    <2>3. QED
      BY <2>1, <2>2
  <1>8. Shares(q.org, s, shared)
    BY <1>3, <1>5 DEF Shares
  <1>9. Grows(m, s)
    BY <1>3, <1>4 DEF Grows, CoordinatorState
  <1>10. QED
    BY <1>1, <1>2, <1>6, <1>7, <1>8, <1>9

\* The ledger's step: who hears of less than was asked for hears it from a
\* ledger that has nothing left.
LEMMA GrantHonest ==
    ASSUME TypeOK, TypeOK', Ceilings, Honest, NEW r \in Req,
           req[r].phase \in {"asking", "orphan"},
           NEW heard \in BOOLEAN, handlePermits(r, heard),
           heard => req[r].phase = "asking"
    PROVE  Honest'
  <1>1. PICK q \in Request : q = req[r]
    BY RequestLemma
  <1>2. PICK d \in Day : d = q.day /\ d = today
    BY <1>1, RequestLemma DEF Ceilings, BooksBalance, InFlight
  <1>3. PICK g \in Nat : g = LedgerGrant(q.day, q.wanted)
    BY <1>1, <1>2, GrantLemma, RequestLemma
  <1>4. PICK m \in CoordinatorState : m = mem[q.org]
    BY <1>1, RequestLemma
  <1>5. sold' = [sold EXCEPT ![d] = @ + g] /\ UNCHANGED <<mem, shared>>
    BY <1>1, <1>2, <1>3 DEF handlePermits
  <1>6. \A e \in Day : /\ sold[e] \in Nat
                       /\ sold'[e] = IF e = d THEN sold[e] + g ELSE sold[e]
    BY <1>5 DEF TypeOK
  <1>7. \A e \in Day : sold[e] <= sold'[e]
    BY <1>3, <1>6
  <1>8. q.wanted \in Nat /\ q.units \in Nat /\ Allocation \in Nat /\ OrgCeiling \in Nat
    BY <1>1, RequestLemma, WriteBudgetAssumption
  <1>9. g = q.wanted \/ sold'[d] >= Allocation
    <2>1. sold[d] = LedgerUsed(d)
      BY <1>2 DEF Ceilings, BooksBalance
    <2>2. LedgerUsed(d) \in Nat
      BY <1>8, GrantLemma
    <2>3. g = Larger(0, Smaller(q.wanted, Allocation - LedgerUsed(d)))
      BY <1>2, <1>3 DEF LedgerGrant
    <2>4. g = q.wanted \/ g >= Allocation - LedgerUsed(d)
      BY <1>8, <2>2, <2>3 DEF Larger, Smaller
    <2>5. QED
      BY <1>6, <1>8, <2>1, <2>2, <2>4
  <1>10. PICK x \in Request :
            /\ x.phase = IF q.phase = "orphan" THEN "unavailable" ELSE "replied"
            /\ x.granted = IF heard THEN g ELSE 0
            /\ x.answered = heard
            /\ x.org = q.org /\ x.day = q.day /\ x.units = q.units
            /\ req' = [req EXCEPT ![r] = x]
    <2>1. req' = [req EXCEPT ![r] = [q EXCEPT
                     !.phase = IF q.phase = "orphan" THEN "unavailable" ELSE "replied",
                     !.granted = IF heard THEN g ELSE 0,
                     !.answered = heard]]
      BY <1>1, <1>3 DEF handlePermits
    <2>2. PICK ph, gr : /\ ph = IF q.phase = "orphan" THEN "unavailable" ELSE "replied"
                        /\ gr = IF heard THEN g ELSE 0
      OBVIOUS
    <2>3. ph \in Phase /\ gr \in Nat
      BY <2>2 DEF Phase
    <2>4. PICK x : x = [q EXCEPT !.phase = ph, !.granted = gr, !.answered = heard]
      OBVIOUS
    <2>5. x \in Request /\ x.phase = ph /\ x.granted = gr /\ x.answered = heard
          /\ x.org = q.org /\ x.day = q.day /\ x.units = q.units
      BY <2>3, <2>4 DEF Request
    <2>6. req' = [req EXCEPT ![r] = x]
      BY <2>1, <2>2, <2>4
    <2>7. QED
      BY <2>2, <2>5, <2>6
  <1>11. Covers(x, m, sold')
    <2>1. CASE q.phase = "orphan"
      BY <1>10, <2>1 DEF Covers
    <2>2. CASE q.phase = "asking"
      <3>1. Covers(q, m, sold)
        BY <1>1, <1>4 DEF Honest
      <3>2. m.day = q.day /\ q.wanted > 0 /\ Enough(q, q.wanted, m)
        BY <2>2, <3>1 DEF Covers
      <3>3. x.phase = "replied"
        BY <1>10, <2>2
      <3>4. CASE heard /\ g = q.wanted
        <4>1. x.granted = q.wanted
          BY <1>10, <3>4
        <4>2. Enough(x, x.granted, m)
          BY <1>10, <3>2, <4>1 DEF Enough
        <4>3. QED
          BY <1>10, <3>2, <3>3, <4>1, <4>2 DEF Covers
      <3>5. CASE ~heard
        BY <1>10, <3>2, <3>3, <3>5 DEF Covers
      <3>6. CASE g # q.wanted
        BY <1>2, <1>9, <1>10, <3>2, <3>3, <3>6 DEF Covers
      <3>7. QED
        BY <3>4, <3>5, <3>6
    <2>3. QED
      BY <1>1, <2>1, <2>2
  <1>12. ASSUME NEW y \in Req
         PROVE  \/ Covers(req'[y], mem'[req'[y].org], sold')
                \/ req'[y] = req[y] /\ Grows(mem[req[y].org], mem'[req[y].org])
    <2>1. CASE y = r
      <3>1. req'[r] = x
        BY <1>10 DEF TypeOK
      <3>2. mem'[x.org] = m
        BY <1>4, <1>5, <1>10
      <3>3. QED
        BY <1>11, <2>1, <3>1, <3>2
    <2>2. CASE y # r
      <3>1. req'[y] = req[y]
        BY <1>10, <2>2 DEF TypeOK
      <3>2. PICK s \in CoordinatorState : s = mem[req[y].org]
        BY RequestLemma
      <3>3. Grows(s, s)
        BY DEF Grows, CoordinatorState
      <3>4. QED
        BY <1>5, <3>1, <3>2, <3>3
    <2>3. QED
      BY <2>1, <2>2
  <1>13. \A p \in Org, e \in Day : shared[p][e] <= shared'[p][e]
    BY <1>5 DEF TypeOK
  <1>14. QED
    BY <1>5, <1>7, <1>12, <1>13, HonestMoves

\* Every step of a day keeps it: an eviction because nobody waits any more, a
\* midnight because nobody waits over it.
LEMMA HonestStep ==
    TypeOK /\ TypeOK' /\ Ceilings /\ Honest /\ [QuietNext]_vars => Honest'
  <1> SUFFICES ASSUME TypeOK, TypeOK', Ceilings, Honest, [QuietNext]_vars
               PROVE  Honest'
    OBVIOUS
  <1>1. \A d \in Day : sold[d] <= sold[d]
    BY DEF TypeOK
  <1>2. \A p \in Org, d \in Day : shared[p][d] <= shared[p][d]
    BY DEF TypeOK
  <1>3. \A x \in Req : Grows(mem[req[x].org], mem[req[x].org])
    <2> SUFFICES ASSUME NEW x \in Req PROVE Grows(mem[req[x].org], mem[req[x].org])
      OBVIOUS
    <2>1. PICK s \in CoordinatorState : s = mem[req[x].org]
      BY RequestLemma
    <2>2. QED
      BY <2>1 DEF Grows, CoordinatorState
  <1>4. ASSUME NEW r \in Req, SendReserve(r) PROVE Honest'
    <2>1. \A x \in Req : req'[x] = IF x = r
                                   THEN [req[r] EXCEPT !.phase = "sent", !.day = today]
                                   ELSE req[x]
      BY <1>4 DEF SendReserve, TypeOK
    <2>2. req'[r].phase = "sent"
      BY <2>1, RequestLemma DEF Request
    <2>3. Covers(req'[r], mem'[req'[r].org], sold')
      BY <2>2 DEF Covers
    <2>4. UNCHANGED <<mem, sold, shared>>
      BY <1>4 DEF SendReserve
    <2>5. QED
      BY <1>1, <1>2, <1>3, <2>1, <2>3, <2>4, HonestMoves
  <1>5. ASSUME NEW r \in Req, ReserveMustBuy(r) PROVE Honest'
    <2>1. PICK q \in Request : q = req[r]
      BY RequestLemma
    <2>2. InFlight(r)
      BY <1>5 DEF ReserveMustBuy, InFlight
    <2>3. PICK d \in Day : d = q.day /\ d = today
      BY <2>1, <2>2, RequestLemma DEF Ceilings, BooksBalance
    <2>4. PICK o \in Org : o = q.org
      BY <2>1, RequestLemma
    <2>5. PICK m \in CoordinatorState : m = mem[o]
      BY DEF TypeOK
    <2>6. PICK s \in CoordinatorState : s = rollWriteDay(m, d) /\ s.day = d
      BY RollLemma
    <2>7. PICK w \in Nat : w = writePermitsToBuy(s, q.units)
      BY <2>1, BuyLemma, RequestLemma
    <2>8. s = rollWriteDay(mem[req[r].org], req[r].day) /\ w = writePermitsToBuy(s, req[r].units)
      BY <2>1, <2>3, <2>4, <2>5, <2>6, <2>7
    <2>9. /\ w > 0
          /\ mem' = [mem EXCEPT ![o] = s]
          /\ req' = [req EXCEPT ![r] = [q EXCEPT !.phase = "asking", !.wanted = w]]
          /\ UNCHANGED <<sold, shared>>
      BY <1>5, <2>1, <2>4, <2>8 DEF ReserveMustBuy
    <2>10. PICK x \in Request : /\ x.phase = "asking" /\ x.wanted = w
                                /\ x.org = o /\ x.day = d /\ x.units = q.units
                                /\ req' = [req EXCEPT ![r] = x]
      <3>1. PICK x : x = [q EXCEPT !.phase = "asking", !.wanted = w]
        OBVIOUS
      <3>2. x \in Request /\ x.phase = "asking" /\ x.wanted = w
            /\ x.org = o /\ x.day = d /\ x.units = q.units
        BY <2>3, <2>4, <3>1 DEF Request, Phase
      <3>3. req' = [req EXCEPT ![r] = x]
        BY <2>9, <3>1
      <3>4. QED
        BY <3>2, <3>3
    <2>11. Marks(m, sold) /\ Shares(o, m, shared) /\ shared[o][d] \in Nat
      BY <2>5 DEF Honest, TypeOK
    <2>12. Marks(s, sold) /\ Shares(o, s, shared)
      BY <2>6, <2>11, RollKeeps
    <2>13. m.day = today => Grows(m, s)
      BY <2>3, <2>6, RollLemma DEF Grows, CoordinatorState
    <2>14. Enough(x, w, s)
      <3>1. q.units \in Nat
        BY <2>1, RequestLemma
      <3>2. Enough(q, w, s)
        BY <2>7, <2>9, <3>1, PurchaseIsEnough
      <3>3. QED
        BY <2>10, <3>2 DEF Enough
    <2>15. Covers(x, s, sold)
      BY <2>6, <2>9, <2>10, <2>14 DEF Covers
    <2>16. ASSUME NEW y \in Req
           PROVE  \/ Covers(req'[y], mem'[req'[y].org], sold')
                  \/ req'[y] = req[y] /\ Grows(mem[req[y].org], mem'[req[y].org])
      <3>1. CASE y = r
        <4>1. req'[r] = x
          BY <2>10 DEF TypeOK
        <4>2. mem'[x.org] = s
          BY <2>9, <2>10 DEF TypeOK
        <4>3. QED
          BY <2>9, <2>15, <3>1, <4>1, <4>2
      <3>2. CASE y # r
        <4>1. req'[y] = req[y]
          BY <2>10, <3>2 DEF TypeOK
        <4>2. QED
          BY <2>5, <2>9, <2>13, <4>1, OthersWait
      <3>3. QED
        BY <3>1, <3>2
    <2>17. \A p \in Org : \/ mem'[p] = mem[p]
                          \/ Marks(mem'[p], sold') /\ Shares(p, mem'[p], shared')
      <3> SUFFICES ASSUME NEW p \in Org, mem'[p] # mem[p]
                   PROVE  Marks(mem'[p], sold') /\ Shares(p, mem'[p], shared')
        OBVIOUS
      <3>1. p = o /\ mem'[p] = s
        BY <2>9 DEF TypeOK
      <3>2. QED
        BY <2>9, <2>12, <3>1
    <2>18. QED
      BY <1>1, <1>2, <2>9, <2>16, <2>17, HonestMoves
  <1>6. ASSUME NEW r \in Req, ReserveWithoutBuying(r) PROVE Honest'
    <2>1. InFlight(r)
      BY <1>6 DEF ReserveWithoutBuying, InFlight
    <2>2. PICK d \in Day : d = req[r].day /\ d = today
      BY <2>1, RequestLemma DEF Ceilings, BooksBalance
    <2>3. PICK o \in Org : o = req[r].org
      BY RequestLemma
    <2>4. PICK m \in CoordinatorState : m = mem[o]
      BY DEF TypeOK
    <2>5. PICK s \in CoordinatorState : s = rollWriteDay(m, d) /\ s.day = d
      BY RollLemma
    <2>6. s = rollWriteDay(mem[req[r].org], req[r].day)
      BY <2>2, <2>3, <2>4, <2>5
    <2>7. AdmitAndPersist(r, s) /\ UNCHANGED sold
      BY <1>6, <2>6 DEF ReserveWithoutBuying
    <2>8. Marks(m, sold) /\ Shares(o, m, shared) /\ shared[o][d] \in Nat
      BY <2>4 DEF Honest, TypeOK
    <2>9. Marks(s, sold) /\ Shares(req[r].org, s, shared)
      BY <2>3, <2>5, <2>8, RollKeeps
    <2>10. m.day = today => Grows(m, s)
      BY <2>2, <2>5, RollLemma DEF Grows, CoordinatorState
    <2>11. s.day = req[r].day /\ (mem[req[r].org].day = today => Grows(mem[req[r].org], s))
      BY <2>2, <2>3, <2>4, <2>5, <2>10
    <2>12. QED
      BY <2>1, <2>7, <2>9, <2>11, DecisionHonest
  <1>7. ASSUME NEW r \in Req, ReserveResumes(r) PROVE Honest'
    <2>1. InFlight(r) /\ req[r].phase = "replied"
      BY <1>7 DEF ReserveResumes, InFlight
    <2>2. PICK s : s = creditWritePermits(mem[req[r].org], req[r].granted,
                                          req[r].day, req[r].answered)
      OBVIOUS
    <2>3. AdmitAndPersist(r, s) /\ UNCHANGED sold
      BY <1>7, <2>2 DEF ReserveResumes
    <2>4. /\ s \in CoordinatorState /\ s.day = req[r].day
          /\ Marks(s, sold) /\ Shares(req[r].org, s, shared)
          /\ Grows(mem[req[r].org], s)
      BY <2>1, <2>2, CreditHonest
    <2>5. QED
      BY <2>1, <2>3, <2>4, DecisionHonest
  <1>8. ASSUME NEW r \in Req, LedgerAnswers(r) PROVE Honest'
    BY <1>8, GrantHonest DEF LedgerAnswers
  <1>9. ASSUME NEW r \in Req, LedgerAnswerLost(r) PROVE Honest'
    BY <1>9, GrantHonest DEF LedgerAnswerLost
  <1>10. ASSUME NEW r \in Req, LedgerAnswersNobody(r) PROVE Honest'
    BY <1>10, GrantHonest DEF LedgerAnswersNobody
  <1>11. ASSUME NEW r \in Req, LedgerUnreachable(r) PROVE Honest'
    <2>1. PICK q \in Request : q = req[r]
      BY RequestLemma
    <2>2. PICK x : x = [q EXCEPT !.phase = "replied", !.granted = 0, !.answered = FALSE]
      OBVIOUS
    <2>3. x.phase = "replied" /\ x.answered = FALSE /\ x.org = q.org /\ x.day = q.day
      BY <2>2 DEF Request
    <2>4. req' = [req EXCEPT ![r] = x] /\ UNCHANGED <<mem, sold, shared>>
      BY <1>11, <2>1, <2>2 DEF LedgerUnreachable
    <2>5. q.phase = "asking"
      BY <1>11, <2>1 DEF LedgerUnreachable
    <2>6. mem[q.org].day = q.day
      BY <2>1, <2>5 DEF Honest, Covers
    <2>7. Covers(x, mem[x.org], sold)
      BY <2>3, <2>6 DEF Covers
    <2>8. \A y \in Req : req'[y] = IF y = r THEN x ELSE req[y]
      BY <2>4 DEF TypeOK
    <2>9. ASSUME NEW y \in Req
          PROVE  \/ Covers(req'[y], mem'[req'[y].org], sold')
                 \/ req'[y] = req[y] /\ Grows(mem[req[y].org], mem'[req[y].org])
      <3>1. CASE y = r
        BY <2>4, <2>7, <2>8, <3>1
      <3>2. CASE y # r
        BY <1>3, <2>4, <2>8, <3>2
      <3>3. QED
        BY <3>1, <3>2
    <2>10. QED
      BY <1>1, <1>2, <2>4, <2>9, HonestMoves
  <1>12. ASSUME NEW o \in Org, Evict(o) PROVE Honest'
    <2>1. UNCHANGED <<sold, shared>>
      BY <1>12 DEF Evict
    <2>2. mem' = [mem EXCEPT ![o] = hydrate(disk[o])]
      BY <1>12 DEF Evict
    <2>3. ASSUME NEW p \in Org, mem'[p] # mem[p]
          PROVE  Marks(mem'[p], sold') /\ Shares(p, mem'[p], shared')
      <3>1. p = o /\ mem'[o] = hydrate(disk[o])
        BY <2>2, <2>3 DEF TypeOK
      <3>2. mem'[p].exhausted = 0 /\ mem'[p].share = 0
        BY <3>1 DEF hydrate
      <3>3. PICK e \in 0 .. LastDay : e = mem'[p].day
        BY DEF TypeOK, CoordinatorState
      <3>4. e # 0 => e \in Day
        BY WriteBudgetAssumption DEF Day
      <3>5. \A d \in Day : shared'[p][d] \in Nat
        BY DEF TypeOK
      <3>6. e # 0 => 0 <= shared'[p][e]
        BY <3>4, <3>5
      <3>7. QED
        BY <3>2, <3>3, <3>6 DEF Marks, Shares
    <2>4. ASSUME NEW x \in Req
          PROVE  \/ Covers(req'[x], mem'[req'[x].org], sold')
                 \/ req'[x] = req[x] /\ Grows(mem[req[x].org], mem'[req[x].org])
      <3>1. CASE req[x].org = o
        <4>1. req'[x].phase \notin {"asking", "replied"}
          BY <1>12, <3>1, RequestLemma DEF Evict, Request
        <4>2. QED
          BY <4>1 DEF Covers
      <3>2. CASE req[x].org # o
        <4>1. req'[x] = req[x]
          BY <1>12, <3>2 DEF Evict
        <4>2. mem'[req[x].org] = mem[req[x].org]
          BY <2>2, <3>2, RequestLemma DEF TypeOK
        <4>3. QED
          BY <1>3, <4>1, <4>2
      <3>3. QED
        BY <3>1, <3>2
    <2>5. QED
      BY <1>1, <1>2, <2>1, <2>3, <2>4, HonestMoves
  <1>13. ASSUME Midnight PROVE Honest'
    BY <1>13 DEF Midnight, Honest
  <1>14. CASE UNCHANGED vars
    BY <1>14 DEF vars, Honest
  <1>15. QED
    BY <1>4, <1>5, <1>6, <1>7, <1>8, <1>9, <1>10, <1>11, <1>12, <1>13, <1>14
       DEF QuietNext, Next

\* A deferral by a decision on state s: the Organization's ceiling, or permits
\* that it lacks, or the platform's share.
LEMMA OutcomeTells ==
    ASSUME NEW s, NEW u, NEW origin
    PROVE  /\ admitWrite(s, u, origin) = "organization"
                => OverCeiling(s, u) \/ ShortOfPermits(s, u)
           /\ admitWrite(s, u, origin) = "platform-share"
                => OverShare(s, u, origin)
  BY DEF admitWrite

\* A request that had not to buy and is short of permits meets an empty ledger.
LEMMA ShortWithoutBuying ==
    ASSUME NEW s \in CoordinatorState, NEW u \in Nat,
           writePermitsToBuy(s, u) = 0, ShortOfPermits(s, u), ~OverCeiling(s, u)
    PROVE  s.exhausted = s.day
  <1>1. /\ s.used \in Nat /\ s.permits \in Nat /\ OrgCeiling \in Nat
        /\ Block \in Nat /\ Block > 0
    BY WriteBudgetAssumption DEF CoordinatorState
  <1>2. ASSUME s.exhausted # s.day PROVE FALSE
    <2>1. Larger(0, Smaller(Larger(Block, u), OrgCeiling - s.used - s.permits)) = 0
      BY <1>1, <1>2 DEF writePermitsToBuy, ShortOfPermits, OverCeiling
    <2>2. OrgCeiling - s.used - s.permits > 0
      BY <1>1 DEF ShortOfPermits, OverCeiling
    <2>3. QED
      BY <1>1, <2>1, <2>2 DEF Larger, Smaller
  <1>3. QED
    BY <1>2

\* What a coordinator believes is true, when no request straddles midnight.
LEMMA HonestAlways == QuietSpec => []Honest
  <1>1. Init => Honest
    <2> SUFFICES ASSUME Init PROVE Honest
      OBVIOUS
    <2>1. \A o \in Org : mem[o].exhausted = 0 /\ mem[o].day = 0
      BY DEF Init, createCoordinationState
    <2>2. \A r \in Req : req[r].phase = "unborn"
      BY DEF Init
    <2>3. QED
      BY <2>1, <2>2 DEF Honest, Marks, Shares, Covers
  <1>2. QuietSpec => Spec
    BY PTL DEF QuietSpec, Spec, QuietNext
  <1>3. QED
    BY <1>1, <1>2, TypeCorrect, CeilingsAlways, HonestStep, PTL DEF QuietSpec

\* What HonestDeferral says of one request.
DeferredHonestly(r) ==
    /\ req'[r].phase = "organization" /\ req[r].phase # "organization"
       => DaySpent(req[r]) \/ LedgerFailed(req[r])
    /\ req'[r].phase = "platform-share" /\ req[r].phase # "platform-share"
       => /\ req[r].origin = "platform"
          /\ shared[req[r].org][req[r].day] + req[r].units > PlatformShare

\* A decision that knows the day's account, and is short of permits only when
\* the day is spent or the ledger failed, defers honestly.
LEMMA DecisionDefers ==
    ASSUME TypeOK, Ceilings, NEW x \in Req, InFlight(x),
           NEW s \in CoordinatorState, AdmitAndPersist(x, s), s.day = req[x].day,
           s.used = charged[req[x].org][today], Shares(req[x].org, s, shared),
           ShortOfPermits(s, req[x].units) /\ ~OverCeiling(s, req[x].units)
             => DaySpent(req[x]) \/ LedgerFailed(req[x]),
           NEW r \in Req
    PROVE  DeferredHonestly(r)
  <1>1. PICK outcome : outcome = admitWrite(s, req[x].units, req[x].origin)
    OBVIOUS
  <1>2. \A y \in Req : req'[y] = IF y = x THEN [req[x] EXCEPT !.phase = outcome]
                                 ELSE req[y]
    BY <1>1 DEF AdmitAndPersist, TypeOK
  <1>3. CASE r # x
    BY <1>2, <1>3 DEF DeferredHonestly
  <1>4. CASE r = x
    <2>1. PICK q \in Request : q = req[x]
      BY RequestLemma
    <2>2. q.day = today /\ q.units \in Nat /\ q.org \in Org /\ q.day \in Day
      BY <2>1, RequestLemma DEF Ceilings, BooksBalance
    <2>3. req'[r].phase = outcome
      BY <1>2, <1>4, <2>1 DEF Request
    <2>4. ASSUME outcome = "organization" PROVE DaySpent(q) \/ LedgerFailed(q)
      <3>1. OverCeiling(s, q.units) \/ ShortOfPermits(s, q.units)
        BY <1>1, <2>1, <2>4, OutcomeTells
      <3>2. CASE OverCeiling(s, q.units)
        BY <2>1, <2>2, <3>2 DEF OverCeiling, DaySpent
      <3>3. CASE ~OverCeiling(s, q.units)
        BY <2>1, <3>1, <3>3
      <3>4. QED
        BY <3>2, <3>3
    <2>5. ASSUME outcome = "platform-share"
          PROVE  q.origin = "platform" /\ shared[q.org][q.day] + q.units > PlatformShare
      <3>1. OverShare(s, q.units, q.origin)
        BY <1>1, <2>1, <2>5, OutcomeTells
      <3>2. q.origin = "platform" /\ s.share + q.units > PlatformShare
        BY <3>1 DEF OverShare
      <3>3. \A p \in Org, e \in Day : shared[p][e] \in Nat
        BY DEF TypeOK
      <3>4. s.share \in Nat
        BY DEF CoordinatorState
      <3>5. q.day # 0 /\ s.share \in Nat /\ shared[q.org][q.day] \in Nat
            /\ PlatformShare \in Nat
        BY <2>2, <3>3, <3>4, WriteBudgetAssumption DEF Day
      <3>6. s.share <= shared[q.org][q.day]
        BY <2>1, <3>5 DEF Shares
      <3>7. QED
        BY <2>2, <3>2, <3>5, <3>6
    <2>6. QED
      BY <1>4, <2>1, <2>3, <2>4, <2>5 DEF DeferredHonestly
  <1>5. QED
    BY <1>3, <1>4

\* So every step defers honestly.
LEMMA DeferralStep ==
    TypeOK /\ Ceilings /\ Honest /\ [QuietNext]_vars
      => [\A r \in Req : DeferredHonestly(r)]_vars
  <1> SUFFICES ASSUME TypeOK, Ceilings, Honest, [QuietNext]_vars, NEW r \in Req
               PROVE  DeferredHonestly(r) \/ UNCHANGED vars
    OBVIOUS
  <1>1. ASSUME req'[r].phase = req[r].phase
               \/ req'[r].phase \notin {"organization", "platform-share"}
        PROVE  DeferredHonestly(r)
    BY <1>1 DEF DeferredHonestly
  <1>2. ASSUME NEW x \in Req, ReserveWithoutBuying(x) PROVE DeferredHonestly(r)
    <2>1. InFlight(x)
      BY <1>2 DEF ReserveWithoutBuying, InFlight
    <2>2. PICK q \in Request : q = req[x]
      BY RequestLemma
    <2>3. PICK d \in Day : d = q.day /\ d = today
      BY <2>1, <2>2, RequestLemma DEF Ceilings, BooksBalance
    <2>4. PICK o \in Org : o = q.org
      BY <2>2, RequestLemma
    <2>5. PICK m \in CoordinatorState : m = mem[o]
      BY DEF TypeOK
    <2>6. PICK s \in CoordinatorState : s = rollWriteDay(m, d) /\ s.day = d
      BY RollLemma
    <2>7. s = rollWriteDay(mem[req[x].org], req[x].day)
      BY <2>2, <2>3, <2>4, <2>5, <2>6
    <2>8. AdmitAndPersist(x, s) /\ writePermitsToBuy(s, req[x].units) = 0
      BY <1>2, <2>7 DEF ReserveWithoutBuying
    <2>9. s.used = charged[o][today]
      BY <2>3, <2>5, <2>6, RollKnowsToday
    <2>10. Marks(m, sold) /\ Shares(o, m, shared) /\ shared[o][d] \in Nat
      BY <2>5 DEF Honest, TypeOK
    <2>11. Marks(s, sold) /\ Shares(o, s, shared)
      BY <2>6, <2>10, RollKeeps
    <2>12. ASSUME ShortOfPermits(s, q.units), ~OverCeiling(s, q.units)
           PROVE  DaySpent(q)
      <3>1. q.units \in Nat
        BY <2>2, RequestLemma
      <3>2. s.exhausted = s.day
        BY <2>2, <2>8, <2>12, <3>1, ShortWithoutBuying
      <3>3. d # 0
        BY WriteBudgetAssumption DEF Day
      <3>4. sold[d] >= Allocation
        BY <2>6, <2>11, <3>2, <3>3 DEF Marks
      <3>5. QED
        BY <2>3, <3>4 DEF DaySpent
    <2>13. /\ s.day = req[x].day /\ s.used = charged[req[x].org][today]
           /\ Shares(req[x].org, s, shared)
      BY <2>2, <2>3, <2>4, <2>6, <2>9, <2>11
    <2>14. ShortOfPermits(s, req[x].units) /\ ~OverCeiling(s, req[x].units)
             => DaySpent(req[x]) \/ LedgerFailed(req[x])
      BY <2>2, <2>12
    <2>15. QED
      BY <2>1, <2>8, <2>13, <2>14, DecisionDefers
  <1>3. ASSUME NEW x \in Req, ReserveResumes(x) PROVE DeferredHonestly(r)
    <2>1. InFlight(x) /\ req[x].phase = "replied"
      BY <1>3 DEF ReserveResumes, InFlight
    <2>2. PICK q \in Request : q = req[x]
      BY RequestLemma
    <2>3. PICK m \in CoordinatorState : m = mem[req[x].org]
      BY RequestLemma
    <2>4. PICK s : s = creditWritePermits(mem[req[x].org], req[x].granted,
                                          req[x].day, req[x].answered)
      OBVIOUS
    <2>5. AdmitAndPersist(x, s)
      BY <1>3, <2>4 DEF ReserveResumes
    <2>6. /\ s \in CoordinatorState /\ s.day = req[x].day
          /\ Shares(req[x].org, s, shared)
      BY <2>1, <2>4, CreditHonest
    <2>7. /\ m.day = q.day /\ q.day = today
          /\ s = [day |-> q.day, used |-> m.used, share |-> m.share,
                  permits |-> m.permits + q.granted,
                  exhausted |-> IF q.answered /\ q.granted = 0 THEN q.day
                                ELSE m.exhausted]
      BY <2>1, <2>2, <2>3, <2>4, CreditAdds
    <2>8. s.used = m.used /\ s.permits = m.permits + q.granted
      BY <2>7
    <2>9. m.used = charged[req[x].org][today]
      <3>1. UsedToday(mem[req[x].org]) = charged[req[x].org][today]
        BY RequestLemma DEF Ceilings, BooksBalance
      <3>2. QED
        BY <2>3, <2>7, <3>1 DEF UsedToday
    <2>10. ASSUME ShortOfPermits(s, q.units), ~OverCeiling(s, q.units)
           PROVE  DaySpent(q) \/ LedgerFailed(q)
      <3>1. Covers(q, m, sold)
        BY <2>2, <2>3 DEF Honest
      <3>2. \/ ~q.answered \/ sold[q.day] >= Allocation
            \/ Enough(q, q.granted, m)
        BY <2>1, <2>2, <3>1 DEF Covers
      <3>3. ~Enough(q, q.granted, m)
        <4>1. /\ m.used \in Nat /\ m.permits \in Nat /\ q.granted \in Nat
              /\ q.units \in Nat /\ OrgCeiling \in Nat
          BY <2>2, RequestLemma, WriteBudgetAssumption DEF CoordinatorState
        <4>2. m.permits + q.granted < q.units /\ ~(m.used + q.units > OrgCeiling)
          BY <2>8, <2>10 DEF ShortOfPermits, OverCeiling
        <4>3. QED
          BY <4>1, <4>2 DEF Enough
      <3>4. QED
        BY <2>1, <2>2, <3>2, <3>3 DEF DaySpent, LedgerFailed
    <2>11. s.used = charged[req[x].org][today]
      BY <2>8, <2>9
    <2>12. ShortOfPermits(s, req[x].units) /\ ~OverCeiling(s, req[x].units)
             => DaySpent(req[x]) \/ LedgerFailed(req[x])
      BY <2>2, <2>10
    <2>13. QED
      BY <2>1, <2>5, <2>6, <2>11, <2>12, DecisionDefers
  <1>4. ASSUME NEW x \in Req, SendReserve(x) PROVE DeferredHonestly(r)
    <2>1. req'[r] = IF r = x THEN [req[x] EXCEPT !.phase = "sent", !.day = today]
                    ELSE req[r]
      BY <1>4 DEF SendReserve, TypeOK
    <2>2. req'[r].phase = req[r].phase \/ req'[r].phase = "sent"
      BY <2>1, RequestLemma DEF Request
    <2>3. QED
      BY <1>1, <2>2
  <1>5. ASSUME NEW x \in Req, ReserveMustBuy(x) PROVE DeferredHonestly(r)
    <2>1. PICK w : req' = [req EXCEPT ![x] = [req[x] EXCEPT !.phase = "asking",
                                                            !.wanted = w]]
      BY <1>5 DEF ReserveMustBuy
    <2>2. req'[r].phase = req[r].phase \/ req'[r].phase = "asking"
      BY <2>1, RequestLemma DEF TypeOK, Request
    <2>3. QED
      BY <1>1, <2>2
  <1>6. ASSUME NEW x \in Req, NEW heard, handlePermits(x, heard)
        PROVE  DeferredHonestly(r)
    <2>1. PICK ph : ph = IF req[x].phase = "orphan" THEN "unavailable" ELSE "replied"
      OBVIOUS
    <2>2. PICK gr : gr = IF heard THEN LedgerGrant(req[x].day, req[x].wanted) ELSE 0
      OBVIOUS
    <2>3. req' = [req EXCEPT ![x] = [req[x] EXCEPT !.phase = ph,
                                      !.granted = gr, !.answered = heard]]
      BY <1>6, <2>1, <2>2 DEF handlePermits
    <2>4. req'[r].phase = req[r].phase \/ req'[r].phase = ph
      BY <2>3, RequestLemma DEF TypeOK, Request
    <2>5. QED
      BY <1>1, <2>1, <2>4
  <1>7. ASSUME NEW x \in Req, LedgerUnreachable(x) PROVE DeferredHonestly(r)
    <2>1. req' = [req EXCEPT ![x] = [req[x] EXCEPT !.phase = "replied",
                                          !.granted = 0, !.answered = FALSE]]
      BY <1>7 DEF LedgerUnreachable
    <2>2. req'[r].phase = req[r].phase \/ req'[r].phase = "replied"
      BY <2>1, RequestLemma DEF TypeOK, Request
    <2>3. QED
      BY <1>1, <2>2
  <1>8. ASSUME NEW o \in Org, Evict(o) PROVE DeferredHonestly(r)
    <2>1. req'[r].phase = req[r].phase \/ req'[r].phase \in {"orphan", "unavailable"}
      BY <1>8, RequestLemma DEF Evict, Request
    <2>2. QED
      BY <1>1, <2>1
  <1>9. ASSUME Midnight PROVE DeferredHonestly(r)
    BY <1>9, <1>1 DEF Midnight
  <1>10. QED
    BY <1>2, <1>3, <1>4, <1>5, <1>6, <1>7, <1>8, <1>9
       DEF QuietNext, Next, LedgerAnswers, LedgerAnswerLost, LedgerAnswersNobody

\* As long as no request straddles midnight, a write is deferred only when the
\* day is spent, when the platform's share has no room for a write of its own,
\* or when the request's own call to the ledger failed: not for what other
\* requests took while it waited, and not for permits an eviction lost.
THEOREM DeferralsAreHonest == QuietSpec => HonestDeferral
  <1>1. [\A r \in Req : DeferredHonestly(r)]_vars
          => [\A r \in Req :
                /\ req'[r].phase = "organization" /\ req[r].phase # "organization"
                   => DaySpent(req[r]) \/ LedgerFailed(req[r])
                /\ req'[r].phase = "platform-share" /\ req[r].phase # "platform-share"
                   => /\ req[r].origin = "platform"
                      /\ shared[req[r].org][req[r].day] + req[r].units > PlatformShare
             ]_vars
    BY DEF DeferredHonestly
  <1>2. QuietSpec => Spec
    BY PTL DEF QuietSpec, Spec, QuietNext
  <1>3. QED
    BY <1>1, <1>2, TypeCorrect, CeilingsAlways, HonestAlways, DeferralStep, PTL
       DEF QuietSpec, HonestDeferral
=============================================================================
