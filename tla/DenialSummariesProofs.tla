------------------------ MODULE DenialSummariesProofs ------------------------
(***************************************************************************)
(* What holds of the evidence of denied requests for any number of keys,   *)
(* requests, windows and days, through any evictions and faults.           *)
(***************************************************************************)
EXTENDS DenialSummaries, FiniteSetTheorems, FunctionTheorems, TLAPS

USE DenialSummariesAssumption

LEMMA DivLemma ==
    ASSUME NEW x \in Nat, NEW c \in Nat \ {0}
    PROVE  x \div c \in Nat /\ (x \div c) * c <= x
  OBVIOUS

LEMMA DivMonotone ==
    ASSUME NEW x \in Nat, NEW y \in Nat, x <= y, NEW c \in Nat \ {0}
    PROVE  x \div c <= y \div c
  OBVIOUS

LEMMA TimesMonotone ==
    ASSUME NEW x \in Nat, NEW y \in Nat, x <= y, NEW c \in Nat
    PROVE  x * c <= y * c
  OBVIOUS

LEMMA DayLemma ==
    /\ \A w \in Window : DayOf(w) \in Day
    /\ \A v, w \in Window : v <= w => DayOf(v) <= DayOf(w)
  <1>1. \A v, w \in Window : v <= w => DayOf(v) <= DayOf(w)
    BY DivMonotone DEF DayOf, Window
  <1>2. \A w \in Window : DayOf(w) \in Nat \ {0}
    BY DivLemma DEF DayOf, Window
  <1>3. LastWindow \in Window
    BY DEF Window
  <1>4. QED
    BY <1>1, <1>2, <1>3 DEF Day, Window

LEMMA DayNat == Day \subseteq Nat /\ \A d \in Day : d \in 0 .. DayOf(LastWindow)
  <1>1. DayOf(LastWindow) \in Nat
    BY DayLemma DEF Window, Day
  <1>2. QED
    BY <1>1 DEF Day

-----------------------------------------------------------------------------
(* The budget.                                                              *)

\* What may be afforded is covered by the ceiling and by the permits.
LEMMA AffordableLemma ==
    ASSUME NEW b \in Budget, NEW d \in Day
    PROVE  /\ UsedOn(b, d) \in Nat /\ PermitsOn(b, d) \in Nat
           /\ affordable(b, d) \in Nat
           /\ affordable(b, d) * Cost <= PermitsOn(b, d)
           /\ affordable(b, d) > 0 =>
                 UsedOn(b, d) + affordable(b, d) * Cost <= OrgCeiling
  <1>1. UsedOn(b, d) \in Nat /\ PermitsOn(b, d) \in Nat
    BY DEF Budget, UsedOn, PermitsOn
  <1> DEFINE room == Larger(0, OrgCeiling - UsedOn(b, d))
             most == PermitsOn(b, d)
  <1>2. room \in Nat /\ (room > 0 => room = OrgCeiling - UsedOn(b, d))
    BY <1>1 DEF Larger
  <1>3. /\ room \div Cost \in Nat /\ (room \div Cost) * Cost <= room
        /\ most \div Cost \in Nat /\ (most \div Cost) * Cost <= most
    BY <1>1, <1>2, DivLemma
  <1>4. affordable(b, d) = Smaller(room \div Cost, most \div Cost)
    BY DEF affordable
  <1>5. /\ affordable(b, d) \in Nat
        /\ affordable(b, d) <= room \div Cost /\ affordable(b, d) <= most \div Cost
    BY <1>3, <1>4 DEF Smaller
  <1>6. /\ affordable(b, d) * Cost <= (room \div Cost) * Cost
        /\ affordable(b, d) * Cost <= (most \div Cost) * Cost
        /\ affordable(b, d) * Cost \in Nat
        /\ (room \div Cost) * Cost \in Nat /\ (most \div Cost) * Cost \in Nat
        /\ affordable(b, d) > 0 => affordable(b, d) * Cost > 0
    BY <1>3, <1>5, TimesMonotone
  <1> HIDE DEF room, most
  <1>7. affordable(b, d) * Cost <= most
    BY <1>1, <1>3, <1>6 DEF most
  <1>8. affordable(b, d) > 0 => affordable(b, d) * Cost <= OrgCeiling - UsedOn(b, d)
    BY <1>1, <1>2, <1>3, <1>6
  <1>9. QED
    BY <1>1, <1>5, <1>6, <1>7, <1>8 DEF most

\* What n calls of spendPermit do: they pay for as many as may be afforded.
LEMMA SpendLemma ==
    ASSUME NEW b \in Budget, NEW d \in Day, NEW n \in Nat
    PROVE  LET c == spendPermits(b, d, n)
               paid == Smaller(n, affordable(b, d))
           IN  /\ c \in Budget
               /\ paid \in Nat
               /\ UsedOn(c, d) = UsedOn(b, d) + paid * Cost
               /\ PermitsOn(c, d) = PermitsOn(b, d) - paid * Cost
               /\ UsedOn(b, d) <= OrgCeiling => UsedOn(c, d) <= OrgCeiling
               /\ n > 0 \/ (b.day = d /\ b.permitsDay = d) => c.day = d /\ c.permitsDay = d
               /\ n = 0 => c = b
               /\ c.exhausted = b.exhausted
  <1> DEFINE c == spendPermits(b, d, n)
             paid == Smaller(n, affordable(b, d))
  <1>1. /\ UsedOn(b, d) \in Nat /\ PermitsOn(b, d) \in Nat
        /\ affordable(b, d) \in Nat
        /\ affordable(b, d) * Cost <= PermitsOn(b, d)
        /\ affordable(b, d) > 0 =>
              UsedOn(b, d) + affordable(b, d) * Cost <= OrgCeiling
    BY AffordableLemma
  <1>2. paid \in Nat /\ paid <= affordable(b, d) /\ (n = 0 => paid = 0)
    BY <1>1 DEF Smaller
  <1>3. /\ paid * Cost \in Nat /\ affordable(b, d) * Cost \in Nat
        /\ paid * Cost <= affordable(b, d) * Cost
        /\ paid = 0 => paid * Cost = 0
    BY <1>1, <1>2, TimesMonotone
  <1>4. d \in 0 .. DayOf(LastWindow)
    BY DayNat
  <1>5. CASE n = 0
    <2>1. c = b
      BY <1>5 DEF spendPermits
    <2>2. QED
      BY <2>1, <1>1, <1>2, <1>3, <1>5
  <1>6. CASE n # 0
    <2>1. c = [b EXCEPT !.day = d, !.permitsDay = d,
                        !.used = UsedOn(b, d) + paid * Cost,
                        !.permits = PermitsOn(b, d) - paid * Cost]
      BY <1>6 DEF spendPermits
    <2>2. /\ UsedOn(b, d) + paid * Cost \in Nat
          /\ PermitsOn(b, d) - paid * Cost \in Nat
          /\ UsedOn(b, d) <= OrgCeiling => UsedOn(b, d) + paid * Cost <= OrgCeiling
      <3> HIDE DEF paid
      <3>1. CASE affordable(b, d) = 0
        BY <3>1, <1>1, <1>2, <1>3
      <3>2. CASE affordable(b, d) > 0
        BY <3>2, <1>1, <1>2, <1>3
      <3>3. QED
        BY <3>1, <3>2, <1>1
    <2>3. /\ c \in Budget /\ c.day = d /\ c.permitsDay = d
          /\ c.used = UsedOn(b, d) + paid * Cost
          /\ c.permits = PermitsOn(b, d) - paid * Cost
          /\ c.exhausted = b.exhausted
      BY <2>1, <2>2, <1>4 DEF Budget
    <2>4. QED
      BY <2>2, <2>3, <1>2, <1>6 DEF UsedOn, PermitsOn
  <1>7. QED
    BY <1>5, <1>6

LEMMA CreditLemma ==
    ASSUME NEW b \in Budget, NEW d \in Day, NEW n \in Nat, NEW answered \in BOOLEAN
    PROVE  LET c == creditPermits(b, n, d, answered)
           IN  /\ c \in Budget
               /\ c.day = b.day /\ c.used = b.used /\ c.permitsDay = d
               /\ PermitsOn(c, d) = PermitsOn(b, d) + n
  <1> DEFINE c == creditPermits(b, n, d, answered)
  <1>1. d \in 0 .. DayOf(LastWindow)
    BY DayNat
  <1>2. PermitsOn(b, d) \in Nat /\ PermitsOn(b, d) + n \in Nat
    BY DEF Budget, PermitsOn
  <1>3. PICK e \in 0 .. DayOf(LastWindow) :
           e = IF answered /\ n = 0 THEN d ELSE b.exhausted
    BY <1>1 DEF Budget
  <1>4. c = [b EXCEPT !.permitsDay = d, !.permits = PermitsOn(b, d) + n, !.exhausted = e]
    BY <1>3 DEF creditPermits, Budget
  <1>5. /\ c \in Budget /\ c.day = b.day /\ c.used = b.used /\ c.permitsDay = d
        /\ c.permits = PermitsOn(b, d) + n
    BY <1>1, <1>2, <1>3, <1>4 DEF Budget
  <1>6. PermitsOn(c, d) = PermitsOn(b, d) + n
    BY <1>5 DEF PermitsOn
  <1>7. QED
    BY <1>5, <1>6

LEMMA HydrateLemma ==
    ASSUME NEW b \in Budget
    PROVE  LET c == hydrateBudget(b)
           IN  /\ c \in Budget
               /\ c.day = b.day /\ c.used = b.used
               /\ c.permitsDay = b.day /\ c.permits = b.permits
  <1> DEFINE c == hydrateBudget(b)
  <1>1. c = [day |-> b.day, used |-> b.used, permitsDay |-> b.day,
             permits |-> b.permits, exhausted |-> 0]
    BY DEF hydrateBudget
  <1>2. 0 \in 0 .. DayOf(LastWindow)
    BY DayLemma DEF Window, Day
  <1>3. QED
    BY <1>1, <1>2 DEF Budget

LEMMA NewBudgetType == NewBudget \in Budget
  BY DayLemma DEF Budget, NewBudget, Window, Day

-----------------------------------------------------------------------------
(* One turn of the coordinator.                                             *)

\* recordDenial: what becomes of the group and the budget.
LEMMA RecordLemma ==
    ASSUME NEW old \in DenialGroup, NEW w \in Window, NEW b \in Budget
    PROVE  LET d == DayOf(w)
               b1 == AfterClose(old, w, b)
               b2 == AfterRecord(old, w, b)
           IN  /\ b1 \in Budget /\ b2 \in Budget
               /\ UsedOn(b2, d) = UsedOn(b, d)
                     + (Count(Closed(old, w, b)) + Count(Paid(old, w, b))) * Cost
               /\ PermitsOn(b2, d) = PermitsOn(b, d)
                     - (Count(Closed(old, w, b)) + Count(Paid(old, w, b))) * Cost
               /\ UsedOn(b, d) <= OrgCeiling => UsedOn(b2, d) <= OrgCeiling
               /\ Due(old, w, b) \/ (b.day = d /\ b.permitsDay = d)
                     => b2.day = d /\ b2.permitsDay = d
  <1> DEFINE d == DayOf(w)
             b1 == AfterClose(old, w, b)
             b2 == AfterRecord(old, w, b)
             n == Count(Closing(old, w))
             m == Count(Due(old, w, b))
             closed == Count(Closed(old, w, b))
             paid == Count(Paid(old, w, b))
  <1>1. d \in Day /\ n \in Nat /\ m \in Nat /\ closed \in Nat /\ paid \in Nat
    BY DayLemma DEF Count
  <1>2. b1 = spendPermits(b, d, n)
    BY DEF AfterClose
  <1>3. affordable(b, d) \in Nat
    BY <1>1, AffordableLemma
  <1>4. Smaller(n, affordable(b, d)) = closed
    BY <1>3 DEF Smaller, Closed, Count
  <1> HIDE DEF n, m, closed, paid, d
  <1>5. /\ b1 \in Budget
        /\ UsedOn(b1, d) = UsedOn(b, d) + closed * Cost
        /\ PermitsOn(b1, d) = PermitsOn(b, d) - closed * Cost
        /\ UsedOn(b, d) <= OrgCeiling => UsedOn(b1, d) <= OrgCeiling
        /\ (b.day = d /\ b.permitsDay = d) => b1.day = d /\ b1.permitsDay = d
    BY <1>1, <1>2, <1>4, SpendLemma
  <1> HIDE DEF b1
  <1>6. b2 = spendPermits(b1, d, m)
    BY DEF AfterRecord, b1, d, m
  <1>7. affordable(b1, d) \in Nat
    BY <1>1, <1>5, AffordableLemma
  <1>8. Smaller(m, affordable(b1, d)) = paid
    BY <1>7 DEF Smaller, Paid, Count, b1, d, m, paid
  <1>9. Due(old, w, b) => m > 0
    BY DEF m, Count
  <1>10. /\ b2 \in Budget
         /\ UsedOn(b2, d) = UsedOn(b1, d) + paid * Cost
         /\ PermitsOn(b2, d) = PermitsOn(b1, d) - paid * Cost
         /\ UsedOn(b1, d) <= OrgCeiling => UsedOn(b2, d) <= OrgCeiling
         /\ m > 0 \/ (b1.day = d /\ b1.permitsDay = d)
               => b2.day = d /\ b2.permitsDay = d
    BY <1>1, <1>5, <1>6, <1>8, SpendLemma
  <1>11. (closed + paid) * Cost = closed * Cost + paid * Cost
    BY <1>1
  <1>12. UsedOn(b, d) \in Nat /\ PermitsOn(b, d) \in Nat
    BY <1>1, AffordableLemma
  <1>13. closed * Cost \in Nat /\ paid * Cost \in Nat
    BY <1>1
  <1>14. /\ UsedOn(b2, d) = UsedOn(b, d) + (closed + paid) * Cost
         /\ PermitsOn(b2, d) = PermitsOn(b, d) - (closed + paid) * Cost
    BY <1>5, <1>10, <1>11, <1>12, <1>13
  <1>15. /\ UsedOn(b, d) <= OrgCeiling => UsedOn(b2, d) <= OrgCeiling
         /\ Due(old, w, b) \/ (b.day = d /\ b.permitsDay = d)
               => b2.day = d /\ b2.permitsDay = d
    BY <1>5, <1>9, <1>10
  <1>16. QED
    BY <1>5, <1>10, <1>14, <1>15 DEF b1, d, closed, paid

LEMMA WhereLemma ==
    ASSUME NEW condition, NEW element
    PROVE  LET set == Where(condition, element)
           IN  IsFiniteSet(set) /\ Cardinality(set) = Count(condition)
  BY FS_Singleton, FS_EmptySet DEF Where, Count

LEMMA UnionLemma ==
    ASSUME NEW S, NEW T, IsFiniteSet(S), IsFiniteSet(T)
    PROVE  /\ IsFiniteSet(S \cup T)
           /\ Cardinality(S) \in Nat /\ Cardinality(T) \in Nat
           /\ Cardinality(S \cup T) \in Nat
           /\ Cardinality(S \cup T) <= Cardinality(S) + Cardinality(T)
  <1>1. IsFiniteSet(S \cap T)
    <2>1. S \cap T \in SUBSET S
      OBVIOUS
    <2>2. QED
      BY <2>1, FS_Subset
  <1>2. /\ Cardinality(S) \in Nat /\ Cardinality(T) \in Nat
        /\ Cardinality(S \cap T) \in Nat
    BY <1>1, FS_CardinalityType
  <1>3. /\ IsFiniteSet(S \cup T)
        /\ Cardinality(S \cup T) = Cardinality(S) + Cardinality(T) - Cardinality(S \cap T)
    BY FS_Union
  <1>4. Cardinality(S \cup T) \in Nat
    BY <1>3, FS_CardinalityType
  <1>5. Cardinality(S \cup T) <= Cardinality(S) + Cardinality(T)
    BY <1>2, <1>3
  <1>6. QED
    BY <1>2, <1>3, <1>4, <1>5

\* The rows of an answer are as many as the summaries that were paid, or fewer.
LEMMA RowsLemma ==
    ASSUME NEW k \in Key, NEW w, NEW b, NEW final \in SUBSET Key
    PROVE  LET rows == RowsOf(k, w, b, final)
           IN  /\ IsFiniteSet(rows) /\ Cardinality(rows) \in Nat
               /\ Cardinality(final) \in Nat
               /\ Cardinality(rows) <= Count(Closed(groups[k], w, b))
                     + Count(Paid(groups[k], w, b)) + Cardinality(final)
  <1> DEFINE closing == Where(Closed(groups[k], w, b), toSummary(k, groups[k]))
             due == Where(Paid(groups[k], w, b), toSummary(k, Attempt(groups[k], w)))
             swept == {toSummary(x, groups[x]) : x \in final}
             rows == RowsOf(k, w, b, final)
  <1>1. IsFiniteSet(closing) /\ Cardinality(closing) = Count(Closed(groups[k], w, b))
    BY WhereLemma
  <1>2. IsFiniteSet(due) /\ Cardinality(due) = Count(Paid(groups[k], w, b))
    BY WhereLemma
  <1>3. IsFiniteSet(final)
    BY FS_Subset
  <1>4. IsFiniteSet(swept) /\ Cardinality(swept) <= Cardinality(final)
    <2> DEFINE f == [x \in final |-> toSummary(x, groups[x])]
    <2>1. f \in Surjection(final, swept)
      <3>1. f \in [final -> swept]
        OBVIOUS
      <3>2. \A y \in swept : \E x \in final : f[x] = y
        OBVIOUS
      <3> HIDE DEF f
      <3>3. QED
        BY <3>1, <3>2, Fun_IsSurj
    <2> HIDE DEF f, swept
    <2>2. QED
      BY <1>3, <2>1, FS_Surjection
  <1>5. rows = closing \cup due \cup swept
    BY DEF RowsOf
  <1> HIDE DEF closing, due, swept, rows
  <1>6. Cardinality(final) \in Nat
    BY <1>3, FS_CardinalityType
  <1>7. /\ IsFiniteSet(closing \cup due)
        /\ Cardinality(closing \cup due) \in Nat
        /\ Cardinality(closing) \in Nat /\ Cardinality(due) \in Nat
        /\ Cardinality(closing \cup due) <= Cardinality(closing) + Cardinality(due)
    BY <1>1, <1>2, UnionLemma
  <1>8. /\ IsFiniteSet(rows)
        /\ Cardinality(rows) \in Nat /\ Cardinality(swept) \in Nat
        /\ Cardinality(rows) <= Cardinality(closing \cup due) + Cardinality(swept)
    BY <1>4, <1>5, <1>7, UnionLemma
  <1>9. Cardinality(rows) <= Count(Closed(groups[k], w, b))
            + Count(Paid(groups[k], w, b)) + Cardinality(final)
    BY <1>1, <1>2, <1>4, <1>6, <1>7, <1>8
  <1>10. QED
    BY <1>6, <1>8, <1>9 DEF rows

\* The first attempt in a window is always due.
LEMMA FirstIsDue ==
    ASSUME NEW old, NEW w, NEW b, old.window # w
    PROVE  Due(old, w, b) /\ Attempt(old, w).window = w
  BY DEF Due, emissionDue, Attempt

DatedOn(b, d) == b.day = d /\ b.permitsDay = d

\* What a turn takes from the budget covers the rows of its answer.
LEMMA BillLemma ==
    ASSUME NEW k \in Key, groups \in [Key -> DenialGroup],
           NEW w \in Window, NEW b \in Budget,
           NEW toReport \in SUBSET Key, NEW final \in SUBSET toReport,
           Cardinality(final) = Smaller(Cardinality(toReport),
                                        affordable(AfterRecord(groups[k], w, b), DayOf(w)))
    PROVE  LET d == DayOf(w)
               c == spendPermits(AfterRecord(groups[k], w, b), d, Cardinality(toReport))
               rows == RowsOf(k, w, b, final)
           IN  /\ c \in Budget
               /\ IsFiniteSet(rows) /\ Cost * Cardinality(rows) \in Nat
               /\ UsedOn(b, d) + Cost * Cardinality(rows) <= UsedOn(c, d)
               /\ PermitsOn(c, d) + Cost * Cardinality(rows) <= PermitsOn(b, d)
               /\ UsedOn(b, d) <= OrgCeiling => UsedOn(c, d) <= OrgCeiling
               /\ (groups[k].window # w \/ DatedOn(b, d) => DatedOn(c, d))
  <1> DEFINE d == DayOf(w)
             recorded == AfterRecord(groups[k], w, b)
             c == spendPermits(recorded, d, Cardinality(toReport))
             rows == RowsOf(k, w, b, final)
             first == Count(Closed(groups[k], w, b)) + Count(Paid(groups[k], w, b))
             all == Cardinality(rows)
             last == Cardinality(final)
             n == Cardinality(toReport)
  <1>1. d \in Day /\ groups[k] \in DenialGroup /\ first \in Nat
    BY DayLemma DEF Count
  <1>2. n \in Nat
    BY FS_Subset, FS_CardinalityType
  <1>3. /\ recorded \in Budget
        /\ UsedOn(recorded, d) = UsedOn(b, d) + first * Cost
        /\ PermitsOn(recorded, d) = PermitsOn(b, d) - first * Cost
        /\ UsedOn(b, d) <= OrgCeiling => UsedOn(recorded, d) <= OrgCeiling
        /\ Due(groups[k], w, b) \/ (b.day = d /\ b.permitsDay = d)
              => recorded.day = d /\ recorded.permitsDay = d
    BY <1>1, RecordLemma
  <1>20. groups[k].window # w => Due(groups[k], w, b)
    BY FirstIsDue
  <1>4. final \in SUBSET Key
    OBVIOUS
  <1>5. /\ IsFiniteSet(rows) /\ all \in Nat /\ last \in Nat
        /\ all <= first + last
    BY <1>4, RowsLemma
  <1> HIDE DEF d, recorded, rows, first, all
  <1>6. last = Smaller(n, affordable(recorded, d))
    BY DEF recorded, d
  <1> HIDE DEF last, n
  <1>7. c = spendPermits(recorded, d, n)
    BY DEF c, n, recorded, d
  <1>8. /\ c \in Budget
        /\ UsedOn(c, d) = UsedOn(recorded, d) + last * Cost
        /\ PermitsOn(c, d) = PermitsOn(recorded, d) - last * Cost
        /\ UsedOn(recorded, d) <= OrgCeiling => UsedOn(c, d) <= OrgCeiling
        /\ recorded.day = d /\ recorded.permitsDay = d => c.day = d /\ c.permitsDay = d
    BY <1>1, <1>2, <1>3, <1>6, <1>7, SpendLemma
  <1> HIDE DEF c
  <1>9. UsedOn(b, d) \in Nat /\ PermitsOn(b, d) \in Nat
    BY <1>1, AffordableLemma
  <1>10. /\ Cost * all \in Nat /\ first * Cost \in Nat /\ last * Cost \in Nat
        /\ Cost * all <= first * Cost + last * Cost
    <2>1. /\ first + last \in Nat
          /\ (first + last) * Cost = first * Cost + last * Cost
          /\ Cost * all = all * Cost
      BY <1>1, <1>5
    <2>2. all * Cost <= (first + last) * Cost
      BY <2>1, <1>5, TimesMonotone
    <2>3. QED
      BY <2>1, <2>2, <1>1, <1>5
  <1>11. /\ UsedOn(b, d) + Cost * all <= UsedOn(c, d)
         /\ PermitsOn(c, d) + Cost * all <= PermitsOn(b, d)
    BY <1>3, <1>8, <1>9, <1>10
  <1>12. QED
    BY <1>3, <1>20, <1>5, <1>8, <1>10, <1>11 DEF d, recorded, c, rows, all, DatedOn

-----------------------------------------------------------------------------
(* Type correctness.                                                        *)

LEMMA GroupTypes ==
    /\ NoGroup \in DenialGroup
    /\ \A g \in DenialGroup, w \in Window :
          Attempt(g, w) \in DenialGroup /\ Emitted(Attempt(g, w)) \in DenialGroup
  <1>1. NoGroup \in DenialGroup
    BY DEF NoGroup, DenialGroup
  <1>2. ASSUME NEW g \in DenialGroup, NEW w \in Window
        PROVE  Attempt(g, w) \in DenialGroup
    <2>1. CASE g.window = w
      <3>1. Attempt(g, w) = [window |-> g.window, attempts |-> g.attempts + 1,
                             emittedAt |-> g.emittedAt, emissions |-> g.emissions]
        BY <2>1 DEF Attempt, DenialGroup
      <3>2. QED
        BY <3>1 DEF DenialGroup
    <2>2. CASE g.window # w
      BY <2>2 DEF Attempt, DenialGroup, Window
    <2>3. QED
      BY <2>1, <2>2
  <1>3. ASSUME NEW g \in DenialGroup
        PROVE  Emitted(g) \in DenialGroup
    <2>1. g.attempts \in Nat /\ g.emissions + 1 \in Nat
      BY DEF DenialGroup
    <2>2. PICK a \in Nat, e \in Nat : a = g.attempts /\ e = g.emissions + 1
      BY <2>1
    <2>3. Emitted(g) = [g EXCEPT !.emittedAt = a, !.emissions = e]
      BY <2>2 DEF Emitted
    <2>4. QED
      BY <2>3 DEF DenialGroup
  <1>4. QED
    BY <1>1, <1>2, <1>3

\* The rows of an answer are summaries, and what is refused names a window.
LEMMA AnswerTypes ==
    ASSUME NEW k \in Key, groups \in [Key -> DenialGroup],
           NEW w \in Window, NEW b,
           NEW final \in SUBSET Stale(k, w), NEW unpaid \in SUBSET Stale(k, w)
    PROVE  /\ RowsOf(k, w, b, final) \subseteq Summary
           /\ RefusedOf(k, w, b, unpaid) \subseteq Key \X Window
  <1>1. \A g \in DenialGroup : g.window # 0 => g.window \in Window
    BY DEF DenialGroup, Window
  <1>2. \A x \in Key, g \in DenialGroup : g.window # 0 => toSummary(x, g) \in Summary
    BY <1>1 DEF toSummary, Summary, DenialGroup
  <1>3. groups[k] \in DenialGroup
    OBVIOUS
  <1>4. Attempt(groups[k], w) \in DenialGroup /\ Attempt(groups[k], w).window = w
    BY <1>3, GroupTypes DEF Attempt, DenialGroup
  <1>5. w # 0
    BY DEF Window
  <1>6. toSummary(k, Attempt(groups[k], w)) \in Summary
    BY <1>2, <1>4, <1>5
  <1>7. Closing(groups[k], w) => /\ groups[k].window \in Window
                                 /\ toSummary(k, groups[k]) \in Summary
    BY <1>1, <1>2, <1>3 DEF Closing
  <1>8. \A x \in Stale(k, w) : /\ x \in Key /\ groups[x].window \in Window
                               /\ toSummary(x, groups[x]) \in Summary
    BY <1>1, <1>2 DEF Stale
  <1>9. RowsOf(k, w, b, final) \subseteq Summary
    BY <1>6, <1>7, <1>8 DEF RowsOf, Where, Closed
  <1>10. RefusedOf(k, w, b, unpaid) \subseteq Key \X Window
    BY <1>7, <1>8 DEF RefusedOf, Where
  <1>11. QED
    BY <1>9, <1>10

Request == [phase : Phase, key : Key, window : Window, granted : Nat,
            answered : BOOLEAN, rows : SUBSET Summary]

LEMMA AnsweredType ==
    ASSUME NEW q \in Request, NEW rows \in SUBSET Summary
    PROVE  LET a == Answered(q, rows)
           IN  /\ a \in Request
               /\ a.key = q.key /\ a.rows = rows
               /\ a.phase = IF rows = {} THEN "done" ELSE "recorded"
  <1>1. 1 \in Window
    BY DEF Window
  <1>2. QED
    BY <1>1 DEF Answered, Request, Phase

\* One turn keeps the types.
LEMMA TurnType ==
    ASSUME TypeOK, NEW r \in Req, NEW b \in Budget,
           NEW swept \in SUBSET Stale(req[r].key, req[r].window),
           NEW final \in SUBSET (swept \cap Pending(req[r].key, req[r].window)),
           Turn(r, b, swept, final)
    PROVE  /\ groups' \in [Key -> DenialGroup]
           /\ budget' \in Budget
           /\ stored' \in [groups : [Key -> DenialGroup], budget : Budget]
           /\ req' \in [Req -> Request]
           /\ counted' \in [Key -> [Window -> Nat]]
           /\ emitted' \in [Key -> [Window -> Nat]]
           /\ spent' \in [Day -> Nat]
           /\ announced' \subseteq Key \X Window
           /\ newest' \in 0 .. LastWindow
           /\ ordered' \in BOOLEAN
  <1> DEFINE k == req[r].key
             w == req[r].window
             d == DayOf(w)
             recorded == AfterRecord(groups[k], w, b)
             toReport == swept \cap Pending(k, w)
             rows == RowsOf(k, w, b, final)
  <1>1. k \in Key /\ w \in Window /\ groups \in [Key -> DenialGroup]
    BY DEF TypeOK
  <1>2. d \in Day
    BY <1>1, DayLemma
  <1>3. /\ toReport \in SUBSET Key /\ final \in SUBSET toReport
        /\ final \in SUBSET Stale(k, w) /\ toReport \ final \in SUBSET Stale(k, w)
    BY DEF Stale, Pending
  <1>4. Cardinality(final) = Smaller(Cardinality(toReport), affordable(recorded, d))
    BY DEF Turn
  <1>5. /\ spendPermits(recorded, d, Cardinality(toReport)) \in Budget
        /\ Cost * Cardinality(rows) \in Nat
    BY <1>1, <1>3, <1>4, BillLemma
  <1>6. budget' \in Budget
    BY <1>5 DEF Turn
  <1>7. groups' \in [Key -> DenialGroup]
    <2>1. NoGroup \in DenialGroup /\ GroupAfter(groups[k], w, b) \in DenialGroup
      BY <1>1, GroupTypes DEF GroupAfter
    <2>2. groups' = [x \in Key |-> IF x = k THEN GroupAfter(groups[k], w, b)
                                  ELSE IF x \in swept THEN NoGroup
                                  ELSE groups[x]]
      BY DEF Turn
    <2>3. QED
      BY <1>1, <2>1, <2>2
  <1>8. stored' \in [groups : [Key -> DenialGroup], budget : Budget]
    <2>1. stored' = [groups |-> [x \in Key |->
                         IF x \in swept \/ (x = k /\ Due(groups[k], w, b))
                         THEN groups'[x] ELSE stored.groups[x]],
                     budget |-> budget']
      BY DEF Turn
    <2>2. stored.groups \in [Key -> DenialGroup]
      BY DEF TypeOK
    <2>3. QED
      BY <1>6, <1>7, <2>1, <2>2
  <1>9. rows \subseteq Summary /\ RefusedOf(k, w, b, toReport \ final) \subseteq Key \X Window
    BY <1>1, <1>3, AnswerTypes
  <1>10. announced' \subseteq Key \X Window
    BY <1>9 DEF Turn, TypeOK
  <1>11. req' \in [Req -> Request]
    <2>1. req' = [req EXCEPT ![r] = Answered(req[r], rows)]
      BY DEF Turn
    <2>2. req \in [Req -> Request]
      BY DEF TypeOK, Request
    <2> HIDE DEF rows
    <2>3. Answered(req[r], rows) \in Request
      BY <1>9, <2>2, AnsweredType
    <2>4. QED
      BY <2>1, <2>2, <2>3
  <1>12. counted' \in [Key -> [Window -> Nat]]
    <2>1. counted \in [Key -> [Window -> Nat]]
      BY DEF TypeOK
    <2>2. counted' = [counted EXCEPT ![k][w] = @ + 1]
      BY DEF Turn
    <2>3. QED
      BY <1>1, <2>1, <2>2
  <1>13. emitted' \in [Key -> [Window -> Nat]]
    <2> HIDE DEF rows
    <2> DEFINE more(x, v) == Count(\E row \in rows : row.key = x /\ row.window = v)
    <2>1. emitted' = [x \in Key |-> [v \in Window |-> emitted[x][v] + more(x, v)]]
      BY DEF Turn, rows
    <2>2. \A x, v : more(x, v) \in Nat
      BY DEF Count
    <2> HIDE DEF more
    <2>3. \A x \in Key, v \in Window : emitted[x][v] + more(x, v) \in Nat
      BY <2>2 DEF TypeOK
    <2>4. QED
      BY <2>1, <2>3
  <1>14. spent' \in [Day -> Nat]
    <2>1. spent \in [Day -> Nat]
      BY DEF TypeOK
    <2>2. spent' = [spent EXCEPT ![d] = @ + Cost * Cardinality(rows)]
      BY DEF Turn
    <2> HIDE DEF rows
    <2>3. QED
      BY <1>2, <1>5, <2>1, <2>2
  <1>15. newest' \in 0 .. LastWindow /\ ordered' \in BOOLEAN
    BY <1>1 DEF Turn, TypeOK, Larger, Window
  <1>16. QED
    BY <1>6, <1>7, <1>8, <1>10, <1>11, <1>12, <1>13, <1>14, <1>15

-----------------------------------------------------------------------------
(* The steps.  A step is a turn of the coordinator, or moves the rows of one *)
(* answer, or does neither and leaves the evidence alone.                    *)

\* A step that only carries requests and answers, or evicts the coordinator.
Quiet ==
    /\ UNCHANGED <<table, historyVars>>
    /\ \A q \in Req : /\ (req'[q].phase = "recorded") <=> (req[q].phase = "recorded")
                      /\ (req[q].phase = "recorded" => req'[q].rows = req[q].rows)
    /\ \/ UNCHANGED coordinatorVars
       \/ /\ groups' = stored.groups
          /\ budget' = hydrateBudget(stored.budget)
          /\ stored' = stored

\* A turn for request r, on the budget after n permits were received.
TurnOn(r, b, n) ==
    LET d == DayOf(req[r].window)
    IN  /\ req[r].phase # "recorded"
        /\ RecordAndSweep(r, b)
        /\ UNCHANGED table
        /\ b.day = budget.day /\ b.used = budget.used
        /\ b.permitsDay \in {d, budget.permitsDay}
        /\ PermitsOn(b, d) = PermitsOn(budget, d) + n
        /\ credited' = [credited EXCEPT ![d] = @ + n]

LEMMA RequestSubset ==
    ASSUME NEW P, NEW W, NEW G, NEW A, NEW R,
           P \subseteq Phase, W \subseteq Window, G \subseteq Nat,
           A \subseteq BOOLEAN, R \subseteq SUBSET Summary
    PROVE  [phase : P, key : Key, window : W, granted : G, answered : A, rows : R]
              \subseteq Request
  BY DEF Request

LEMMA RequestType == TypeOK => req \in [Req -> Request]
  BY DEF TypeOK, Request

LEMMA RepliedType ==
    ASSUME NEW q \in Request, NEW n \in Nat, NEW answered \in BOOLEAN
    PROVE  Replied(q, n, answered) \in Request /\ Replied(q, n, answered).phase = "replied"
  BY DEF Replied, Request, Phase

LEMMA RequestStep ==
    ASSUME TypeOK, NEW r \in Req, NEW q \in Request,
           req' = [req EXCEPT ![r] = q],
           req[r].phase # "recorded", q.phase # "recorded"
    PROVE  /\ req' \in [Req -> Request]
           /\ \A x \in Req : /\ (req'[x].phase = "recorded") <=> (req[x].phase = "recorded")
                             /\ (req[x].phase = "recorded" => req'[x].rows = req[x].rows)
  BY RequestType

\* What the types say of the variables that only handlePermits, NextWindow and
\* the bounds change.
LEMMA LedgerType ==
    ASSUME TypeOK, NEW r \in Req, NEW heard \in BOOLEAN, handlePermits(r, heard),
           req[r].phase \in {"asking", "orphan"}
    PROVE  /\ ledger' \in [day : 0 .. DayOf(LastWindow), used : Nat]
           /\ Quiet
           /\ req' \in [Req -> Request]
           /\ UNCHANGED <<now, groups, budget, stored, table, historyVars>>
  <1> DEFINE d == DayOf(req[r].window)
             granted == LedgerGrant(d)
             q == IF req[r].phase = "orphan" THEN Finished(req[r])
                  ELSE Replied(req[r], IF heard THEN granted ELSE 0, heard)
  <1>1. d \in Day /\ d \in 0 .. DayOf(LastWindow)
    BY DayLemma, DayNat DEF TypeOK
  <1>2. granted \in Nat /\ LedgerUsed(d) \in Nat
    BY DEF TypeOK, LedgerGrant, LedgerUsed, Larger, Smaller
  <1>3. ledger' \in [day : 0 .. DayOf(LastWindow), used : Nat]
    <2>1. ledger' = [day |-> d, used |-> LedgerUsed(d) + granted]
      BY DEF handlePermits
    <2>2. LedgerUsed(d) + granted \in Nat
      BY <1>2
    <2>3. QED
      BY <1>1, <2>1, <2>2
  <1>4. req' = [req EXCEPT ![r] = q]
    BY DEF handlePermits
  <1>5. req[r] \in Request
    BY RequestType
  <1>6. q \in Request /\ q.phase # "recorded"
    <2>1. CASE req[r].phase = "orphan"
      BY <2>1, <1>5, AnsweredType DEF Finished
    <2>2. CASE req[r].phase # "orphan"
      <3>1. PICK n \in Nat : n = IF heard THEN granted ELSE 0
        BY <1>2
      <3>2. q = Replied(req[r], n, heard)
        BY <2>2, <3>1
      <3>3. QED
        BY <3>2, <1>5, RepliedType
    <2>3. QED
      BY <2>1, <2>2
  <1> HIDE DEF q
  <1>7. UNCHANGED <<now, groups, budget, stored, table, historyVars>>
    BY DEF handlePermits, coordinatorVars
  <1>8. QED
    BY <1>3, <1>4, <1>6, <1>7, RequestStep DEF Quiet, coordinatorVars

LEMMA FaultType == TypeOK /\ Fault => faults' \in 0 .. MaxFaults /\ evictions' = evictions
  BY DEF TypeOK, Fault

\* A step that only changes requests keeps the types.
LEMMA CarryType ==
    ASSUME TypeOK, req' \in [Req -> Request],
           now' \in Window, ledger' \in [day : 0 .. DayOf(LastWindow), used : Nat],
           evictions' \in 0 .. MaxEvictions, faults' \in 0 .. MaxFaults,
           UNCHANGED <<coordinatorVars, table, historyVars>>
    PROVE  TypeOK'
  BY DEF TypeOK, Request, coordinatorVars, historyVars

LEMMA PostDenialStep ==
    ASSUME TypeOK, NEW r \in Req, PostDenial(r)
    PROVE  TypeOK' /\ Quiet
  <1>1. PICK q : q = [req[r] EXCEPT !.phase = "sent", !.window = now]
    OBVIOUS
  <1>2. req' = [req EXCEPT ![r] = q]
    BY <1>1 DEF PostDenial
  <1>3. q \in Request /\ q.phase = "sent" /\ req[r].phase = "unborn"
    <2>1. now \in Window
      BY DEF TypeOK
    <2>2. req[r] \in Request
      BY RequestType
    <2>3. q \in Request /\ q.phase = "sent"
      BY <1>1, <2>1, <2>2 DEF Request, Phase
    <2>4. QED
      BY <2>3 DEF PostDenial
  <1>4. UNCHANGED <<now, coordinatorVars, ledger, table, historyVars, boundVars>>
    BY DEF PostDenial
  <1>5. /\ req' \in [Req -> Request]
        /\ \A x \in Req : /\ (req'[x].phase = "recorded") <=> (req[x].phase = "recorded")
                          /\ (req[x].phase = "recorded" => req'[x].rows = req[x].rows)
    BY <1>2, <1>3, RequestStep
  <1>6. TypeOK'
    BY <1>4, <1>5, CarryType DEF TypeOK, boundVars
  <1>7. QED
    BY <1>4, <1>5, <1>6 DEF Quiet

LEMMA DenialMustBuyStep ==
    ASSUME TypeOK, NEW r \in Req, DenialMustBuy(r)
    PROVE  TypeOK' /\ Quiet
  <1>1. PICK q : q = [req[r] EXCEPT !.phase = "asking"]
    OBVIOUS
  <1>2. req' = [req EXCEPT ![r] = q]
    BY <1>1 DEF DenialMustBuy
  <1>3. q \in Request /\ q.phase = "asking" /\ req[r].phase = "sent"
    BY <1>1, RequestType DEF DenialMustBuy, Request, Phase
  <1>4. UNCHANGED <<now, coordinatorVars, ledger, table, historyVars, boundVars>>
    BY DEF DenialMustBuy
  <1>5. /\ req' \in [Req -> Request]
        /\ \A x \in Req : /\ (req'[x].phase = "recorded") <=> (req[x].phase = "recorded")
                          /\ (req[x].phase = "recorded" => req'[x].rows = req[x].rows)
    BY <1>2, <1>3, RequestStep
  <1>6. TypeOK'
    BY <1>4, <1>5, CarryType DEF TypeOK, boundVars
  <1>7. QED
    BY <1>4, <1>5, <1>6 DEF Quiet

LEMMA LedgerStep ==
    ASSUME TypeOK, NEW r \in Req,
           LedgerAnswers(r) \/ LedgerAnswerLost(r) \/ LedgerAnswersNobody(r)
    PROVE  TypeOK' /\ Quiet
  <1>1. \E heard \in BOOLEAN :
           handlePermits(r, heard) /\ req[r].phase \in {"asking", "orphan"}
    BY DEF LedgerAnswers, LedgerAnswerLost, LedgerAnswersNobody
  <1>2. /\ ledger' \in [day : 0 .. DayOf(LastWindow), used : Nat]
        /\ Quiet
        /\ req' \in [Req -> Request]
        /\ UNCHANGED <<now, groups, budget, stored, table, historyVars>>
    BY <1>1, LedgerType
  <1>3. evictions' \in 0 .. MaxEvictions /\ faults' \in 0 .. MaxFaults
    BY FaultType
       DEF LedgerAnswers, LedgerAnswerLost, LedgerAnswersNobody, boundVars, TypeOK
  <1>4. now' \in Window
    BY <1>2 DEF TypeOK
  <1>5. QED
    BY <1>2, <1>3, <1>4, CarryType DEF coordinatorVars

LEMMA RecordFailsStep ==
    ASSUME TypeOK, NEW r \in Req, RecordFails(r)
    PROVE  TypeOK' /\ Quiet
  <1>1. PICK q : q = Finished(req[r])
    OBVIOUS
  <1>2. req' = [req EXCEPT ![r] = q]
    BY <1>1 DEF RecordFails
  <1>3. q \in Request /\ q.phase = "done" /\ req[r].phase = "sent"
    BY <1>1, RequestType, AnsweredType DEF RecordFails, Finished
  <1>4. UNCHANGED <<now, coordinatorVars, ledger, table, historyVars>>
    BY DEF RecordFails
  <1>5. /\ req' \in [Req -> Request]
        /\ \A x \in Req : /\ (req'[x].phase = "recorded") <=> (req[x].phase = "recorded")
                          /\ (req[x].phase = "recorded" => req'[x].rows = req[x].rows)
    BY <1>2, <1>3, RequestStep
  <1>6. evictions' \in 0 .. MaxEvictions /\ faults' \in 0 .. MaxFaults
    BY FaultType DEF RecordFails, TypeOK
  <1>7. TypeOK'
    BY <1>4, <1>5, <1>6, CarryType DEF TypeOK
  <1>8. QED
    BY <1>4, <1>5, <1>7 DEF Quiet

LEMMA NextWindowStep ==
    ASSUME TypeOK, NextWindow
    PROVE  TypeOK' /\ Quiet
  <1>1. now' \in Window
    BY DEF NextWindow, TypeOK, Window
  <1>2. UNCHANGED <<coordinatorVars, ledger, req, table, historyVars, boundVars>>
    BY DEF NextWindow
  <1>3. TypeOK'
    BY <1>1, <1>2, RequestType, CarryType DEF TypeOK, boundVars
  <1>4. QED
    BY <1>2, <1>3 DEF Quiet

LEMMA EvictStep ==
    ASSUME TypeOK, Evict
    PROVE  TypeOK' /\ Quiet
  <1>1. /\ evictions' \in 0 .. MaxEvictions
        /\ groups' = stored.groups /\ budget' = hydrateBudget(stored.budget)
        /\ UNCHANGED <<now, stored, ledger, table, historyVars, faults>>
    BY DEF Evict, TypeOK
  <1>2. groups' \in [Key -> DenialGroup] /\ budget' \in Budget
    BY <1>1, HydrateLemma DEF TypeOK
  <1> DEFINE after(x) == IF req[x].phase = "asking" THEN [req[x] EXCEPT !.phase = "orphan"]
                         ELSE IF req[x].phase = "replied" THEN Finished(req[x])
                         ELSE req[x]
  <1>3. req' = [x \in Req |-> after(x)]
    BY DEF Evict
  <1>4. ASSUME NEW x \in Req
        PROVE  /\ after(x) \in Request
               /\ (after(x).phase = "recorded") <=> (req[x].phase = "recorded")
               /\ (req[x].phase = "recorded" => after(x).rows = req[x].rows)
    <2>1. req[x] \in Request
      BY RequestType
    <2>2. CASE req[x].phase = "asking"
      <3>1. after(x) = [req[x] EXCEPT !.phase = "orphan"]
        BY <2>2
      <3> HIDE DEF after
      <3>2. QED
        BY <2>1, <2>2, <3>1 DEF Request, Phase
    <2>3. CASE req[x].phase = "replied"
      <3>1. after(x) = Finished(req[x])
        BY <2>3
      <3> HIDE DEF after
      <3>2. QED
        BY <2>1, <2>3, <3>1, AnsweredType DEF Finished
    <2>4. CASE req[x].phase \notin {"asking", "replied"}
      BY <2>1, <2>4
    <2>5. QED
      BY <2>2, <2>3, <2>4
  <1> HIDE DEF after
  <1>5. /\ req' \in [Req -> Request]
        /\ \A x \in Req : /\ (req'[x].phase = "recorded") <=> (req[x].phase = "recorded")
                          /\ (req[x].phase = "recorded" => req'[x].rows = req[x].rows)
    BY <1>3, <1>4
  <1>6. TypeOK'
    BY <1>1, <1>2, <1>5 DEF TypeOK, Request, historyVars
  <1>7. QED
    BY <1>1, <1>5, <1>6 DEF Quiet

LEMMA WriteStep ==
    ASSUME TypeOK, NEW r \in Req, write(r)
    PROVE  TypeOK'
  <1>1. /\ req' = [req EXCEPT ![r] = Finished(req[r])]
        /\ table' = table \cup req[r].rows
        /\ UNCHANGED <<now, coordinatorVars, ledger, historyVars, boundVars>>
    BY RequestType DEF write
  <1>2. req' \in [Req -> Request]
    BY <1>1, RequestType, AnsweredType DEF Finished
  <1>3. table' \subseteq Summary
    BY <1>1 DEF TypeOK
  <1>4. QED
    BY <1>1, <1>2, <1>3
       DEF TypeOK, Request, coordinatorVars, historyVars, boundVars

LEMMA LostStep ==
    ASSUME TypeOK, NEW r \in Req, SummariesLost(r)
    PROVE  TypeOK'
  <1>1. /\ req' = [req EXCEPT ![r] = Finished(req[r])]
        /\ announced' = announced \cup {<<row.key, row.window>> : row \in req[r].rows}
        /\ UNCHANGED <<now, coordinatorVars, ledger, table, counted, emitted, spent,
                       credited, newest, ordered>>
    BY RequestType DEF SummariesLost
  <1>2. req' \in [Req -> Request]
    BY <1>1, RequestType, AnsweredType DEF Finished
  <1>3. announced' \subseteq Key \X Window
    <2>1. req[r].rows \subseteq Summary
      BY DEF TypeOK
    <2>2. \A row \in Summary : row.key \in Key /\ row.window \in Window
      BY DEF Summary
    <2>3. QED
      BY <1>1, <2>1, <2>2 DEF TypeOK
  <1>4. evictions' \in 0 .. MaxEvictions /\ faults' \in 0 .. MaxFaults
    BY FaultType DEF SummariesLost, TypeOK, boundVars
  <1>5. QED
    BY <1>1, <1>2, <1>3, <1>4 DEF TypeOK, Request, coordinatorVars

LEMMA TurnStep ==
    ASSUME TypeOK, NEW r \in Req, DenialWithoutBuying(r) \/ DenialResumes(r)
    PROVE  TypeOK' /\ \E b \in Budget, n \in Nat : TurnOn(r, b, n)
  <1> DEFINE d == DayOf(req[r].window)
  <1>1. d \in Day /\ req[r] \in Request /\ budget \in Budget
    BY DayLemma, RequestType DEF TypeOK
  <1>2. credited \in [Day -> Nat]
    BY DEF TypeOK
  <1>3. \E b \in Budget, n \in Nat : TurnOn(r, b, n)
    <2>1. CASE DenialWithoutBuying(r)
      <3>1. /\ RecordAndSweep(r, budget)
            /\ UNCHANGED <<table, credited>> /\ req[r].phase = "sent"
        BY <2>1 DEF DenialWithoutBuying
      <3>2. credited' = [credited EXCEPT ![d] = @ + 0]
        <4>1. credited[d] + 0 = credited[d]
          BY <1>1, <1>2
        <4>2. QED
          BY <1>1, <1>2, <3>1, <4>1
      <3>3. PermitsOn(budget, d) = PermitsOn(budget, d) + 0
        BY <1>1, AffordableLemma
      <3>4. TurnOn(r, budget, 0)
        BY <3>1, <3>2, <3>3 DEF TurnOn
      <3>5. QED
        BY <1>1, <3>4
    <2>2. CASE DenialResumes(r)
      <3> DEFINE n == req[r].granted
                 b == creditPermits(budget, n, d, req[r].answered)
      <3>1. /\ RecordAndSweep(r, b)
            /\ UNCHANGED table /\ req[r].phase = "replied"
            /\ credited' = [credited EXCEPT ![d] = @ + n]
        BY <2>2 DEF DenialResumes
      <3>2. n \in Nat /\ req[r].answered \in BOOLEAN
        BY <1>1 DEF Request
      <3>3. /\ b \in Budget /\ b.day = budget.day /\ b.used = budget.used
            /\ b.permitsDay = d /\ PermitsOn(b, d) = PermitsOn(budget, d) + n
        BY <1>1, <3>2, CreditLemma
      <3> HIDE DEF b, n
      <3>4. TurnOn(r, b, n)
        BY <3>1, <3>3 DEF TurnOn
      <3>5. QED
        BY <3>2, <3>3, <3>4 DEF n
    <2>3. QED
      BY <2>1, <2>2
  <1>4. PICK b \in Budget, n \in Nat : TurnOn(r, b, n)
    BY <1>3
  <1>5. credited' \in [Day -> Nat]
    <2>1. credited' = [credited EXCEPT ![d] = @ + n]
      BY <1>4 DEF TurnOn
    <2>2. QED
      BY <1>1, <1>2, <2>1
  <1>6. PICK swept \in SUBSET Stale(req[r].key, req[r].window) :
        \E final \in SUBSET (swept \cap Pending(req[r].key, req[r].window)) :
            Turn(r, b, swept, final)
    BY <1>4 DEF TurnOn, RecordAndSweep
  <1>7. /\ groups' \in [Key -> DenialGroup]
        /\ budget' \in Budget
        /\ stored' \in [groups : [Key -> DenialGroup], budget : Budget]
        /\ req' \in [Req -> Request]
        /\ counted' \in [Key -> [Window -> Nat]]
        /\ emitted' \in [Key -> [Window -> Nat]]
        /\ spent' \in [Day -> Nat]
        /\ announced' \subseteq Key \X Window
        /\ newest' \in 0 .. LastWindow
        /\ ordered' \in BOOLEAN
    BY <1>6, TurnType
  <1>8. UNCHANGED <<now, ledger, table, boundVars>>
    BY DEF DenialWithoutBuying, DenialResumes
  <1>9. TypeOK'
    BY <1>5, <1>7, <1>8 DEF TypeOK, Request, boundVars
  <1>10. QED
    BY <1>3, <1>9

LEMMA StepLemma ==
    ASSUME TypeOK, [Next]_vars
    PROVE  /\ TypeOK'
           /\ \/ Quiet
              \/ \E r \in Req, b \in Budget, n \in Nat : TurnOn(r, b, n)
              \/ \E r \in Req : write(r) \/ SummariesLost(r)
  <1>1. CASE \E r \in Req : \/ PostDenial(r) \/ DenialMustBuy(r) \/ LedgerAnswers(r)
                            \/ LedgerAnswerLost(r) \/ LedgerAnswersNobody(r)
                            \/ RecordFails(r)
    BY <1>1, PostDenialStep, DenialMustBuyStep, LedgerStep, RecordFailsStep
  <1>2. CASE \E r \in Req : DenialWithoutBuying(r) \/ DenialResumes(r)
    BY <1>2, TurnStep
  <1>3. CASE \E r \in Req : write(r) \/ SummariesLost(r)
    BY <1>3, WriteStep, LostStep
  <1>4. CASE Evict \/ NextWindow
    BY <1>4, EvictStep, NextWindowStep
  <1>5. CASE UNCHANGED vars
    <2>1. TypeOK'
      BY <1>5 DEF TypeOK, vars, historyVars, boundVars
    <2>2. Quiet
      BY <1>5 DEF Quiet, vars, coordinatorVars, historyVars
    <2>3. QED
      BY <2>1, <2>2
  <1>6. QED
    BY <1>1, <1>2, <1>3, <1>4, <1>5 DEF Next

LEMMA TypeInit == Init => TypeOK
  <1> SUFFICES ASSUME Init PROVE TypeOK
    OBVIOUS
  <1>1. 1 \in Window /\ 0 \in 0 .. LastWindow /\ 0 \in 0 .. DayOf(LastWindow)
    BY DayLemma DEF Window, Day
  <1>2. groups \in [Key -> DenialGroup] /\ budget \in Budget
    BY GroupTypes, NewBudgetType DEF Init
  <1>3. stored \in [groups : [Key -> DenialGroup], budget : Budget]
    BY <1>2, NewBudgetType DEF Init
  <1>4. req \in [Req -> Request]
    <2>1. /\ {"unborn"} \subseteq Phase /\ {1} \subseteq Window /\ {0} \subseteq Nat
          /\ {FALSE} \subseteq BOOLEAN /\ {{}} \subseteq SUBSET Summary
      BY <1>1 DEF Phase
    <2>2. [phase : {"unborn"}, key : Key, window : {1}, granted : {0},
           answered : {FALSE}, rows : {{}}] \subseteq Request
      BY <2>1, RequestSubset DEF Request
    <2>3. QED
      BY <2>2 DEF Init
  <1>5. QED
    BY <1>1, <1>2, <1>3, <1>4 DEF Init, TypeOK, Request

\* Every group, budget, request and row stays what its name says, in every
\* step of coordinator, ledger and Worker (recordDenial, sweepClosedWindows,
\* handleDenial, handlePermits, hydrate).
THEOREM TypeCorrect == Spec => []TypeOK
  <1>1. TypeOK /\ [Next]_vars => TypeOK'
    BY StepLemma
  <1>2. QED
    BY <1>1, TypeInit, PTL DEF Spec

-----------------------------------------------------------------------------
(* Evidence is never absent.                                                *)

\* An uncounted window has no group, in memory or in the tables, so its first
\* attempt opens one; that attempt is on the ladder and is never conserved.
GroupsCounted ==
    \A k \in Key, w \in Window :
        counted[k][w] = 0 => groups[k].window # w /\ stored.groups[k].window # w

LEMMA WindowAfter ==
    ASSUME NEW old \in DenialGroup, NEW w \in Window, NEW b
    PROVE  GroupAfter(old, w, b).window = w
  <1>1. Attempt(old, w) \in DenialGroup /\ Attempt(old, w).window = w
    BY GroupTypes DEF Attempt, DenialGroup
  <1>2. Emitted(Attempt(old, w)).window = w
    BY <1>1 DEF Emitted, DenialGroup
  <1>3. QED
    BY <1>1, <1>2 DEF GroupAfter

LEMMA CountedStep ==
    ASSUME TypeOK, NEW r \in Req, NEW b \in Budget, NEW n \in Nat, TurnOn(r, b, n)
    PROVE  /\ \A x \in Key, v \in Window :
                 counted'[x][v] = counted[x][v]
                     + Count(x = req[r].key /\ v = req[r].window)
           /\ \A x \in Key, v \in Window :
                 groups'[x].window = v =>
                    groups[x].window = v \/ (x = req[r].key /\ v = req[r].window)
           /\ \A x \in Key, v \in Window :
                 stored'.groups[x].window = v =>
                    stored.groups[x].window = v \/ groups'[x].window = v
  <1> DEFINE k == req[r].key
             w == req[r].window
  <1>1. k \in Key /\ w \in Window /\ counted \in [Key -> [Window -> Nat]]
    BY DEF TypeOK
  <1>2. PICK swept \in SUBSET Stale(k, w) :
           \E final \in SUBSET (swept \cap Pending(k, w)) : Turn(r, b, swept, final)
    BY DEF TurnOn, RecordAndSweep
  <1>3. /\ counted' = [counted EXCEPT ![k][w] = @ + 1]
        /\ groups' = [x \in Key |-> IF x = k THEN GroupAfter(groups[k], w, b)
                                    ELSE IF x \in swept THEN NoGroup
                                    ELSE groups[x]]
        /\ stored' = [groups |-> [x \in Key |->
                          IF x \in swept \/ (x = k /\ Due(groups[k], w, b))
                          THEN groups'[x] ELSE stored.groups[x]],
                      budget |-> budget']
    BY <1>2 DEF Turn
  <1>4. GroupAfter(groups[k], w, b).window = w
    BY <1>1, WindowAfter DEF TypeOK
  <1>5. ASSUME NEW x \in Key, NEW v \in Window
        PROVE  counted'[x][v] = counted[x][v] + Count(x = k /\ v = w)
    BY <1>1, <1>3 DEF Count
  <1>6. NoGroup.window \notin Window
    BY DEF NoGroup, Window
  <1>7. ASSUME NEW x \in Key, NEW v \in Window, groups'[x].window = v
        PROVE  groups[x].window = v \/ (x = k /\ v = w)
    BY <1>3, <1>4, <1>6, <1>7
  <1>8. ASSUME NEW x \in Key, NEW v \in Window, stored'.groups[x].window = v
        PROVE  stored.groups[x].window = v \/ groups'[x].window = v
    BY <1>3, <1>8
  <1>9. QED
    BY <1>5, <1>7, <1>8

LEMMA GroupsCountedStep ==
    ASSUME TypeOK, TypeOK', GroupsCounted, [Next]_vars
    PROVE  GroupsCounted'
  <1>1. CASE Quiet
    <2>1. counted' = counted
      BY <1>1 DEF Quiet, historyVars
    <2>2. \/ groups' = groups /\ stored' = stored
          \/ groups' = stored.groups /\ stored' = stored
      BY <1>1 DEF Quiet, coordinatorVars
    <2>3. QED
      BY <2>1, <2>2 DEF GroupsCounted
  <1>2. CASE \E r \in Req, b \in Budget, n \in Nat : TurnOn(r, b, n)
    <2>1. PICK r \in Req, b \in Budget, n \in Nat : TurnOn(r, b, n)
      BY <1>2
    <2> DEFINE k == req[r].key
               w == req[r].window
    <2>2. ASSUME NEW x \in Key, NEW v \in Window, counted'[x][v] = 0
          PROVE  groups'[x].window # v /\ stored'.groups[x].window # v
      <3>1. counted[x][v] \in Nat
        BY DEF TypeOK
      <3>2. counted'[x][v] = counted[x][v] + Count(x = k /\ v = w)
        BY <2>1, CountedStep
      <3>3. counted[x][v] = 0 /\ ~(x = k /\ v = w)
        BY <2>2, <3>1, <3>2 DEF Count
      <3>4. groups[x].window # v /\ stored.groups[x].window # v
        BY <3>3 DEF GroupsCounted
      <3>5. groups'[x].window # v
        BY <2>1, <3>3, <3>4, CountedStep
      <3>6. stored'.groups[x].window # v
        BY <2>1, <3>4, <3>5, CountedStep
      <3>7. QED
        BY <3>5, <3>6
    <2>3. QED
      BY <2>2 DEF GroupsCounted
  <1>3. CASE \E r \in Req : write(r) \/ SummariesLost(r)
    <2>1. counted' = counted /\ groups' = groups /\ stored' = stored
      BY <1>3 DEF write, SummariesLost, coordinatorVars, historyVars
    <2>2. QED
      BY <2>1 DEF GroupsCounted
  <1>4. QED
    BY <1>1, <1>2, <1>3, StepLemma

LEMMA Carried ==
    \A row : row \in BeingInserted <=>
                \E r \in Req : req[r].phase = "recorded" /\ row \in req[r].rows
  BY DEF BeingInserted

\* The rows of the answer of a turn, and what it announces.
LEMMA AnswerLemma ==
    ASSUME TypeOK, NEW r \in Req, NEW b \in Budget,
           NEW swept \in SUBSET Stale(req[r].key, req[r].window),
           NEW final \in SUBSET (swept \cap Pending(req[r].key, req[r].window)),
           req[r].phase # "recorded", Turn(r, b, swept, final)
    PROVE  LET rows == RowsOf(req[r].key, req[r].window, b, final)
           IN  /\ rows \subseteq Summary
               /\ \A q \in Req : IF q = r
                                THEN /\ req'[q].rows = rows
                                     /\ req'[q].phase = IF rows = {} THEN "done" ELSE "recorded"
                                ELSE req'[q] = req[q]
               /\ BeingInserted' = BeingInserted \cup rows
  <1> DEFINE k == req[r].key
             w == req[r].window
             rows == RowsOf(k, w, b, final)
  <1>1. k \in Key /\ w \in Window /\ groups \in [Key -> DenialGroup] /\ req[r] \in Request
    BY RequestType DEF TypeOK
  <1>2. rows \in SUBSET Summary
    <2>1. final \in SUBSET Stale(k, w)
      BY DEF Stale
    <2>2. QED
      BY <1>1, <2>1, AnswerTypes
  <1>3. req' = [req EXCEPT ![r] = Answered(req[r], rows)]
    BY DEF Turn
  <1> HIDE DEF rows
  <1>4. /\ Answered(req[r], rows).rows = rows
        /\ Answered(req[r], rows).phase = IF rows = {} THEN "done" ELSE "recorded"
    BY <1>1, <1>2, AnsweredType
  <1>5. \A q \in Req : IF q = r
                       THEN /\ req'[q].rows = rows
                            /\ req'[q].phase = IF rows = {} THEN "done" ELSE "recorded"
                       ELSE req'[q] = req[q]
    BY <1>3, <1>4, RequestType
  <1>6. \A row : row \in BeingInserted' <=>
                    \E q \in Req : req'[q].phase = "recorded" /\ row \in req'[q].rows
    BY DEF BeingInserted
  <1>7. BeingInserted' = BeingInserted \cup rows
    <2>1. ASSUME NEW row \in BeingInserted' PROVE row \in BeingInserted \cup rows
      BY <1>5, <1>6, Carried
    <2>2. ASSUME NEW row \in BeingInserted PROVE row \in BeingInserted'
      BY <1>5, <1>6, Carried
    <2>3. ASSUME NEW row \in rows PROVE row \in BeingInserted'
      BY <1>5, <1>6
    <2>4. QED
      BY <2>1, <2>2, <2>3
  <1>8. QED
    BY <1>2, <1>5, <1>7 DEF rows

LEMMA QuietCarries == Quiet => BeingInserted' = BeingInserted /\ table' = table
  <1> SUFFICES ASSUME Quiet PROVE BeingInserted' = BeingInserted /\ table' = table
    OBVIOUS
  <1>1. \A q \in Req : /\ (req'[q].phase = "recorded") <=> (req[q].phase = "recorded")
                      /\ (req[q].phase = "recorded" => req'[q].rows = req[q].rows)
    BY DEF Quiet
  <1>2. \A row : row \in BeingInserted' <=>
                    \E q \in Req : req'[q].phase = "recorded" /\ row \in req'[q].rows
    BY DEF BeingInserted
  <1>3. ASSUME NEW row \in BeingInserted PROVE row \in BeingInserted'
    <2>1. PICK q \in Req : req[q].phase = "recorded" /\ row \in req[q].rows
      BY Carried
    <2>2. req'[q].phase = "recorded" /\ req'[q].rows = req[q].rows
      BY <1>1, <2>1
    <2>3. QED
      BY <1>2, <2>1, <2>2
  <1>4. BeingInserted' = BeingInserted
    <2>1. ASSUME NEW row \in BeingInserted' PROVE row \in BeingInserted
      <3>1. PICK q \in Req : req'[q].phase = "recorded" /\ row \in req'[q].rows
        BY <1>2
      <3>2. req[q].phase = "recorded"
        BY <1>1, <3>1
      <3>3. req'[q].rows = req[q].rows
        BY <1>1, <3>2
      <3>4. QED
        BY <3>1, <3>2, <3>3, Carried
    <2>2. QED
      BY <1>3, <2>1
  <1>5. QED
    BY <1>4 DEF Quiet

\* The rows of r leave their Worker; nothing else is moved.
LEMMA LeaveLemma ==
    ASSUME TypeOK, NEW r \in Req, req[r].phase = "recorded",
           req' = [req EXCEPT ![r] = Finished(req[r])]
    PROVE  /\ req[r].rows \subseteq BeingInserted
           /\ BeingInserted \subseteq BeingInserted' \cup req[r].rows
           /\ BeingInserted' \subseteq BeingInserted
           /\ \A q \in Req : req'[q].phase = "recorded" => q # r /\ req'[q] = req[q]
  <1>1. \A q \in Req : IF q = r THEN req'[q].phase = "done" ELSE req'[q] = req[q]
    BY RequestType, AnsweredType DEF Finished
  <1>2. \A row : row \in BeingInserted' <=>
                    \E q \in Req : req'[q].phase = "recorded" /\ row \in req'[q].rows
    BY DEF BeingInserted
  <1>3. req[r].rows \subseteq BeingInserted
    BY Carried
  <1>4. ASSUME NEW row \in BeingInserted PROVE row \in BeingInserted' \cup req[r].rows
    BY <1>1, <1>2, Carried
  <1>5. ASSUME NEW row \in BeingInserted' PROVE row \in BeingInserted
    BY <1>1, <1>2, Carried
  <1>6. QED
    BY <1>1, <1>3, <1>4, <1>5

LEMMA EvidenceStep ==
    ASSUME TypeOK, TypeOK', GroupsCounted, EvidenceNeverAbsent, [Next]_vars
    PROVE  EvidenceNeverAbsent'
  <1> SUFFICES ASSUME NEW x \in Key, NEW v \in Window, counted'[x][v] > 0
               PROVE  \/ \E row \in table' \cup BeingInserted' : row.key = x /\ row.window = v
                      \/ <<x, v>> \in announced'
    BY DEF EvidenceNeverAbsent, Reports
  <1>1. counted[x][v] > 0 =>
           \/ \E row \in table \cup BeingInserted : row.key = x /\ row.window = v
           \/ <<x, v>> \in announced
    BY DEF EvidenceNeverAbsent, Reports
  <1>2. counted[x][v] \in Nat
    BY DEF TypeOK
  <1>3. CASE Quiet
    BY <1>1, <1>3, QuietCarries DEF Quiet, historyVars
  <1>4. CASE \E r \in Req, b \in Budget, n \in Nat : TurnOn(r, b, n)
    <2>1. PICK r \in Req, b \in Budget, n \in Nat : TurnOn(r, b, n)
      BY <1>4
    <2> DEFINE k == req[r].key
               w == req[r].window
    <2>2. PICK swept \in SUBSET Stale(k, w) :
             \E final \in SUBSET (swept \cap Pending(k, w)) : Turn(r, b, swept, final)
      BY <2>1 DEF TurnOn, RecordAndSweep
    <2>3. PICK final \in SUBSET (swept \cap Pending(k, w)) : Turn(r, b, swept, final)
      BY <2>2
    <2> DEFINE toReport == swept \cap Pending(k, w)
               rows == RowsOf(k, w, b, final)
    <2>4. req[r].phase # "recorded" /\ table' = table
      BY <2>1 DEF TurnOn
    <2>5. BeingInserted' = BeingInserted \cup rows
      BY <2>3, <2>4, AnswerLemma
    <2>6. announced' = announced \cup RefusedOf(k, w, b, toReport \ final)
      BY <2>3 DEF Turn
    <2>7. CASE counted[x][v] > 0
      BY <1>1, <2>4, <2>5, <2>6, <2>7
    <2>8. CASE counted[x][v] = 0
      <3>1. counted'[x][v] = counted[x][v] + Count(x = k /\ v = w)
        BY <2>1, CountedStep
      <3>2. x = k /\ v = w
        BY <2>8, <3>1 DEF Count
      <3>3. groups[k].window # w
        BY <2>8, <3>2 DEF GroupsCounted
      <3>4. Due(groups[k], w, b) /\ Attempt(groups[k], w).window = w
        BY <3>3, FirstIsDue
      <3>5. CASE Paid(groups[k], w, b)
        <4>1. toSummary(k, Attempt(groups[k], w)) \in rows
          BY <3>5 DEF RowsOf, Where
        <4>2. /\ toSummary(k, Attempt(groups[k], w)).key = x
              /\ toSummary(k, Attempt(groups[k], w)).window = v
          BY <3>2, <3>4 DEF toSummary
        <4>3. QED
          BY <2>5, <4>1, <4>2
      <3>6. CASE ~Paid(groups[k], w, b)
        <4>1. <<k, w>> \in RefusedOf(k, w, b, toReport \ final)
          BY <3>4, <3>6 DEF RefusedOf, Where
        <4>2. QED
          BY <2>6, <3>2, <4>1
      <3>7. QED
        BY <3>5, <3>6
    <2>9. QED
      BY <1>2, <2>7, <2>8
  <1>5. ASSUME NEW r \in Req, write(r)
        PROVE  \/ \E row \in table' \cup BeingInserted' : row.key = x /\ row.window = v
               \/ <<x, v>> \in announced'
    <2>1. /\ counted' = counted /\ announced' = announced
          /\ table' = table \cup req[r].rows
          /\ req' = [req EXCEPT ![r] = Finished(req[r])] /\ req[r].phase = "recorded"
      BY <1>5, RequestType DEF write, historyVars
    <2>2. BeingInserted \subseteq BeingInserted' \cup req[r].rows
      BY <2>1, LeaveLemma
    <2>3. QED
      BY <1>1, <2>1, <2>2
  <1>6. ASSUME NEW r \in Req, SummariesLost(r)
        PROVE  \/ \E row \in table' \cup BeingInserted' : row.key = x /\ row.window = v
               \/ <<x, v>> \in announced'
    <2>1. /\ counted' = counted /\ table' = table
          /\ announced' = announced \cup {<<row.key, row.window>> : row \in req[r].rows}
          /\ req' = [req EXCEPT ![r] = Finished(req[r])] /\ req[r].phase = "recorded"
      BY <1>6, RequestType DEF SummariesLost
    <2>2. BeingInserted \subseteq BeingInserted' \cup req[r].rows
      BY <2>1, LeaveLemma
    <2>3. QED
      BY <1>1, <2>1, <2>2
  <1>7. QED
    BY <1>3, <1>4, <1>5, <1>6, StepLemma

\* For any number of keys, windows, requests, evictions and faults, and in any
\* order of the windows: a window in which a denial was counted has a row, or
\* one is being inserted, or the loss was announced (recordDenial,
\* sweepClosedWindows, persistGroups).
THEOREM EvidenceIsNeverAbsent == Spec => []EvidenceNeverAbsent
  <1>1. Init => TypeOK /\ GroupsCounted /\ EvidenceNeverAbsent
    <2> SUFFICES ASSUME Init PROVE GroupsCounted /\ EvidenceNeverAbsent
      BY TypeInit
    <2>1. \A k \in Key, w \in Window : counted[k][w] = 0
      BY DEF Init
    <2>2. \A k \in Key : groups[k].window = 0 /\ stored.groups[k].window = 0
      BY DEF Init, NoGroup
    <2>3. 0 \notin Window
      BY DEF Window
    <2>4. QED
      BY <2>1, <2>2, <2>3 DEF GroupsCounted, EvidenceNeverAbsent
  <1>2. /\ TypeOK /\ GroupsCounted /\ EvidenceNeverAbsent /\ [Next]_vars
        => TypeOK' /\ GroupsCounted' /\ EvidenceNeverAbsent'
    BY StepLemma, GroupsCountedStep, EvidenceStep
  <1>3. QED
    BY <1>1, <1>2, PTL DEF Spec

-----------------------------------------------------------------------------
(* The ceiling and the permits, while windows are handled in order.         *)

\* The day of the newest window.
Today == IF newest = 0 THEN 0 ELSE DayOf(newest)

\* Tables and memory date everything to the day of the newest window, and what
\* was charged to it, or to a later day, is what the budget says was used.
InOrder ==
    /\ \A k \in Key : /\ groups[k].window <= newest
                      /\ stored.groups[k].window = groups[k].window
    /\ budget.day = Today /\ budget.permitsDay = Today
    /\ stored.budget.day = Today
    /\ stored.budget.used = budget.used /\ stored.budget.permits = budget.permits
    /\ \A d \in Day : d >= Today => /\ spent[d] <= UsedOn(budget, d)
                                   /\ UsedOn(budget, d) <= OrgCeiling

\* What a turn does to the group it counts in, and to the budget.
LEMMA TurnBudget ==
    ASSUME TypeOK, TypeOK', NEW r \in Req, NEW b \in Budget, NEW n \in Nat,
           TurnOn(r, b, n)
    PROVE  LET k == req[r].key
               w == req[r].window
               d == DayOf(w)
           IN  /\ newest' = Larger(newest, w)
               /\ ordered' = (ordered /\ newest <= w)
               /\ stored'.budget = budget'
               /\ \A x \in Key :
                     /\ groups'[x].window \in {0, groups[x].window, w}
                     /\ x = k => groups'[x].window = w
                     /\ \/ stored'.groups[x] = groups'[x]
                        \/ /\ stored'.groups[x] = stored.groups[x]
                           /\ groups'[x].window = groups[x].window
               /\ (groups[k].window # w \/ DatedOn(b, d) => DatedOn(budget', d))
               /\ \E bill \in Nat :
                     /\ spent' = [spent EXCEPT ![d] = spent[d] + bill]
                     /\ UsedOn(budget, d) + bill <= UsedOn(budget', d)
                     /\ PermitsOn(budget', d) + bill <= PermitsOn(budget, d) + n
                     /\ UsedOn(budget, d) <= OrgCeiling => UsedOn(budget', d) <= OrgCeiling
  <1> DEFINE k == req[r].key
             w == req[r].window
             d == DayOf(w)
  <1>1. /\ k \in Key /\ w \in Window /\ groups \in [Key -> DenialGroup]
        /\ groups[k] \in DenialGroup /\ spent \in [Day -> Nat]
    BY DEF TypeOK
  <1>2. PICK swept \in SUBSET Stale(k, w) :
           \E final \in SUBSET (swept \cap Pending(k, w)) : Turn(r, b, swept, final)
    BY DEF TurnOn, RecordAndSweep
  <1>3. PICK final \in SUBSET (swept \cap Pending(k, w)) : Turn(r, b, swept, final)
    BY <1>2
  <1> DEFINE toReport == swept \cap Pending(k, w)
             recorded == AfterRecord(groups[k], w, b)
             rows == RowsOf(k, w, b, final)
             c == spendPermits(recorded, d, Cardinality(toReport))
             bill == Cost * Cardinality(rows)
  <1>4. /\ newest' = Larger(newest, w) /\ ordered' = (ordered /\ newest <= w)
        /\ budget' = c
        /\ groups' = [x \in Key |-> IF x = k THEN GroupAfter(groups[k], w, b)
                                    ELSE IF x \in swept THEN NoGroup
                                    ELSE groups[x]]
        /\ stored' = [groups |-> [x \in Key |->
                          IF x \in swept \/ (x = k /\ Due(groups[k], w, b))
                          THEN groups'[x] ELSE stored.groups[x]],
                      budget |-> budget']
        /\ spent' = [spent EXCEPT ![d] = @ + bill]
        /\ Cardinality(final) = Smaller(Cardinality(toReport), affordable(recorded, d))
    BY <1>3 DEF Turn
  <1>5. d \in Day /\ budget \in Budget
    BY <1>1, DayLemma DEF TypeOK
  <1>6. toReport \in SUBSET Key /\ final \in SUBSET toReport
    BY DEF Stale
  <1>7. /\ c \in Budget /\ bill \in Nat
        /\ UsedOn(b, d) + bill <= UsedOn(c, d)
        /\ PermitsOn(c, d) + bill <= PermitsOn(b, d)
        /\ UsedOn(b, d) <= OrgCeiling => UsedOn(c, d) <= OrgCeiling
        /\ (groups[k].window # w \/ DatedOn(b, d) => DatedOn(c, d))
    <2>1. Cardinality(final) = Smaller(Cardinality(toReport), affordable(recorded, d))
      BY <1>4
    <2>2. c \in Budget /\ bill \in Nat
      BY <1>1, <1>6, <2>1, BillLemma
    <2>3. UsedOn(b, d) + bill <= UsedOn(c, d)
      BY <1>1, <1>6, <2>1, BillLemma
    <2>4. PermitsOn(c, d) + bill <= PermitsOn(b, d)
      BY <1>1, <1>6, <2>1, BillLemma
    <2>5. UsedOn(b, d) <= OrgCeiling => UsedOn(c, d) <= OrgCeiling
      BY <1>1, <1>6, <2>1, BillLemma
    <2>6. groups[k].window # w \/ DatedOn(b, d) => DatedOn(c, d)
      BY <1>1, <1>6, <2>1, BillLemma
    <2>7. QED
      BY <2>2, <2>3, <2>4, <2>5, <2>6
  <1> HIDE DEF c, bill, recorded, toReport, rows
  <1>8. UsedOn(b, d) = UsedOn(budget, d) /\ PermitsOn(b, d) = PermitsOn(budget, d) + n
    BY DEF TurnOn, UsedOn
  <1>9. groups[k].window # w => Due(groups[k], w, b)
    BY FirstIsDue
  <1>10. GroupAfter(groups[k], w, b).window = w
    BY <1>1, WindowAfter
  <1>11. ASSUME NEW x \in Key
         PROVE  /\ groups'[x].window \in {0, groups[x].window, w}
                /\ x = k => groups'[x].window = w
                /\ \/ stored'.groups[x] = groups'[x]
                   \/ /\ stored'.groups[x] = stored.groups[x]
                      /\ groups'[x].window = groups[x].window
    <2>1. CASE x = k
      BY <2>1, <1>4, <1>9, <1>10
    <2>2. CASE x # k
      BY <2>2, <1>4 DEF NoGroup
    <2>3. QED
      BY <2>1, <2>2
  <1>12. spent' = [spent EXCEPT ![d] = spent[d] + bill]
    BY <1>1, <1>4, <1>5
  <1>13. stored'.budget = budget'
    BY <1>4
  <1>14. \E m \in Nat :
            /\ spent' = [spent EXCEPT ![d] = spent[d] + m]
            /\ UsedOn(budget, d) + m <= UsedOn(budget', d)
            /\ PermitsOn(budget', d) + m <= PermitsOn(budget, d) + n
            /\ UsedOn(budget, d) <= OrgCeiling => UsedOn(budget', d) <= OrgCeiling
    BY <1>4, <1>7, <1>8, <1>12
  <1>15. groups[k].window # w \/ DatedOn(b, d) => DatedOn(budget', d)
    BY <1>4, <1>7
  <1>16. QED
    BY <1>4, <1>11, <1>13, <1>14, <1>15

LEMMA InOrderTurn ==
    ASSUME TypeOK, TypeOK', NEW r \in Req, NEW b \in Budget, NEW n \in Nat,
           TurnOn(r, b, n), ordered', ordered => InOrder,
           EvidenceCeilingHeld, PermitsConserved
    PROVE  InOrder' /\ EvidenceCeilingHeld' /\ PermitsConserved'
  <1> DEFINE k == req[r].key
             w == req[r].window
             d == DayOf(w)
  <1>1. /\ k \in Key /\ w \in Window /\ w \in Nat \ {0} /\ d \in Day /\ d \in Nat
        /\ newest \in Nat /\ newest \in 0 .. LastWindow
    <2>1. k \in Key /\ w \in Window /\ newest \in 0 .. LastWindow
      BY DEF TypeOK
    <2>2. w \in Nat \ {0} /\ newest \in Nat
      BY <2>1 DEF Window
    <2>3. d \in Day /\ d \in Nat
      BY <2>1, DayLemma, DayNat
    <2>4. QED
      BY <2>1, <2>2, <2>3
  <1>2. /\ groups \in [Key -> DenialGroup] /\ budget \in Budget /\ budget' \in Budget
        /\ spent \in [Day -> Nat] /\ credited \in [Day -> Nat] /\ ordered \in BOOLEAN
    BY DEF TypeOK
  <1>3. ordered /\ newest <= w /\ newest' = w /\ InOrder
    <2>1. newest' = Larger(newest, w) /\ ordered' = (ordered /\ newest <= w)
      BY TurnBudget
    <2>2. ordered /\ newest <= w
      BY <2>1
    <2>3. QED
      BY <2>1, <2>2, <1>1 DEF Larger
  <1>4. Today \in Nat /\ Today <= d /\ Today' = d
    <2>1. CASE newest = 0
      BY <2>1, <1>1, <1>3 DEF Today
    <2>2. CASE newest # 0
      <3>1. newest \in Window
        BY <2>2, <1>1 DEF Window
      <3>2. DayOf(newest) <= d /\ DayOf(newest) \in Nat
        BY <3>1, <1>1, <1>3, DayLemma, DayNat
      <3>3. QED
        BY <2>2, <3>2, <1>1, <1>3 DEF Today
    <2>3. QED
      BY <2>1, <2>2
  <1>5. PICK bill \in Nat :
          /\ spent' = [spent EXCEPT ![d] = spent[d] + bill]
          /\ UsedOn(budget, d) + bill <= UsedOn(budget', d)
          /\ PermitsOn(budget', d) + bill <= PermitsOn(budget, d) + n
          /\ UsedOn(budget, d) <= OrgCeiling => UsedOn(budget', d) <= OrgCeiling
    BY TurnBudget
  <1>6. ASSUME NEW x \in Key
        PROVE  groups'[x].window <= newest' /\ stored'.groups[x].window = groups'[x].window
    <2>1. groups[x].window <= newest /\ stored.groups[x].window = groups[x].window
      BY <1>3 DEF InOrder
    <2>2. groups[x].window \in Nat
      BY <1>2 DEF DenialGroup
    <2>3. groups'[x].window \in {0, groups[x].window, w}
      BY TurnBudget
    <2>4. groups'[x].window <= w
      BY <2>1, <2>2, <2>3, <1>1, <1>3
    <2>5. stored'.groups[x].window = groups'[x].window
      BY <2>1, TurnBudget
    <2>6. QED
      BY <2>4, <2>5, <1>3
  <1>7. budget'.day = d /\ budget'.permitsDay = d
    <2>1. CASE groups[k].window # w
      BY <2>1, TurnBudget DEF DatedOn
    <2>2. CASE groups[k].window = w
      <3>1. newest = w
        BY <2>2, <1>1, <1>3 DEF InOrder
      <3>2. Today = d
        BY <3>1, <1>1 DEF Today
      <3>3. budget.day = d /\ budget.permitsDay = d
        BY <3>2, <1>3 DEF InOrder
      <3>4. DatedOn(b, d)
        BY <3>3 DEF TurnOn, DatedOn
      <3>5. QED
        BY <3>4, TurnBudget DEF DatedOn
    <2>3. QED
      BY <2>1, <2>2
  <1>8. stored'.budget = budget'
    BY TurnBudget
  <1>9. /\ UsedOn(budget, d) \in Nat /\ UsedOn(budget', d) \in Nat
        /\ PermitsOn(budget, d) \in Nat /\ PermitsOn(budget', d) \in Nat
        /\ spent[d] \in Nat /\ credited[d] \in Nat
    BY <1>1, <1>2, AffordableLemma
  <1>10. spent[d] <= UsedOn(budget, d) /\ UsedOn(budget, d) <= OrgCeiling
    BY <1>1, <1>3, <1>4 DEF InOrder
  <1>11. /\ spent'[d] = spent[d] + bill
         /\ spent'[d] <= UsedOn(budget', d) /\ UsedOn(budget', d) <= OrgCeiling
         /\ spent'[d] <= OrgCeiling
    BY <1>1, <1>2, <1>5, <1>9, <1>10
  <1>12. \A e \in Day \ {d} : spent'[e] = spent[e]
    BY <1>2, <1>5
  <1>13. ASSUME NEW e \in Day, e >= d, e # d
         PROVE  spent'[e] <= UsedOn(budget', e) /\ UsedOn(budget', e) <= OrgCeiling
    <2>1. e \in Nat /\ e > d /\ e > Today
      BY <1>1, <1>4, <1>13, DayNat
    <2>2. spent[e] <= UsedOn(budget, e)
      BY <2>1, <1>3, <1>4 DEF InOrder
    <2>3. UsedOn(budget, e) = 0 /\ UsedOn(budget', e) = 0
      BY <2>1, <1>1, <1>3, <1>4, <1>7 DEF InOrder, UsedOn
    <2>4. QED
      BY <2>2, <2>3, <1>12, <1>13
  <1>14. InOrder'
    BY <1>4, <1>6, <1>7, <1>8, <1>11, <1>13 DEF InOrder
  <1>15. EvidenceCeilingHeld'
    BY <1>3, <1>11, <1>12 DEF EvidenceCeilingHeld
  <1>16. PermitsConserved'
    <2>1. credited' = [credited EXCEPT ![d] = @ + n]
      BY DEF TurnOn
    <2>2. \A e \in Day : spent[e] + PermitsOn(budget, e) <= credited[e]
      BY <1>3 DEF PermitsConserved
    <2>3. credited'[d] = credited[d] + n
      BY <2>1, <1>1, <1>2
    <2>4. spent'[d] + PermitsOn(budget', d) <= credited'[d]
      BY <2>2, <2>3, <1>1, <1>5, <1>9, <1>11
    <2>5. ASSUME NEW e \in Day, e # d
          PROVE  spent'[e] + PermitsOn(budget', e) <= credited'[e]
      <3>1. credited'[e] = credited[e] /\ spent'[e] = spent[e]
        BY <2>1, <2>5, <1>2, <1>12
      <3>2. PermitsOn(budget', e) = 0
        BY <2>5, <1>7 DEF PermitsOn
      <3>3. PermitsOn(budget, e) \in Nat /\ spent[e] \in Nat /\ credited[e] \in Nat
        BY <1>2, AffordableLemma
      <3>4. QED
        BY <2>2, <3>1, <3>2, <3>3
    <2>6. QED
      BY <2>4, <2>5 DEF PermitsConserved
  <1>17. QED
    BY <1>14, <1>15, <1>16

LEMMA InOrderQuiet ==
    ASSUME TypeOK, TypeOK', Quiet, ordered, InOrder,
           EvidenceCeilingHeld, PermitsConserved
    PROVE  InOrder' /\ EvidenceCeilingHeld' /\ PermitsConserved'
  <1>1. UNCHANGED <<spent, credited, newest, ordered>> /\ Today' = Today
    BY DEF Quiet, historyVars, Today
  <1>2. CASE UNCHANGED coordinatorVars
    <2>1. UNCHANGED <<groups, budget, stored>>
      BY <1>2 DEF coordinatorVars
    <2>2. QED
      BY <1>1, <2>1 DEF InOrder, EvidenceCeilingHeld, PermitsConserved
  <1>3. CASE /\ groups' = stored.groups
             /\ budget' = hydrateBudget(stored.budget)
             /\ stored' = stored
    <2>1. stored.budget \in Budget
      BY DEF TypeOK
    <2>2. /\ budget'.day = stored.budget.day /\ budget'.used = stored.budget.used
          /\ budget'.permitsDay = stored.budget.day
          /\ budget'.permits = stored.budget.permits
      BY <1>3, <2>1, HydrateLemma
    <2>3. /\ budget'.day = Today /\ budget'.permitsDay = Today
          /\ budget'.used = budget.used /\ budget'.permits = budget.permits
          /\ budget.day = Today /\ budget.permitsDay = Today
      BY <2>2 DEF InOrder
    <2>4. \A d \in Day : /\ UsedOn(budget', d) = UsedOn(budget, d)
                        /\ PermitsOn(budget', d) = PermitsOn(budget, d)
      BY <2>3 DEF UsedOn, PermitsOn
    <2>5. \A k \in Key : groups'[k].window = groups[k].window
      BY <1>3 DEF InOrder
    <2>6. InOrder'
      BY <1>1, <1>3, <2>3, <2>4, <2>5 DEF InOrder
    <2>7. EvidenceCeilingHeld'
      BY <1>1 DEF EvidenceCeilingHeld
    <2>8. PermitsConserved'
      BY <1>1, <2>4 DEF PermitsConserved
    <2>9. QED
      BY <2>6, <2>7, <2>8
  <1>4. QED
    BY <1>2, <1>3 DEF Quiet

LEMMA InOrderMove ==
    ASSUME TypeOK, NEW r \in Req, write(r) \/ SummariesLost(r), ordered => InOrder,
           EvidenceCeilingHeld, PermitsConserved
    PROVE  (ordered' => InOrder') /\ EvidenceCeilingHeld' /\ PermitsConserved'
  <1>1. UNCHANGED <<groups, budget, stored, spent, credited, newest, ordered>>
    BY DEF write, SummariesLost, coordinatorVars, historyVars
  <1>2. QED
    BY <1>1 DEF InOrder, Today, EvidenceCeilingHeld, PermitsConserved

Books == TypeOK /\ (ordered => InOrder) /\ EvidenceCeilingHeld /\ PermitsConserved

LEMMA BooksInvariant == Spec => []Books
  <1>1. Init => Books
    <2> SUFFICES ASSUME Init PROVE InOrder /\ EvidenceCeilingHeld /\ PermitsConserved
      BY TypeInit DEF Books
    <2>1. \A k \in Key : groups[k].window = 0 /\ stored.groups[k].window = 0
      BY DEF Init, NoGroup
    <2>2. /\ newest = 0 /\ Today = 0 /\ budget = NewBudget /\ stored.budget = NewBudget
          /\ spent = [d \in Day |-> 0] /\ credited = [d \in Day |-> 0]
      BY DEF Init, Today
    <2>3. \A d \in Day : d # 0
      BY DEF Day
    <2>4. \A d \in Day : UsedOn(budget, d) = 0 /\ PermitsOn(budget, d) = 0
      BY <2>2, <2>3 DEF UsedOn, PermitsOn, NewBudget
    <2>5. InOrder
      BY <2>1, <2>2, <2>4 DEF InOrder, NewBudget
    <2>6. QED
      BY <2>2, <2>4, <2>5 DEF EvidenceCeilingHeld, PermitsConserved
  <1>2. Books /\ [Next]_vars => Books'
    <2> SUFFICES ASSUME Books, [Next]_vars PROVE Books'
      OBVIOUS
    <2> USE DEF Books
    <2>1. TypeOK'
      BY StepLemma
    <2>2. CASE Quiet
      <3>1. ordered' = ordered
        BY <2>2 DEF Quiet, historyVars
      <3>2. CASE ordered
        BY <2>1, <2>2, <3>2, InOrderQuiet
      <3>3. CASE ~ordered
        BY <2>1, <3>1, <3>3 DEF EvidenceCeilingHeld, PermitsConserved
      <3>4. QED
        BY <3>2, <3>3
    <2>3. CASE \E r \in Req, b \in Budget, n \in Nat : TurnOn(r, b, n)
      <3>1. CASE ordered'
        BY <2>1, <2>3, <3>1, InOrderTurn
      <3>2. CASE ~ordered'
        BY <2>1, <3>2 DEF EvidenceCeilingHeld, PermitsConserved
      <3>3. QED
        BY <3>1, <3>2
    <2>4. CASE \E r \in Req : write(r) \/ SummariesLost(r)
      BY <2>1, <2>4, InOrderMove
    <2>5. QED
      BY <2>2, <2>3, <2>4, StepLemma
  <1>3. QED
    BY <1>1, <1>2, PTL DEF Spec

\* As long as windows are handled in order, no day of evidence costs the
\* Organization more than its ceiling, whatever is evicted, lost or interleaved
\* (spendPermit, persistBudget, hydrate).
THEOREM EvidenceCeilingIsHeld == Spec => []EvidenceCeilingHeld
  <1>1. Books => EvidenceCeilingHeld
    BY DEF Books
  <1>2. QED
    BY <1>1, BooksInvariant, PTL

\* And no summary is charged to a day beyond the permits that the ledger
\* granted for that very day (spendPermit, creditPermits, persistBudget).
THEOREM PermitsAreConserved == Spec => []PermitsConserved
  <1>1. Books => PermitsConserved
    BY DEF Books
  <1>2. QED
    BY <1>1, BooksInvariant, PTL

-----------------------------------------------------------------------------
(* The identity of a summary, while windows are handled in order.           *)

\* A summary that was emitted is of an older window than the newest, or has a
\* sequence number that its group has passed; no two of them share an
\* identity; and what a group has emitted is in the tables.
Sequenced ==
    /\ \A k \in Key : stored.groups[k].emissions = groups[k].emissions
    /\ \A row \in table \cup BeingInserted :
          /\ row.window <= newest
          /\ IF row.window = groups[row.key].window
             THEN row.sequence < groups[row.key].emissions
             ELSE row.window < newest
    /\ \A q \in Req : req[q].phase = "recorded" =>
          \A row \in req[q].rows :
             /\ \A old \in table : SummaryId(row) # SummaryId(old)
             /\ \A p \in Req \ {q} : req[p].phase = "recorded" =>
                   \A other \in req[p].rows : SummaryId(row) # SummaryId(other)

LEMMA EmissionsAfter ==
    ASSUME NEW old \in DenialGroup, NEW w \in Window, NEW b
    PROVE  /\ Attempt(old, w).emissions = IF old.window = w THEN old.emissions ELSE 0
           /\ GroupAfter(old, w, b).emissions =
                 IF Paid(old, w, b) THEN Attempt(old, w).emissions + 1
                 ELSE Attempt(old, w).emissions
  <1>1. Attempt(old, w) \in DenialGroup
    BY GroupTypes
  <1>2. Attempt(old, w).emissions = IF old.window = w THEN old.emissions ELSE 0
    BY DEF Attempt, DenialGroup
  <1>3. Emitted(Attempt(old, w)).emissions = Attempt(old, w).emissions + 1
    BY <1>1 DEF Emitted, DenialGroup
  <1>4. QED
    BY <1>2, <1>3 DEF GroupAfter

\* The rows of an answer: one of the attempt, and one for each group closed.
LEMMA NewRows ==
    ASSUME TypeOK, NEW k \in Key, NEW w \in Window, NEW b,
           NEW final \in SUBSET Stale(k, w), NEW row \in RowsOf(k, w, b, final)
    PROVE  /\ row.key \in Key
           /\ \/ /\ row.key = k /\ row.window = w
                 /\ row.sequence = Attempt(groups[k], w).emissions
                 /\ Paid(groups[k], w, b)
              \/ /\ row.key \in {k} \cup final
                 /\ row.window = groups[row.key].window
                 /\ row.window \notin {0, w}
                 /\ row.sequence = groups[row.key].emissions
  <1>1. groups[k] \in DenialGroup
    BY DEF TypeOK
  <1>2. \A x, g : /\ toSummary(x, g).key = x /\ toSummary(x, g).window = g.window
                  /\ toSummary(x, g).sequence = g.emissions
    BY DEF toSummary
  <1>3. Attempt(groups[k], w).window = w
    BY <1>1 DEF Attempt, DenialGroup
  <1>4. CASE row \in Where(Closed(groups[k], w, b), toSummary(k, groups[k]))
    <2>1. Closing(groups[k], w) /\ row = toSummary(k, groups[k])
      BY <1>4 DEF Where, Closed
    <2>2. groups[k].window \notin {0, w}
      BY <2>1 DEF Closing
    <2>3. QED
      BY <1>2, <2>1, <2>2
  <1>5. CASE row \in Where(Paid(groups[k], w, b), toSummary(k, Attempt(groups[k], w)))
    <2>1. Paid(groups[k], w, b) /\ row = toSummary(k, Attempt(groups[k], w))
      BY <1>5 DEF Where
    <2>2. QED
      BY <1>2, <1>3, <2>1
  <1>6. CASE row \in {toSummary(x, groups[x]) : x \in final}
    <2>1. PICK x \in final : row = toSummary(x, groups[x])
      BY <1>6
    <2>2. x \in Key /\ groups[x].window \notin {0, w}
      BY DEF Stale
    <2>3. QED
      BY <1>2, <2>1, <2>2
  <1>7. QED
    BY <1>4, <1>5, <1>6 DEF RowsOf

LEMMA RowWindow ==
    ASSUME TypeOK, NEW row \in table \cup BeingInserted
    PROVE  row \in Summary /\ row.window # 0
  <1>1. row \in Summary
    BY Carried DEF TypeOK
  <1>2. QED
    BY <1>1 DEF Summary, Window

LEMMA SequencedTurn ==
    ASSUME TypeOK, TypeOK', NEW r \in Req, NEW b \in Budget, NEW n \in Nat,
           TurnOn(r, b, n), ordered', ordered => InOrder /\ Sequenced
    PROVE  Sequenced'
  <1> DEFINE k == req[r].key
             w == req[r].window
  <1>1. PICK swept \in SUBSET Stale(k, w) :
           \E final \in SUBSET (swept \cap Pending(k, w)) : Turn(r, b, swept, final)
    BY DEF TurnOn, RecordAndSweep
  <1>2. PICK final \in SUBSET (swept \cap Pending(k, w)) : Turn(r, b, swept, final)
    BY <1>1
  <1> DEFINE rows == RowsOf(k, w, b, final)
             all == table \cup BeingInserted
  <1>3. /\ k \in Key /\ w \in Window /\ groups \in [Key -> DenialGroup]
        /\ groups[k] \in DenialGroup /\ table \subseteq Summary
    BY DEF TypeOK
  <1>4. w \in Nat \ {0} /\ newest \in Nat
    <2>1. newest \in 0 .. LastWindow
      BY DEF TypeOK
    <2>2. QED
      BY <1>3, <2>1 DEF Window
  <1>5. ordered /\ newest <= w /\ newest' = w /\ InOrder /\ Sequenced
    <2>1. newest' = Larger(newest, w) /\ ordered' = (ordered /\ newest <= w)
      BY <1>2 DEF Turn
    <2>2. ordered /\ newest <= w
      BY <2>1
    <2>3. QED
      BY <2>1, <2>2, <1>4 DEF Larger
  <1>6. /\ groups' = [x \in Key |-> IF x = k THEN GroupAfter(groups[k], w, b)
                                    ELSE IF x \in swept THEN NoGroup
                                    ELSE groups[x]]
        /\ stored' = [groups |-> [x \in Key |->
                          IF x \in swept \/ (x = k /\ Due(groups[k], w, b))
                          THEN groups'[x] ELSE stored.groups[x]],
                      budget |-> budget']
    BY <1>2 DEF Turn
  <1>7. /\ rows \subseteq Summary
        /\ \A q \in Req : IF q = r
                         THEN /\ req'[q].rows = rows
                              /\ req'[q].phase = IF rows = {} THEN "done" ELSE "recorded"
                         ELSE req'[q] = req[q]
        /\ BeingInserted' = BeingInserted \cup rows
        /\ table' = table
    <2>1. req[r].phase # "recorded" /\ table' = table
      BY DEF TurnOn
    <2>2. QED
      BY <1>2, <2>1, AnswerLemma
  <1>8. final \in SUBSET Stale(k, w) /\ final \subseteq swept
    BY DEF Stale
  <1>9. \A x \in Key : /\ groups[x].window \in Nat /\ groups[x].emissions \in Nat
                       /\ groups[x].window <= newest
                       /\ stored.groups[x].emissions = groups[x].emissions
    BY <1>3, <1>5 DEF InOrder, Sequenced, DenialGroup
  <1>10. \A row \in all : row.key \in Key /\ row.window \in Nat /\ row.sequence \in Nat
    <2>1. BeingInserted \subseteq Summary
      BY Carried DEF TypeOK
    <2>2. QED
      BY <1>3, <2>1 DEF Summary, Window
  <1>11. \A row \in all : /\ row.window <= newest
                          /\ IF row.window = groups[row.key].window
                             THEN row.sequence < groups[row.key].emissions
                             ELSE row.window < newest
    BY <1>5 DEF Sequenced
  <1>12. \A row \in rows :
            /\ row.key \in Key
            /\ \/ /\ row.key = k /\ row.window = w
                  /\ row.sequence = Attempt(groups[k], w).emissions
                  /\ Paid(groups[k], w, b)
               \/ /\ row.key \in {k} \cup final
                  /\ row.window = groups[row.key].window
                  /\ row.window \notin {0, w}
                  /\ row.sequence = groups[row.key].emissions
    BY <1>3, <1>8, NewRows
  <1>13. /\ Attempt(groups[k], w).emissions =
               IF groups[k].window = w THEN groups[k].emissions ELSE 0
         /\ groups'[k].window = w
         /\ groups'[k].emissions = IF Paid(groups[k], w, b)
                                   THEN Attempt(groups[k], w).emissions + 1
                                   ELSE Attempt(groups[k], w).emissions
    BY <1>3, <1>6, EmissionsAfter, WindowAfter
  <1>14. \A x \in Key \ {k} : groups'[x] = IF x \in swept THEN NoGroup ELSE groups[x]
    BY <1>6
  <1> HIDE DEF all, rows
  <1>15. ASSUME NEW row \in rows, NEW old \in all
         PROVE  SummaryId(row) # SummaryId(old)
    <2> SUFFICES ASSUME row.key = old.key, row.window = old.window,
                        row.sequence = old.sequence
                 PROVE  FALSE
      BY DEF SummaryId
    <2>1. CASE row.window = groups[row.key].window /\ row.sequence = groups[row.key].emissions
      <3>1. old.window = groups[old.key].window /\ old.sequence = groups[old.key].emissions
        BY <2>1
      <3>2. old.sequence < groups[old.key].emissions
        BY <3>1, <1>11
      <3>3. old.sequence \in Nat
        BY <1>10
      <3>4. QED
        BY <3>1, <3>2, <3>3
    <2>2. CASE row.key = k /\ row.window = w /\ groups[k].window # w
      <3>1. old.window = w /\ old.window # groups[old.key].window
        BY <2>2
      <3>2. w < newest
        BY <3>1, <1>11
      <3>3. QED
        BY <3>2, <1>4, <1>5
    <2>3. QED
      BY <2>1, <2>2, <1>12, <1>13
  <1>16. ASSUME NEW x \in Key
         PROVE  stored'.groups[x].emissions = groups'[x].emissions
    <2>1. CASE x \in swept \/ (x = k /\ Due(groups[k], w, b))
      BY <2>1, <1>6
    <2>2. CASE x \notin swept /\ x # k
      BY <2>2, <1>6, <1>9
    <2>3. CASE x \notin swept /\ x = k /\ ~Due(groups[k], w, b)
      <3>1. groups[k].window = w /\ ~Paid(groups[k], w, b)
        BY <2>3, FirstIsDue DEF Paid
      <3>2. groups'[k].emissions = groups[k].emissions
        BY <3>1, <1>13
      <3>3. stored'.groups[k] = stored.groups[k]
        BY <2>3, <1>3, <1>6
      <3>4. QED
        BY <2>3, <3>2, <3>3, <1>3, <1>9
    <2>4. QED
      BY <2>1, <2>2, <2>3
  <1>17. ASSUME NEW row \in rows
         PROVE  /\ row.window <= newest'
                /\ IF row.window = groups'[row.key].window
                   THEN row.sequence < groups'[row.key].emissions
                   ELSE row.window < newest'
    <2>1. CASE /\ row.key = k /\ row.window = w
               /\ row.sequence = Attempt(groups[k], w).emissions
               /\ Paid(groups[k], w, b)
      <3>1. Attempt(groups[k], w).emissions \in Nat
        BY <1>3, <1>9, <1>13
      <3>2. row.sequence < groups'[row.key].emissions
        BY <2>1, <3>1, <1>13
      <3>3. QED
        BY <2>1, <3>2, <1>4, <1>5, <1>13
    <2>2. CASE /\ row.key \in {k} \cup final
               /\ row.window = groups[row.key].window
               /\ row.window \notin {0, w}
      <3>1. row.window < w
        BY <2>2, <1>4, <1>5, <1>9, <1>12
      <3>2. groups'[row.key].window # row.window
        BY <2>2, <1>8, <1>12, <1>13, <1>14 DEF NoGroup
      <3>3. row.window \in Nat
        BY <2>2, <1>9, <1>12
      <3>4. QED
        BY <3>1, <3>2, <3>3, <1>4, <1>5
    <2>3. QED
      BY <2>1, <2>2, <1>12
  <1>18. ASSUME NEW row \in all
         PROVE  /\ row.window <= newest'
                /\ IF row.window = groups'[row.key].window
                   THEN row.sequence < groups'[row.key].emissions
                   ELSE row.window < newest'
    <2>1. row.window <= w
      BY <1>4, <1>5, <1>10, <1>11
    <2>2. CASE row.window < w
      <3>1. CASE row.key = k
        BY <2>2, <3>1, <1>4, <1>5, <1>10, <1>13
      <3>2. CASE row.key # k
        <4>1. groups'[row.key] = IF row.key \in swept THEN NoGroup ELSE groups[row.key]
          BY <3>2, <1>10, <1>14
        <4>2. CASE row.window = groups'[row.key].window
          <5>1. groups'[row.key] = groups[row.key] \/ row.window = 0
            BY <4>1, <4>2 DEF NoGroup
          <5>2. row.window # 0
            BY <1>10, RowWindow DEF all
          <5>3. QED
            BY <4>2, <5>1, <5>2, <1>11, <2>1, <1>5
        <4>3. CASE row.window # groups'[row.key].window
          BY <4>3, <2>1, <2>2, <1>5
        <4>4. QED
          BY <4>2, <4>3
      <3>3. QED
        BY <3>1, <3>2
    <2>3. CASE row.window = w
      <3>1. newest = w
        BY <2>3, <1>4, <1>5, <1>11
      <3>2. /\ groups[row.key].window = w
            /\ row.sequence < groups[row.key].emissions
        BY <2>3, <3>1, <1>4, <1>11
      <3>3. row.key \notin swept
        BY <3>2 DEF Stale
      <3>4. CASE row.key = k
        <4>1. groups'[k].emissions \in {groups[k].emissions, groups[k].emissions + 1}
          BY <3>2, <3>4, <1>13
        <4>2. QED
          BY <2>3, <3>2, <3>4, <4>1, <1>4, <1>5, <1>9, <1>10, <1>13
      <3>5. CASE row.key # k
        <4>1. groups'[row.key] = groups[row.key]
          BY <3>3, <3>5, <1>10, <1>14
        <4>2. QED
          BY <2>3, <3>2, <4>1, <1>4, <1>5
      <3>6. QED
        BY <3>4, <3>5
    <2>4. QED
      BY <2>1, <2>2, <2>3, <1>4, <1>10
  <1>19. ASSUME NEW q \in Req, req'[q].phase = "recorded", NEW row \in req'[q].rows
         PROVE  /\ \A old \in table' : SummaryId(row) # SummaryId(old)
                /\ \A p \in Req \ {q} : req'[p].phase = "recorded" =>
                      \A other \in req'[p].rows : SummaryId(row) # SummaryId(other)
    <2>1. \A p \in Req : req[p].phase = "recorded" => req[p].rows \subseteq all
      BY Carried DEF all
    <2>2. table \subseteq all
      BY DEF all
    <2>3. CASE q = r
      <3>1. row \in rows
        BY <2>3, <1>7, <1>19
      <3>2. \A old \in all : SummaryId(row) # SummaryId(old)
        BY <3>1, <1>15
      <3>3. \A p \in Req \ {q} : req'[p] = req[p]
        BY <2>3, <1>7
      <3>4. QED
        BY <2>1, <2>2, <3>2, <3>3, <1>7
    <2>4. CASE q # r
      <3>1. req'[q] = req[q] /\ row \in req[q].rows /\ req[q].phase = "recorded"
        BY <2>4, <1>7, <1>19
      <3>2. row \in all
        BY <2>1, <3>1
      <3>3. \A old \in table : SummaryId(row) # SummaryId(old)
        BY <3>1, <1>5 DEF Sequenced
      <3>4. ASSUME NEW p \in Req \ {q}, req'[p].phase = "recorded", NEW other \in req'[p].rows
            PROVE  SummaryId(row) # SummaryId(other)
        <4>1. CASE p = r
          <5>1. other \in rows
            BY <3>4, <4>1, <1>7
          <5>2. QED
            BY <3>2, <5>1, <1>15
        <4>2. CASE p # r
          <5>1. req'[p] = req[p]
            BY <4>2, <1>7
          <5>2. QED
            BY <3>1, <3>4, <5>1, <1>5 DEF Sequenced
        <4>3. QED
          BY <4>1, <4>2
      <3>5. QED
        BY <3>3, <3>4, <1>7
    <2>5. QED
      BY <2>3, <2>4
  <1>20. \A row \in table' \cup BeingInserted' : row \in all \/ row \in rows
    BY <1>7 DEF all
  <1>21. QED
    BY <1>16, <1>17, <1>18, <1>19, <1>20 DEF Sequenced

LEMMA SequencedQuiet ==
    ASSUME TypeOK, Quiet, InOrder, Sequenced
    PROVE  Sequenced'
  <1>1. newest' = newest /\ table' = table /\ BeingInserted' = BeingInserted
    BY QuietCarries DEF Quiet, historyVars
  <1>2. \A q \in Req : /\ (req'[q].phase = "recorded") <=> (req[q].phase = "recorded")
                      /\ (req[q].phase = "recorded" => req'[q].rows = req[q].rows)
    BY DEF Quiet
  <1>3. stored' = stored /\ (groups' = groups \/ groups' = stored.groups)
    BY DEF Quiet, coordinatorVars
  <1>4. \A x \in Key : /\ groups'[x].window = groups[x].window
                      /\ groups'[x].emissions = groups[x].emissions
                      /\ stored'.groups[x].emissions = groups'[x].emissions
    BY <1>3 DEF InOrder, Sequenced
  <1>5. \A row \in table \cup BeingInserted : row.key \in Key
    BY RowWindow DEF Summary
  <1>6. \A row \in table' \cup BeingInserted' :
          /\ row.window <= newest'
          /\ IF row.window = groups'[row.key].window
             THEN row.sequence < groups'[row.key].emissions
             ELSE row.window < newest'
    BY <1>1, <1>4, <1>5 DEF Sequenced
  <1>7. ASSUME NEW q \in Req, req'[q].phase = "recorded", NEW row \in req'[q].rows
        PROVE  /\ \A old \in table' : SummaryId(row) # SummaryId(old)
               /\ \A p \in Req \ {q} : req'[p].phase = "recorded" =>
                     \A other \in req'[p].rows : SummaryId(row) # SummaryId(other)
    <2>1. req[q].phase = "recorded"
      BY <1>2, <1>7
    <2>2. row \in req[q].rows
      BY <1>2, <1>7, <2>1
    <2>3. \A old \in table' : SummaryId(row) # SummaryId(old)
      BY <1>1, <2>1, <2>2 DEF Sequenced
    <2>4. ASSUME NEW p \in Req \ {q}, req'[p].phase = "recorded", NEW other \in req'[p].rows
          PROVE  SummaryId(row) # SummaryId(other)
      <3>1. req[p].phase = "recorded"
        BY <1>2, <2>4
      <3>2. other \in req[p].rows
        BY <1>2, <2>4, <3>1
      <3>3. QED
        BY <2>1, <2>2, <3>1, <3>2 DEF Sequenced
    <2>5. QED
      BY <2>3, <2>4
  <1>8. QED
    BY <1>4, <1>6, <1>7 DEF Sequenced

LEMMA SequencedMove ==
    ASSUME TypeOK, NEW r \in Req, write(r) \/ SummariesLost(r), Sequenced
    PROVE  Sequenced'
  <1>1. /\ UNCHANGED <<groups, stored, newest>>
        /\ req[r].phase = "recorded" /\ req' = [req EXCEPT ![r] = Finished(req[r])]
        /\ table' \subseteq table \cup req[r].rows
    BY RequestType DEF write, SummariesLost, coordinatorVars, historyVars
  <1>2. /\ req[r].rows \subseteq BeingInserted
        /\ BeingInserted' \subseteq BeingInserted
        /\ \A q \in Req : req'[q].phase = "recorded" => q # r /\ req'[q] = req[q]
    BY <1>1, LeaveLemma
  <1>3. table' \cup BeingInserted' \subseteq table \cup BeingInserted
    BY <1>1, <1>2
  <1>4. ASSUME NEW row \in table' \cup BeingInserted'
        PROVE  /\ row.window <= newest'
               /\ IF row.window = groups'[row.key].window
                  THEN row.sequence < groups'[row.key].emissions
                  ELSE row.window < newest'
    BY <1>1, <1>3 DEF Sequenced
  <1>5. ASSUME NEW q \in Req, req'[q].phase = "recorded", NEW row \in req'[q].rows
        PROVE  /\ \A old \in table' : SummaryId(row) # SummaryId(old)
               /\ \A p \in Req \ {q} : req'[p].phase = "recorded" =>
                     \A other \in req'[p].rows : SummaryId(row) # SummaryId(other)
    <2>1. q # r /\ req[q].phase = "recorded" /\ row \in req[q].rows
      BY <1>2, <1>5
    <2>2. ASSUME NEW p \in Req \ {q}, req[p].phase = "recorded", NEW other \in req[p].rows
          PROVE  SummaryId(row) # SummaryId(other)
      BY <2>1, <2>2 DEF Sequenced
    <2>3. \A old \in table : SummaryId(row) # SummaryId(old)
      BY <2>1 DEF Sequenced
    <2>4. \A old \in req[r].rows : SummaryId(row) # SummaryId(old)
      BY <1>1, <2>1, <2>2
    <2>5. QED
      BY <1>1, <1>2, <2>2, <2>3, <2>4
  <1>6. \A x \in Key : stored'.groups[x].emissions = groups'[x].emissions
    BY <1>1 DEF Sequenced
  <1>7. QED
    BY <1>4, <1>5, <1>6 DEF Sequenced

\* As long as windows are handled in order, no two summaries of an Organization
\* share a primary key, through evictions, faults and answers that overlap; so
\* a batch fails only by a fault (emit, persistGroups, toOperation).
THEOREM EmissionsAreDistinct == Spec => []EmissionsDistinctInOrder
  <1> DEFINE SInv == ordered => Sequenced
  <1>1. Init => SInv
    <2> SUFFICES ASSUME Init PROVE Sequenced
      OBVIOUS
    <2>1. table = {} /\ \A q \in Req : req[q].phase = "unborn"
      BY DEF Init
    <2>2. BeingInserted = {}
      BY <2>1 DEF BeingInserted
    <2>3. \A k \in Key : stored.groups[k].emissions = groups[k].emissions
      BY DEF Init
    <2>4. QED
      BY <2>1, <2>2, <2>3 DEF Sequenced
  <1>2. Books /\ Books' /\ SInv /\ [Next]_vars => SInv'
    <2> SUFFICES ASSUME Books, Books', SInv, [Next]_vars, ordered' PROVE Sequenced'
      OBVIOUS
    <2> USE DEF Books
    <2>1. CASE Quiet
      <3>1. ordered
        BY <2>1 DEF Quiet, historyVars
      <3>2. QED
        BY <2>1, <3>1, SequencedQuiet
    <2>2. CASE \E r \in Req, b \in Budget, n \in Nat : TurnOn(r, b, n)
      BY <2>2, SequencedTurn
    <2>3. CASE \E r \in Req : write(r) \/ SummariesLost(r)
      <3>1. ordered
        BY <2>3 DEF write, SummariesLost, historyVars
      <3>2. QED
        BY <2>3, <3>1, SequencedMove
    <2>4. QED
      BY <2>1, <2>2, <2>3, StepLemma
  <1>3. SInv => EmissionsDistinctInOrder
    BY DEF Sequenced, EmissionsDistinctInOrder, EmissionsDistinct, Collides
  <1>4. QED
    BY <1>1, <1>2, <1>3, BooksInvariant, PTL DEF Spec

-----------------------------------------------------------------------------
(* How many summaries a group costs, while windows are handled in order.    *)

Points(n) == Cardinality({p \in Ladder : p <= n})

LEMMA PointsLemma ==
    /\ \A n \in Nat : Points(n) \in Nat
    /\ \A m, n \in Nat : m <= n => Points(m) <= Points(n)
    /\ \A n \in Nat : n + 1 \in Ladder => Points(n) + 1 <= Points(n + 1)
  <1> DEFINE Upto(n) == {p \in Ladder : p <= n}
  <1>1. \A n : IsFiniteSet(Upto(n)) /\ Cardinality(Upto(n)) \in Nat
    <2> TAKE n
    <2>1. Upto(n) \in SUBSET Ladder
      OBVIOUS
    <2> HIDE DEF Upto
    <2>2. IsFiniteSet(Upto(n))
      BY <2>1, FS_Subset
    <2>3. QED
      BY <2>2, FS_CardinalityType
  <1>2. \A n : Points(n) = Cardinality(Upto(n))
    BY DEF Points
  <1>3. ASSUME NEW m \in Nat, NEW n \in Nat, m <= n
        PROVE  Points(m) <= Points(n)
    <2>1. Upto(m) \in SUBSET Upto(n)
      <3>1. \A p \in Ladder : p \in Nat
        OBVIOUS
      <3>2. \A p \in Ladder : p <= m => p <= n
        BY <1>3, <3>1
      <3>3. QED
        BY <3>2
    <2> HIDE DEF Upto
    <2>2. QED
      BY <1>1, <1>2, <2>1, FS_Subset
  <1>4. ASSUME NEW n \in Nat, n + 1 \in Ladder
        PROVE  Points(n) + 1 <= Points(n + 1)
    <2>1. Upto(n) \cup {n + 1} \in SUBSET Upto(n + 1) /\ n + 1 \notin Upto(n)
      <3>1. \A p \in Ladder : p \in Nat
        OBVIOUS
      <3>2. \A p \in Ladder : p <= n => p <= n + 1
        BY <3>1
      <3>3. n + 1 <= n + 1 /\ ~(n + 1 <= n)
        OBVIOUS
      <3>4. QED
        BY <1>4, <3>2, <3>3
    <2> HIDE DEF Upto
    <2>2. Cardinality(Upto(n) \cup {n + 1}) = Cardinality(Upto(n)) + 1
      BY <1>1, <2>1, FS_AddElement
    <2>3. Cardinality(Upto(n) \cup {n + 1}) <= Cardinality(Upto(n + 1))
      BY <1>1, <2>1, FS_Subset
    <2>4. QED
      BY <1>2, <2>2, <2>3
  <1> HIDE DEF Upto
  <1>5. QED
    BY <1>1, <1>2, <1>3, <1>4

\* A group has emitted no more than the ladder points that its stored count has
\* passed, and a window that may still be opened has emitted nothing.
WithinLadder ==
    \A k \in Key, w \in Window :
        /\ groups[k].window = w =>
              /\ stored.groups[k].attempts <= groups[k].attempts
              /\ groups[k].attempts <= counted[k][w]
              /\ emitted[k][w] <= Points(stored.groups[k].attempts)
        /\ (groups[k].window # w => emitted[k][w] <= Points(counted[k][w]) + 1)
        /\ (groups[k].window # w /\ newest <= w => emitted[k][w] = 0)

LEMMA AttemptsAfter ==
    ASSUME NEW old \in DenialGroup, NEW w \in Window, NEW b
    PROVE  GroupAfter(old, w, b).attempts = IF old.window = w THEN old.attempts + 1 ELSE 1
  <1>1. Attempt(old, w) \in DenialGroup
    BY GroupTypes
  <1>2. Attempt(old, w).attempts = IF old.window = w THEN old.attempts + 1 ELSE 1
    BY DEF Attempt, DenialGroup
  <1>3. Emitted(Attempt(old, w)).attempts = Attempt(old, w).attempts
    BY <1>1 DEF Emitted, DenialGroup
  <1>4. QED
    BY <1>2, <1>3 DEF GroupAfter

LEMMA WithinLadderTurn ==
    ASSUME TypeOK, TypeOK', NEW r \in Req, NEW b \in Budget, NEW n \in Nat,
           TurnOn(r, b, n), ordered', ordered => InOrder /\ WithinLadder
    PROVE  WithinLadder'
  <1> DEFINE k == req[r].key
             w == req[r].window
  <1>1. PICK swept \in SUBSET Stale(k, w) :
           \E final \in SUBSET (swept \cap Pending(k, w)) : Turn(r, b, swept, final)
    BY DEF TurnOn, RecordAndSweep
  <1>2. PICK final \in SUBSET (swept \cap Pending(k, w)) : Turn(r, b, swept, final)
    BY <1>1
  <1> DEFINE rows == RowsOf(k, w, b, final)
             more(x, v) == Count(\E row \in rows : row.key = x /\ row.window = v)
  <1>3. /\ k \in Key /\ w \in Window /\ groups[k] \in DenialGroup
    BY DEF TypeOK
  <1>4. w \in Nat \ {0} /\ newest \in Nat
    <2>1. newest \in 0 .. LastWindow
      BY DEF TypeOK
    <2>2. QED
      BY <1>3, <2>1 DEF Window
  <1>5. ordered /\ newest <= w /\ newest' = w /\ InOrder /\ WithinLadder
    <2>1. newest' = Larger(newest, w) /\ ordered' = (ordered /\ newest <= w)
      BY <1>2 DEF Turn
    <2>2. ordered /\ newest <= w
      BY <2>1
    <2>3. QED
      BY <2>1, <2>2, <1>4 DEF Larger
  <1>6. /\ groups' = [x \in Key |-> IF x = k THEN GroupAfter(groups[k], w, b)
                                    ELSE IF x \in swept THEN NoGroup
                                    ELSE groups[x]]
        /\ stored' = [groups |-> [x \in Key |->
                          IF x \in swept \/ (x = k /\ Due(groups[k], w, b))
                          THEN groups'[x] ELSE stored.groups[x]],
                      budget |-> budget']
        /\ emitted' = [x \in Key |-> [v \in Window |-> emitted[x][v] + more(x, v)]]
    BY <1>2 DEF Turn
  <1>7. final \in SUBSET Stale(k, w) /\ final \subseteq swept /\ k \notin swept
    BY DEF Stale
  <1>8. \A row \in rows :
            \/ row.key = k /\ row.window = w /\ Paid(groups[k], w, b)
            \/ /\ row.key \in {k} \cup final /\ row.window = groups[row.key].window
               /\ row.window \notin {0, w}
    BY <1>3, <1>7, NewRows
  <1> HIDE DEF rows
  <1>9. ASSUME NEW x \in Key, NEW v \in Window
        PROVE  /\ more(x, v) \in {0, 1}
               /\ (more(x, v) = 1 =>
                     \/ x = k /\ v = w /\ Paid(groups[k], w, b)
                     \/ x \in {k} \cup final /\ v = groups[x].window /\ v # w)
    BY <1>8 DEF Count
  <1> HIDE DEF more
  <1>10. ASSUME NEW x \in Key, NEW v \in Window
         PROVE  /\ emitted'[x][v] = emitted[x][v] + more(x, v)
                /\ emitted[x][v] \in Nat /\ counted[x][v] \in Nat
                /\ counted'[x][v] = counted[x][v] + Count(x = k /\ v = w)
                /\ groups[x].window \in Nat /\ groups[x].window <= newest
                /\ groups[x].attempts \in Nat /\ stored.groups[x].attempts \in Nat
    <2>1. groups[x] \in DenialGroup /\ stored.groups[x] \in DenialGroup
      BY DEF TypeOK
    <2>2. emitted[x][v] \in Nat /\ counted[x][v] \in Nat
      BY DEF TypeOK
    <2>3. QED
      BY <1>5, <1>6, <2>1, <2>2, CountedStep DEF InOrder, DenialGroup
  <1>11. ASSUME NEW x \in Key, NEW v \in Window
         PROVE  /\ (groups[x].window = v =>
                      /\ stored.groups[x].attempts <= groups[x].attempts
                      /\ groups[x].attempts <= counted[x][v]
                      /\ emitted[x][v] <= Points(stored.groups[x].attempts))
                /\ (groups[x].window # v => emitted[x][v] <= Points(counted[x][v]) + 1)
                /\ (groups[x].window # v /\ newest <= v => emitted[x][v] = 0)
    BY <1>5 DEF WithinLadder
  <1>12. /\ groups'[k].window = w
         /\ groups'[k].attempts = IF groups[k].window = w THEN groups[k].attempts + 1 ELSE 1
    BY <1>3, <1>6, AttemptsAfter, WindowAfter
  \* A group that is closed: its window has one more summary at most.
  <1>13. ASSUME NEW x \in Key, NEW v \in Window, groups'[x].window # v, x = k \/ x \in swept
         PROVE  /\ emitted'[x][v] <= Points(counted'[x][v]) + 1
                /\ (newest' <= v => emitted'[x][v] = 0)
    <2>1. v \in Nat /\ ~(x = k /\ v = w)
      BY <1>12, <1>13 DEF Window
    <2>2. counted'[x][v] = counted[x][v]
      BY <2>1, <1>10 DEF Count
    <2>3. CASE groups[x].window = v
      <3>1. emitted[x][v] <= Points(counted[x][v])
        <4>1. stored.groups[x].attempts <= counted[x][v]
          BY <2>3, <1>10, <1>11
        <4>2. Points(stored.groups[x].attempts) <= Points(counted[x][v])
          BY <4>1, <1>10, PointsLemma
        <4>3. Points(stored.groups[x].attempts) \in Nat /\ Points(counted[x][v]) \in Nat
          BY <1>10, PointsLemma
        <4>4. QED
          BY <2>3, <4>2, <4>3, <1>10, <1>11
      <3>2. Points(counted[x][v]) \in Nat
        BY <1>10, PointsLemma
      <3>3. emitted'[x][v] <= Points(counted'[x][v]) + 1
        BY <2>2, <3>1, <3>2, <1>9, <1>10
      <3>4. groups[x].window # w
        BY <1>13, <2>1, <2>3 DEF Stale
      <3>5. v < w
        BY <2>1, <2>3, <3>4, <1>4, <1>5, <1>10
      <3>6. QED
        BY <2>1, <3>3, <3>5, <1>4, <1>5
    <2>4. CASE groups[x].window # v
      <3>1. more(x, v) = 0
        BY <2>1, <2>4, <1>9
      <3>2. emitted'[x][v] = emitted[x][v]
        BY <3>1, <1>10
      <3>3. QED
        BY <2>1, <2>2, <2>4, <3>2, <1>4, <1>5, <1>11
    <2>5. QED
      BY <2>3, <2>4
  \* The group the attempt is counted in.
  <1>14. /\ stored'.groups[k].attempts <= groups'[k].attempts
         /\ groups'[k].attempts <= counted'[k][w]
         /\ emitted'[k][w] <= Points(stored'.groups[k].attempts)
    <2>1. /\ counted'[k][w] = counted[k][w] + 1
          /\ emitted'[k][w] = emitted[k][w] + more(k, w) /\ more(k, w) \in {0, 1}
          /\ emitted[k][w] \in Nat /\ counted[k][w] \in Nat
          /\ groups[k].attempts \in Nat /\ stored.groups[k].attempts \in Nat
      BY <1>3, <1>9, <1>10 DEF Count
    <2>2. CASE groups[k].window # w
      <3>1. emitted[k][w] = 0
        BY <2>2, <1>3, <1>5, <1>11
      <3>2. stored'.groups[k] = groups'[k] /\ groups'[k].attempts = 1
        BY <2>2, <1>3, <1>6, <1>12, FirstIsDue
      <3>3. Points(0) \in Nat /\ Points(1) \in Nat /\ Points(0) + 1 <= Points(1)
        <4>1. Points(0) \in Nat /\ Points(1) \in Nat
          BY PointsLemma
        <4>2. 0 + 1 = 1 /\ 0 \in Nat /\ 1 \in Ladder
          OBVIOUS
        <4>3. Points(0) + 1 <= Points(0 + 1)
          BY <4>2, PointsLemma
        <4>4. QED
          BY <4>1, <4>2, <4>3
      <3>4. QED
        BY <2>1, <3>1, <3>2, <3>3
    <2>3. CASE groups[k].window = w
      <3> DEFINE a == groups[k].attempts
                 s == stored.groups[k].attempts
      <3>1. s <= a /\ a <= counted[k][w] /\ emitted[k][w] <= Points(s)
        BY <2>3, <1>3, <1>11
      <3>2. groups'[k].attempts = a + 1
        BY <2>3, <1>12
      <3>3. CASE Due(groups[k], w, b)
        <4>1. a + 1 \in Ladder
          <5>1. Attempt(groups[k], w).attempts = a + 1
            BY <2>3, <1>3 DEF Attempt, DenialGroup
          <5>2. QED
            BY <3>3, <5>1 DEF Due, emissionDue
        <4>2. stored'.groups[k] = groups'[k]
          BY <3>3, <1>3, <1>6
        <4>3. /\ Points(s) \in Nat /\ Points(a) \in Nat /\ Points(a + 1) \in Nat
              /\ Points(s) <= Points(a) /\ Points(a) + 1 <= Points(a + 1)
          BY <2>1, <3>1, <4>1, PointsLemma
        <4> HIDE DEF a, s
        <4>4. emitted'[k][w] <= Points(a + 1)
          BY <2>1, <3>1, <4>3
        <4>5. QED
          BY <2>1, <3>1, <3>2, <4>2, <4>4 DEF a
      <3>4. CASE ~Due(groups[k], w, b)
        <4>1. more(k, w) = 0
          BY <3>4, <1>3, <1>9 DEF Paid
        <4>2. stored'.groups[k] = stored.groups[k]
          BY <3>4, <1>3, <1>6, <1>7
        <4>3. emitted'[k][w] = emitted[k][w]
          BY <2>1, <4>1
        <4>4. QED
          BY <2>1, <3>1, <3>2, <4>2, <4>3
      <3>5. QED
        BY <3>3, <3>4
    <2>4. QED
      BY <2>2, <2>3
  \* The groups that are left alone.
  <1>15. ASSUME NEW x \in Key, NEW v \in Window, x # k, x \notin swept
         PROVE  /\ groups'[x] = groups[x] /\ stored'.groups[x] = stored.groups[x]
                /\ emitted'[x][v] = emitted[x][v] /\ counted'[x][v] = counted[x][v]
    <2>1. more(x, v) = 0
      BY <1>7, <1>9, <1>15
    <2>2. QED
      BY <2>1, <1>6, <1>10, <1>15 DEF Count
  <1>16. ASSUME NEW x \in Key, NEW v \in Window
         PROVE  /\ (groups'[x].window = v =>
                      /\ stored'.groups[x].attempts <= groups'[x].attempts
                      /\ groups'[x].attempts <= counted'[x][v]
                      /\ emitted'[x][v] <= Points(stored'.groups[x].attempts))
                /\ (groups'[x].window # v => emitted'[x][v] <= Points(counted'[x][v]) + 1)
                /\ (groups'[x].window # v /\ newest' <= v => emitted'[x][v] = 0)
    <2>1. CASE groups'[x].window # v /\ (x = k \/ x \in swept)
      BY <2>1, <1>13
    <2>2. CASE groups'[x].window = v /\ x = k
      BY <2>2, <1>12, <1>14
    <2>3. CASE groups'[x].window = v /\ x # k /\ x \in swept
      <3>1. groups'[x] = NoGroup
        BY <2>3, <1>6
      <3>2. QED
        BY <2>3, <3>1 DEF NoGroup, Window
    <2>4. CASE x # k /\ x \notin swept
      <3>1. /\ groups'[x] = groups[x] /\ stored'.groups[x] = stored.groups[x]
            /\ emitted'[x][v] = emitted[x][v] /\ counted'[x][v] = counted[x][v]
        BY <2>4, <1>15
      <3>2. newest' <= v => newest <= v
        BY <1>4, <1>5 DEF Window
      <3>3. QED
        BY <3>1, <3>2, <1>11
    <2>5. QED
      BY <2>1, <2>2, <2>3, <2>4
  <1>17. QED
    BY <1>16 DEF WithinLadder

LEMMA WithinLadderQuiet ==
    ASSUME TypeOK, Quiet, InOrder, WithinLadder
    PROVE  WithinLadder'
  <1>1. UNCHANGED <<counted, emitted, newest>>
    BY DEF Quiet, historyVars
  <1>2. stored' = stored /\ (groups' = groups \/ groups' = stored.groups)
    BY DEF Quiet, coordinatorVars
  <1>3. ASSUME NEW k \in Key, NEW w \in Window
        PROVE  /\ groups'[k].window = w =>
                     /\ stored'.groups[k].attempts <= groups'[k].attempts
                     /\ groups'[k].attempts <= counted'[k][w]
                     /\ emitted'[k][w] <= Points(stored'.groups[k].attempts)
               /\ (groups'[k].window # w => emitted'[k][w] <= Points(counted'[k][w]) + 1)
               /\ (groups'[k].window # w /\ newest' <= w => emitted'[k][w] = 0)
    <2>1. groups'[k].window = groups[k].window
      BY <1>2 DEF InOrder
    <2>2. /\ groups[k].attempts \in Nat /\ stored.groups[k].attempts \in Nat
          /\ counted[k][w] \in Nat
      BY DEF TypeOK, DenialGroup
    <2>3. ASSUME groups[k].window = w
          PROVE  /\ stored'.groups[k].attempts <= groups'[k].attempts
                 /\ groups'[k].attempts <= counted'[k][w]
                 /\ emitted'[k][w] <= Points(stored'.groups[k].attempts)
      <3>1. /\ stored.groups[k].attempts <= groups[k].attempts
            /\ groups[k].attempts <= counted[k][w]
            /\ emitted[k][w] <= Points(stored.groups[k].attempts)
        BY <2>3 DEF WithinLadder
      <3>2. CASE groups' = groups
        BY <1>1, <1>2, <3>1, <3>2
      <3>3. CASE groups' = stored.groups
        BY <1>1, <1>2, <2>2, <3>1, <3>3
      <3>4. QED
        BY <1>2, <3>2, <3>3
    <2>4. /\ (groups[k].window # w => emitted[k][w] <= Points(counted[k][w]) + 1)
          /\ (groups[k].window # w /\ newest <= w => emitted[k][w] = 0)
      BY DEF WithinLadder
    <2>5. QED
      BY <1>1, <2>1, <2>3, <2>4
  <1>4. QED
    BY <1>3 DEF WithinLadder

\* As long as windows are handled in order, a group costs no more than one
\* summary for each ladder point its count has passed and one for its close,
\* through evictions, faults and answers that overlap
\* (MAX_WRITES_PER_GROUP_WINDOW).
THEOREM EmissionsAreBounded == Spec => []EmissionsBounded
  <1> DEFINE LInv == ordered => WithinLadder
  <1>1. Init => LInv
    <2> SUFFICES ASSUME Init, NEW k \in Key, NEW w \in Window
                 PROVE  groups[k].window # w /\ emitted[k][w] = 0 /\ counted[k][w] = 0
      BY PointsLemma DEF WithinLadder
    <2>1. groups[k].window = 0 /\ w # 0
      BY DEF Init, NoGroup, Window
    <2>2. QED
      BY <2>1 DEF Init
  <1>2. Books /\ Books' /\ LInv /\ [Next]_vars => LInv'
    <2> SUFFICES ASSUME Books, Books', LInv, [Next]_vars, ordered' PROVE WithinLadder'
      OBVIOUS
    <2> USE DEF Books
    <2>1. CASE Quiet
      <3>1. ordered
        BY <2>1 DEF Quiet, historyVars
      <3>2. QED
        BY <2>1, <3>1, WithinLadderQuiet
    <2>2. CASE \E r \in Req, b \in Budget, n \in Nat : TurnOn(r, b, n)
      BY <2>2, WithinLadderTurn
    <2>3. CASE \E r \in Req : write(r) \/ SummariesLost(r)
      <3>1. UNCHANGED <<groups, stored, counted, emitted, newest, ordered>>
        BY <2>3 DEF write, SummariesLost, coordinatorVars, historyVars
      <3>2. QED
        BY <3>1 DEF WithinLadder
    <2>4. QED
      BY <2>1, <2>2, <2>3, StepLemma
  <1>3. Books /\ LInv => EmissionsBounded
    <2> SUFFICES ASSUME Books, WithinLadder, NEW k \in Key, NEW w \in Window
                 PROVE  emitted[k][w] <= Points(counted[k][w]) + Count(groups[k].window # w)
      BY DEF EmissionsBounded, Points
    <2>1. /\ groups[k].attempts \in Nat /\ stored.groups[k].attempts \in Nat
          /\ counted[k][w] \in Nat /\ emitted[k][w] \in Nat
      BY DEF Books, TypeOK, DenialGroup
    <2>2. CASE groups[k].window # w
      BY <2>2 DEF WithinLadder, Count
    <2>3. CASE groups[k].window = w
      <3>1. /\ stored.groups[k].attempts <= counted[k][w]
            /\ emitted[k][w] <= Points(stored.groups[k].attempts)
        BY <2>1, <2>3 DEF WithinLadder
      <3>2. /\ Points(stored.groups[k].attempts) <= Points(counted[k][w])
            /\ Points(stored.groups[k].attempts) \in Nat /\ Points(counted[k][w]) \in Nat
        BY <2>1, <3>1, PointsLemma
      <3>3. QED
        BY <2>1, <2>3, <3>1, <3>2 DEF Count
    <2>4. QED
      BY <2>2, <2>3
  <1>4. QED
    BY <1>1, <1>2, <1>3, BooksInvariant, PTL DEF Spec

-----------------------------------------------------------------------------
(* The total of a closed window, while the coordinator is not evicted.      *)

\* Rows of key k and window w with one identity, of which a Worker still has
\* one to insert: the table will refuse it, and its loss will be announced.
Clash(k, w) ==
    \E r \in Req : \E row \in req[r].rows :
        /\ req[r].phase = "recorded" /\ row.key = k /\ row.window = w
        /\ \/ \E old \in table : SummaryId(old) = SummaryId(row)
           \/ \E q \in Req \ {r} : \E other \in req[q].rows :
                 req[q].phase = "recorded" /\ SummaryId(other) = SummaryId(row)

Reported(k, w) == \E row \in Reports(k, w) : row.attempts >= counted[k][w]

\* The first summary of a window has a trace of its own.  So a group that is
\* opened for that window once more clashes with it.
FirstKnown ==
    \A k \in Key, w \in Window :
        counted[k][w] > 0 =>
           <<k, w>> \in announced \/ \E row \in Reports(k, w) : row.sequence = 0

\* A window that neither lost nor is about to lose a summary had one group, and
\* what that group still has to tell is in memory.
TotalOf(k, w) ==
    counted[k][w] > 0 /\ <<k, w>> \notin announced /\ ~Clash(k, w) =>
        /\ groups[k].window = w => groups[k].attempts = counted[k][w]
        /\ Reported(k, w) \/ (groups[k].window = w /\ Unreported(groups[k]))

TotalKept ==
    evictions = 0 =>
        /\ \A k \in Key : groups[k].emittedAt <= groups[k].attempts
        /\ \A k \in Key, w \in Window : TotalOf(k, w)

LEMMA SameId ==
    \A a, b : SummaryId(a) = SummaryId(b) <=>
                 a.key = b.key /\ a.window = b.window /\ a.sequence = b.sequence
  BY DEF SummaryId

\* The cases of StepLemma, for a step after which nothing was ever evicted.
LEMMA NoEviction ==
    ASSUME TypeOK, [Next]_vars, evictions' = 0
    PROVE  /\ evictions = 0
           /\ \/ Quiet /\ groups' = groups
              \/ \E r \in Req, b \in Budget, n \in Nat : TurnOn(r, b, n)
              \/ \E r \in Req : write(r) \/ SummariesLost(r)
  <1>0. evictions \in Nat
    BY DEF TypeOK
  <1>1. CASE \E r \in Req : \/ PostDenial(r) \/ DenialMustBuy(r) \/ LedgerAnswers(r)
                            \/ LedgerAnswerLost(r) \/ LedgerAnswersNobody(r)
                            \/ RecordFails(r)
    <2>1. Quiet
      BY <1>1, PostDenialStep, DenialMustBuyStep, LedgerStep, RecordFailsStep
    <2>2. UNCHANGED coordinatorVars /\ evictions' = evictions
      BY <1>1 DEF PostDenial, DenialMustBuy, LedgerAnswers, LedgerAnswerLost,
                  LedgerAnswersNobody, RecordFails, handlePermits, Fault, boundVars
    <2>3. QED
      BY <2>1, <2>2 DEF coordinatorVars
  <1>2. CASE \E r \in Req : DenialWithoutBuying(r) \/ DenialResumes(r)
    <2>1. evictions' = evictions
      BY <1>2 DEF DenialWithoutBuying, DenialResumes, boundVars
    <2>2. QED
      BY <1>2, <2>1, TurnStep
  <1>3. CASE \E r \in Req : write(r) \/ SummariesLost(r)
    <2>1. evictions' = evictions
      BY <1>3 DEF write, SummariesLost, Fault, boundVars
    <2>2. QED
      BY <1>3, <2>1
  <1>4. CASE Evict
    BY <1>0, <1>4 DEF Evict
  <1>5. CASE NextWindow
    <2>1. Quiet
      BY <1>5, NextWindowStep
    <2>2. groups' = groups /\ evictions' = evictions
      BY <1>5 DEF NextWindow, coordinatorVars, boundVars
    <2>3. QED
      BY <2>1, <2>2
  <1>6. CASE UNCHANGED vars
    <2>1. Quiet
      BY <1>6 DEF Quiet, vars, coordinatorVars, historyVars
    <2>2. groups' = groups /\ evictions' = evictions
      BY <1>6 DEF vars, coordinatorVars, boundVars
    <2>3. QED
      BY <2>1, <2>2
  <1>7. QED
    BY <1>1, <1>2, <1>3, <1>4, <1>5, <1>6 DEF Next

\* A clash lasts while the requests that hold rows keep them ...
LEMMA ClashStays ==
    ASSUME NEW x \in Key, NEW v \in Window, Clash(x, v), table \subseteq table',
           \A q \in Req : req[q].phase = "recorded" =>
                             req'[q].phase = "recorded" /\ req'[q].rows = req[q].rows
    PROVE  Clash(x, v)'
  <1>1. PICK r \in Req : \E row \in req[r].rows :
           /\ req[r].phase = "recorded" /\ row.key = x /\ row.window = v
           /\ \/ \E old \in table : SummaryId(old) = SummaryId(row)
              \/ \E q \in Req \ {r} : \E other \in req[q].rows :
                    req[q].phase = "recorded" /\ SummaryId(other) = SummaryId(row)
    BY DEF Clash
  <1>2. PICK row \in req[r].rows :
           /\ req[r].phase = "recorded" /\ row.key = x /\ row.window = v
           /\ \/ \E old \in table : SummaryId(old) = SummaryId(row)
              \/ \E q \in Req \ {r} : \E other \in req[q].rows :
                    req[q].phase = "recorded" /\ SummaryId(other) = SummaryId(row)
    BY <1>1
  <1>3. req'[r].phase = "recorded" /\ row \in req'[r].rows
    BY <1>2
  <1>4. CASE \E old \in table : SummaryId(old) = SummaryId(row)
    <2>1. \E old \in table' : SummaryId(old) = SummaryId(row)
      BY <1>4
    <2>2. QED
      BY <1>2, <1>3, <2>1 DEF Clash
  <1>5. CASE \E q \in Req \ {r} : \E other \in req[q].rows :
                req[q].phase = "recorded" /\ SummaryId(other) = SummaryId(row)
    <2>1. \E q \in Req \ {r} : \E other \in req'[q].rows :
                req'[q].phase = "recorded" /\ SummaryId(other) = SummaryId(row)
      BY <1>5
    <2>2. QED
      BY <1>2, <1>3, <2>1 DEF Clash
  <1>6. QED
    BY <1>2, <1>4, <1>5

\* ... and when one of the rows is inserted the other clashes with the table.
LEMMA ClashWrite ==
    ASSUME TypeOK, NEW x \in Key, NEW v \in Window, Clash(x, v), NEW t \in Req, write(t)
    PROVE  Clash(x, v)'
  <1>1. /\ table' = table \cup req[t].rows /\ ~Collides(req[t].rows)
        /\ req' = [req EXCEPT ![t] = Finished(req[t])] /\ req[t].phase = "recorded"
    BY RequestType DEF write
  <1>2. \A q \in Req : q # t => req'[q] = req[q]
    BY <1>1, RequestType
  <1>3. PICK r \in Req : \E row \in req[r].rows :
           /\ req[r].phase = "recorded" /\ row.key = x /\ row.window = v
           /\ \/ \E old \in table : SummaryId(old) = SummaryId(row)
              \/ \E q \in Req \ {r} : \E other \in req[q].rows :
                    req[q].phase = "recorded" /\ SummaryId(other) = SummaryId(row)
    BY DEF Clash
  <1>4. PICK row \in req[r].rows :
           /\ req[r].phase = "recorded" /\ row.key = x /\ row.window = v
           /\ \/ \E old \in table : SummaryId(old) = SummaryId(row)
              \/ \E q \in Req \ {r} : \E other \in req[q].rows :
                    req[q].phase = "recorded" /\ SummaryId(other) = SummaryId(row)
    BY <1>3
  <1>5. CASE r = t
    <2>1. ~ \E old \in table : SummaryId(old) = SummaryId(row)
      BY <1>1, <1>5 DEF Collides
    <2>2. PICK q \in Req \ {t} : \E other \in req[q].rows :
             req[q].phase = "recorded" /\ SummaryId(other) = SummaryId(row)
      BY <1>4, <1>5, <2>1
    <2>3. PICK other \in req[q].rows :
             req[q].phase = "recorded" /\ SummaryId(other) = SummaryId(row)
      BY <2>2
    <2>4. req'[q] = req[q] /\ other.key = x /\ other.window = v
      BY <1>2, <1>4, <2>3, SameId
    <2>5. row \in table' /\ SummaryId(row) = SummaryId(other)
      BY <1>1, <1>4, <1>5, <2>3
    <2>6. QED
      BY <2>3, <2>4, <2>5 DEF Clash
  <1>6. CASE r # t
    <2>1. req'[r] = req[r]
      BY <1>2, <1>6
    <2>2. \/ \E old \in table' : SummaryId(old) = SummaryId(row)
          \/ \E q \in Req \ {r} : \E other \in req'[q].rows :
                req'[q].phase = "recorded" /\ SummaryId(other) = SummaryId(row)
      <3>1. CASE \E old \in table : SummaryId(old) = SummaryId(row)
        BY <1>1, <3>1
      <3>2. CASE \E q \in Req \ {r} : \E other \in req[q].rows :
                    req[q].phase = "recorded" /\ SummaryId(other) = SummaryId(row)
        <4>1. PICK q \in Req \ {r} : \E other \in req[q].rows :
                 req[q].phase = "recorded" /\ SummaryId(other) = SummaryId(row)
          BY <3>2
        <4>2. CASE q = t
          BY <1>1, <4>1, <4>2
        <4>3. CASE q # t
          BY <1>2, <4>1, <4>3
        <4>4. QED
          BY <4>2, <4>3
      <3>3. QED
        BY <1>4, <3>1, <3>2
    <2>3. QED
      BY <1>4, <2>1, <2>2 DEF Clash
  <1>7. QED
    BY <1>5, <1>6

\* When rows are lost, the windows they are of are announced.
LEMMA ClashLost ==
    ASSUME TypeOK, NEW x \in Key, NEW v \in Window, Clash(x, v),
           NEW t \in Req, SummariesLost(t), <<x, v>> \notin announced'
    PROVE  Clash(x, v)'
  <1>1. /\ table' = table /\ req' = [req EXCEPT ![t] = Finished(req[t])]
        /\ announced' = announced \cup {<<row.key, row.window>> : row \in req[t].rows}
    BY RequestType DEF SummariesLost
  <1>2. \A q \in Req : q # t => req'[q] = req[q]
    BY <1>1, RequestType
  <1>3. \A row \in req[t].rows : ~(row.key = x /\ row.window = v)
    BY <1>1
  <1>4. PICK r \in Req : \E row \in req[r].rows :
           /\ req[r].phase = "recorded" /\ row.key = x /\ row.window = v
           /\ \/ \E old \in table : SummaryId(old) = SummaryId(row)
              \/ \E q \in Req \ {r} : \E other \in req[q].rows :
                    req[q].phase = "recorded" /\ SummaryId(other) = SummaryId(row)
    BY DEF Clash
  <1>5. PICK row \in req[r].rows :
           /\ req[r].phase = "recorded" /\ row.key = x /\ row.window = v
           /\ \/ \E old \in table : SummaryId(old) = SummaryId(row)
              \/ \E q \in Req \ {r} : \E other \in req[q].rows :
                    req[q].phase = "recorded" /\ SummaryId(other) = SummaryId(row)
    BY <1>4
  <1>6. r # t /\ req'[r] = req[r]
    BY <1>2, <1>3, <1>5
  <1>7. \/ \E old \in table' : SummaryId(old) = SummaryId(row)
        \/ \E q \in Req \ {r} : \E other \in req'[q].rows :
              req'[q].phase = "recorded" /\ SummaryId(other) = SummaryId(row)
    <2>1. CASE \E old \in table : SummaryId(old) = SummaryId(row)
      BY <1>1, <2>1
    <2>2. CASE \E q \in Req \ {r} : \E other \in req[q].rows :
                  req[q].phase = "recorded" /\ SummaryId(other) = SummaryId(row)
      <3>1. PICK q \in Req \ {r} : \E other \in req[q].rows :
               req[q].phase = "recorded" /\ SummaryId(other) = SummaryId(row)
        BY <2>2
      <3>2. PICK other \in req[q].rows :
               req[q].phase = "recorded" /\ SummaryId(other) = SummaryId(row)
        BY <3>1
      <3>3. q # t
        BY <1>3, <1>5, <3>2, SameId
      <3>4. QED
        BY <1>2, <3>2, <3>3
    <2>3. QED
      BY <1>5, <2>1, <2>2
  <1>8. QED
    BY <1>5, <1>6, <1>7 DEF Clash

\* The summary of the first attempt of a group has the number 0.
LEMMA FirstSummary ==
    ASSUME TypeOK, NEW k \in Key, NEW w \in Window, groups[k].window # w
    PROVE  LET row == toSummary(k, Attempt(groups[k], w))
           IN  row.key = k /\ row.window = w /\ row.sequence = 0 /\ row.attempts = 1
  <1>1. Attempt(groups[k], w) =
           [window |-> w, attempts |-> 1, emittedAt |-> 0, emissions |-> 0]
    BY DEF Attempt
  <1>2. QED
    BY <1>1 DEF toSummary

LEMMA FirstKnownStep ==
    ASSUME TypeOK, GroupsCounted, FirstKnown, [Next]_vars
    PROVE  FirstKnown'
  <1> SUFFICES ASSUME NEW x \in Key, NEW v \in Window, counted'[x][v] > 0,
                      <<x, v>> \notin announced'
               PROVE  \E row \in table' \cup BeingInserted' :
                         row.key = x /\ row.window = v /\ row.sequence = 0
    BY DEF FirstKnown, Reports
  <1> DEFINE Before == \E row \in table \cup BeingInserted :
                          row.key = x /\ row.window = v /\ row.sequence = 0
  <1>1. counted[x][v] > 0 /\ <<x, v>> \notin announced => Before
    BY DEF FirstKnown, Reports
  <1>2. CASE Quiet
    <2>1. counted' = counted /\ announced' = announced
      BY <1>2 DEF Quiet, historyVars
    <2>2. QED
      BY <1>1, <1>2, <2>1, QuietCarries
  <1>3. CASE \E r \in Req, b \in Budget, n \in Nat : TurnOn(r, b, n)
    <2>1. PICK r \in Req, b \in Budget, n \in Nat : TurnOn(r, b, n)
      BY <1>3
    <2> DEFINE k == req[r].key
               w == req[r].window
    <2>2. PICK swept \in SUBSET Stale(k, w) :
             \E final \in SUBSET (swept \cap Pending(k, w)) : Turn(r, b, swept, final)
      BY <2>1 DEF TurnOn, RecordAndSweep
    <2>3. PICK final \in SUBSET (swept \cap Pending(k, w)) : Turn(r, b, swept, final)
      BY <2>2
    <2> DEFINE toReport == swept \cap Pending(k, w)
               rows == RowsOf(k, w, b, final)
    <2>4. req[r].phase # "recorded" /\ table' = table
      BY <2>1 DEF TurnOn
    <2>5. BeingInserted' = BeingInserted \cup rows
      BY <2>3, <2>4, AnswerLemma
    <2>6. announced' = announced \cup RefusedOf(k, w, b, toReport \ final)
      BY <2>3 DEF Turn
    <2>7. counted'[x][v] = counted[x][v] + Count(x = k /\ v = w)
      BY <2>1, CountedStep
    <2>8. CASE counted[x][v] > 0
      BY <1>1, <2>4, <2>5, <2>6, <2>8
    <2>9. CASE ~ (counted[x][v] > 0)
      <3>1. counted[x][v] = 0 /\ x = k /\ v = w
        <4>1. counted[x][v] \in Nat
          BY DEF TypeOK
        <4>2. QED
          BY <2>7, <2>9, <4>1 DEF Count
      <3>2. groups[k].window # w
        BY <3>1 DEF GroupsCounted
      <3>3. Due(groups[k], w, b)
        BY <3>2, FirstIsDue
      <3>4. CASE Paid(groups[k], w, b)
        <4>1. toSummary(k, Attempt(groups[k], w)) \in rows
          BY <3>4 DEF RowsOf, Where
        <4>2. /\ toSummary(k, Attempt(groups[k], w)).key = k
              /\ toSummary(k, Attempt(groups[k], w)).window = w
              /\ toSummary(k, Attempt(groups[k], w)).sequence = 0
          BY <3>1, <3>2, FirstSummary
        <4>3. QED
          BY <2>5, <3>1, <4>1, <4>2
      <3>5. CASE ~Paid(groups[k], w, b)
        <4>1. <<k, w>> \in RefusedOf(k, w, b, toReport \ final)
          BY <3>3, <3>5 DEF RefusedOf, Where
        <4>2. QED
          BY <2>6, <3>1, <4>1
      <3>6. QED
        BY <3>4, <3>5
    <2>10. QED
      BY <2>8, <2>9
  <1>4. ASSUME NEW r \in Req, write(r)
        PROVE  \E row \in table' \cup BeingInserted' :
                  row.key = x /\ row.window = v /\ row.sequence = 0
    <2>1. /\ counted' = counted /\ announced' = announced
          /\ table' = table \cup req[r].rows
          /\ req' = [req EXCEPT ![r] = Finished(req[r])] /\ req[r].phase = "recorded"
      BY <1>4, RequestType DEF write, historyVars
    <2>2. BeingInserted \subseteq BeingInserted' \cup req[r].rows
      BY <2>1, LeaveLemma
    <2>3. QED
      BY <1>1, <2>1, <2>2
  <1>5. ASSUME NEW r \in Req, SummariesLost(r)
        PROVE  \E row \in table' \cup BeingInserted' :
                  row.key = x /\ row.window = v /\ row.sequence = 0
    <2>1. /\ counted' = counted /\ table' = table
          /\ announced' = announced \cup {<<row.key, row.window>> : row \in req[r].rows}
          /\ req' = [req EXCEPT ![r] = Finished(req[r])] /\ req[r].phase = "recorded"
      BY <1>5, RequestType DEF SummariesLost
    <2>2. BeingInserted \subseteq BeingInserted' \cup req[r].rows
      BY <2>1, LeaveLemma
    <2>3. QED
      BY <1>1, <2>1, <2>2
  <1>6. QED
    BY <1>2, <1>3, <1>4, <1>5, StepLemma

\* What a turn does to the group, the count and the rows of one window.
LEMMA TotalTurn ==
    ASSUME TypeOK, GroupsCounted, FirstKnown,
           \A y \in Key : groups[y].emittedAt <= groups[y].attempts,
           NEW r \in Req, NEW b \in Budget, NEW n \in Nat, TurnOn(r, b, n),
           NEW x \in Key, NEW v \in Window, TotalOf(x, v)
    PROVE  TotalOf(x, v)'
  <1> SUFFICES ASSUME counted'[x][v] > 0, <<x, v>> \notin announced', ~Clash(x, v)'
               PROVE  /\ groups'[x].window = v => groups'[x].attempts = counted'[x][v]
                      /\ \/ \E row \in table' \cup BeingInserted' :
                               /\ row.key = x /\ row.window = v
                               /\ row.attempts >= counted'[x][v]
                         \/ groups'[x].window = v /\ Unreported(groups'[x])
    BY DEF TotalOf, Reported, Reports
  <1> DEFINE k == req[r].key
             w == req[r].window
  <1>1. PICK swept \in SUBSET Stale(k, w) :
           \E final \in SUBSET (swept \cap Pending(k, w)) : Turn(r, b, swept, final)
    BY DEF TurnOn, RecordAndSweep
  <1>2. PICK final \in SUBSET (swept \cap Pending(k, w)) : Turn(r, b, swept, final)
    BY <1>1
  <1> DEFINE toReport == swept \cap Pending(k, w)
             rows == RowsOf(k, w, b, final)
             refused == RefusedOf(k, w, b, toReport \ final)
  <1>3. /\ k \in Key /\ w \in Window /\ groups \in [Key -> DenialGroup]
        /\ counted[x][v] \in Nat /\ 0 \notin Window
    BY DEF TypeOK, Window
  <1>4. req[r].phase # "recorded" /\ table' = table
    BY DEF TurnOn
  <1>5. /\ BeingInserted' = BeingInserted \cup rows
        /\ req'[r].rows = rows
        /\ rows # {} => req'[r].phase = "recorded"
        /\ \A q \in Req : q # r => req'[q] = req[q]
    <2>1. /\ \A q \in Req : IF q = r
                            THEN /\ req'[q].rows = rows
                                 /\ req'[q].phase = IF rows = {} THEN "done" ELSE "recorded"
                            ELSE req'[q] = req[q]
          /\ BeingInserted' = BeingInserted \cup rows
      BY <1>2, <1>4, AnswerLemma
    <2> HIDE DEF rows
    <2>2. QED
      BY <2>1
  <1>6. announced' = announced \cup refused
    BY <1>2 DEF Turn
  <1>7. groups' = [y \in Key |-> IF y = k THEN GroupAfter(groups[k], w, b)
                                 ELSE IF y \in swept THEN NoGroup
                                 ELSE groups[y]]
    BY <1>2 DEF Turn
  <1>8. counted'[x][v] = counted[x][v] + Count(x = k /\ v = w)
    BY CountedStep
  <1> HIDE DEF rows, refused
  <1>9. ~Clash(x, v)
    <2>1. \A q \in Req : req[q].phase = "recorded" =>
                            req'[q].phase = "recorded" /\ req'[q].rows = req[q].rows
      BY <1>4, <1>5
    <2>2. QED
      BY <1>4, <2>1, ClashStays
  <1>10. <<x, v>> \notin announced /\ <<x, v>> \notin refused
    BY <1>6
  <1>11. counted[x][v] > 0 =>
            /\ groups[x].window = v => groups[x].attempts = counted[x][v]
            /\ \/ \E row \in table \cup BeingInserted :
                     /\ row.key = x /\ row.window = v
                     /\ row.attempts >= counted[x][v]
               \/ groups[x].window = v /\ Unreported(groups[x])
    BY <1>9, <1>10 DEF TotalOf, Reported, Reports
  <1>12. \A y, g : /\ toSummary(y, g).key = y /\ toSummary(y, g).window = g.window
                   /\ toSummary(y, g).attempts = g.attempts
    BY DEF toSummary
  <1>13. CASE x = k /\ v = w
    <2> DEFINE attempt == Attempt(groups[k], w)
    <2>1. groups'[x] = GroupAfter(groups[k], w, b) /\ counted'[x][v] = counted[x][v] + 1
      BY <1>3, <1>7, <1>8, <1>13 DEF Count
    <2>2. groups[k] \in DenialGroup /\ attempt \in DenialGroup /\ attempt.window = w
      <3>1. groups[k] \in DenialGroup /\ attempt \in DenialGroup
        BY <1>3, GroupTypes
      <3>2. attempt.window = w
        BY <3>1 DEF Attempt, DenialGroup
      <3>3. QED
        BY <3>1, <3>2
    <2>3. groups'[x].attempts = IF groups[k].window = w THEN groups[k].attempts + 1 ELSE 1
      BY <1>3, <2>1, <2>2, AttemptsAfter
    <2>4. attempt.attempts = IF groups[k].window = w THEN groups[k].attempts + 1 ELSE 1
      BY <2>2 DEF Attempt, DenialGroup
    <2>5. /\ attempt.emittedAt = IF groups[k].window = w THEN groups[k].emittedAt ELSE 0
          /\ attempt.emittedAt < attempt.attempts
      <3>1. attempt.emittedAt = IF groups[k].window = w THEN groups[k].emittedAt ELSE 0
        BY <2>2 DEF Attempt, DenialGroup
      <3>2. /\ groups[k].emittedAt \in Nat /\ groups[k].attempts \in Nat
            /\ groups[k].emittedAt <= groups[k].attempts
        BY <1>3, <2>2 DEF DenialGroup
      <3>3. QED
        BY <2>4, <3>1, <3>2
    <2>6. Paid(groups[k], w, b) => toSummary(k, attempt) \in rows
      BY DEF rows, RowsOf, Where
    <2>7. groups'[x].attempts = counted'[x][v]
      <3>1. CASE groups[k].window = w
        <4>1. counted[x][v] > 0
          BY <1>3, <1>13, <3>1 DEF GroupsCounted
        <4>2. groups[k].attempts = counted[x][v]
          BY <1>11, <1>13, <3>1, <4>1
        <4>3. QED
          BY <2>1, <2>3, <3>1, <4>2
      <3>2. CASE groups[k].window # w
        <4>1. counted[x][v] = 0
          <5>1. SUFFICES ASSUME counted[x][v] > 0 PROVE FALSE
            BY <1>3
          <5>2. PICK row \in table \cup BeingInserted :
                   row.key = k /\ row.window = w /\ row.sequence = 0
            BY <1>10, <1>13, <5>1 DEF FirstKnown, Reports
          <5>3. Due(groups[k], w, b)
            BY <3>2, FirstIsDue
          <5>4. Paid(groups[k], w, b)
            <6>1. ~Paid(groups[k], w, b) => <<k, w>> \in refused
              BY <5>3 DEF refused, RefusedOf, Where
            <6>2. QED
              BY <1>10, <1>13, <6>1
          <5>5. PICK first \in rows : first = toSummary(k, attempt)
            BY <2>6, <5>4
          <5>6. first.key = k /\ first.window = w /\ first.sequence = 0
            BY <1>3, <3>2, <5>5, FirstSummary
          <5>7. SummaryId(row) = SummaryId(first)
            BY <5>2, <5>6, SameId
          <5>8. req'[r].phase = "recorded" /\ first \in req'[r].rows
            BY <1>5, <5>5
          <5>9. CASE row \in table
            BY <1>4, <1>13, <5>6, <5>7, <5>8, <5>9 DEF Clash
          <5>10. CASE row \in BeingInserted
            <6>1. PICK q \in Req : req[q].phase = "recorded" /\ row \in req[q].rows
              BY <5>10, Carried
            <6>2. q # r /\ req'[q] = req[q]
              BY <1>4, <1>5, <6>1
            <6>3. \E p \in Req \ {r} : \E other \in req'[p].rows :
                     req'[p].phase = "recorded" /\ SummaryId(other) = SummaryId(first)
              BY <5>7, <6>1, <6>2
            <6>4. QED
              BY <1>13, <5>6, <5>8, <6>3 DEF Clash
          <5>11. QED
            BY <5>2, <5>9, <5>10
        <4>2. QED
          BY <2>1, <2>3, <3>2, <4>1
      <3>3. QED
        BY <3>1, <3>2
    <2>8. CASE Paid(groups[k], w, b)
      <3>1. toSummary(k, attempt).attempts = counted'[x][v]
        BY <1>12, <2>3, <2>4, <2>7
      <3>2. toSummary(k, attempt).key = x /\ toSummary(k, attempt).window = v
        BY <1>12, <1>13, <2>2
      <3>3. toSummary(k, attempt) \in table' \cup BeingInserted'
        BY <1>5, <2>6, <2>8
      <3>4. counted'[x][v] \in Nat
        BY <1>3, <2>1
      <3>5. QED
        BY <2>7, <3>1, <3>2, <3>3, <3>4
    <2>9. CASE ~Paid(groups[k], w, b)
      <3>1. groups'[x] = attempt
        BY <2>1, <2>9 DEF GroupAfter
      <3>2. Unreported(groups'[x]) /\ groups'[x].window = v
        BY <1>13, <2>2, <2>5, <3>1 DEF Unreported, DenialGroup
      <3>3. QED
        BY <2>7, <3>2
    <2>10. QED
      BY <2>8, <2>9
  <1>14. CASE ~(x = k /\ v = w)
    <2>1. counted'[x][v] = counted[x][v]
      BY <1>3, <1>8, <1>14 DEF Count
    <2>2. groups'[x].window = v => groups[x].window = v /\ groups'[x] = groups[x]
      <3>1. CASE x = k
        <4>1. groups'[x].window = w
          BY <1>3, <1>7, <3>1, WindowAfter
        <4>2. QED
          BY <1>14, <3>1, <4>1
      <3>2. CASE x # k
        <4>1. NoGroup.window = 0
          BY DEF NoGroup
        <4>2. QED
          BY <1>3, <1>7, <3>2, <4>1
      <3>3. QED
        BY <3>1, <3>2
    <2>3. CASE \E row \in table \cup BeingInserted :
                  row.key = x /\ row.window = v /\ row.attempts >= counted[x][v]
      BY <1>4, <1>5, <1>11, <2>1, <2>2, <2>3
    <2>4. CASE groups[x].window = v /\ Unreported(groups[x])
      <3>1. groups[x].attempts = counted[x][v]
        BY <1>11, <2>1, <2>4
      <3>2. counted[x][v] >= counted'[x][v]
        BY <1>3, <2>1
      <3>3. toSummary(x, groups[x]) \in rows =>
               \E row \in table' \cup BeingInserted' :
                  row.key = x /\ row.window = v /\ row.attempts >= counted'[x][v]
        BY <1>5, <1>12, <2>4, <3>1, <3>2
      <3>4. CASE x = k
        <4>1. Closing(groups[k], w)
          BY <1>3, <1>14, <2>4, <3>4 DEF Closing
        <4>2. Closed(groups[k], w, b)
          <5>1. ~Closed(groups[k], w, b) => <<k, groups[k].window>> \in refused
            BY <4>1 DEF refused, RefusedOf, Where
          <5>2. QED
            BY <1>10, <2>4, <3>4, <5>1
        <4>3. toSummary(x, groups[x]) \in rows
          BY <3>4, <4>2 DEF rows, RowsOf, Where
        <4>4. QED
          BY <1>11, <2>1, <2>2, <3>3, <4>3
      <3>5. CASE x # k /\ x \in swept
        <4>1. x \in toReport
          BY <2>4, <3>5 DEF Pending
        <4>2. x \in final
          <5>1. x \notin final => <<x, groups[x].window>> \in refused
            BY <4>1 DEF refused, RefusedOf
          <5>2. QED
            BY <1>10, <2>4, <5>1
        <4>3. toSummary(x, groups[x]) \in rows
          BY <4>2 DEF rows, RowsOf
        <4>4. QED
          BY <1>11, <2>1, <2>2, <3>3, <4>3
      <3>6. CASE x # k /\ x \notin swept
        <4>1. groups'[x] = groups[x]
          BY <1>7, <3>6
        <4>2. QED
          BY <2>1, <2>4, <3>1, <4>1
      <3>7. QED
        BY <3>4, <3>5, <3>6
    <2>5. QED
      BY <1>11, <2>1, <2>3, <2>4
  <1>15. QED
    BY <1>13, <1>14

\* No group was ever told more than it has counted.
LEMMA EmittedWithin ==
    ASSUME TypeOK, \A y \in Key : groups[y].emittedAt <= groups[y].attempts,
           NEW r \in Req, NEW b \in Budget, NEW n \in Nat, TurnOn(r, b, n), NEW x \in Key
    PROVE  groups'[x].emittedAt <= groups'[x].attempts
  <1> DEFINE k == req[r].key
             w == req[r].window
             attempt == Attempt(groups[k], w)
  <1>1. PICK swept \in SUBSET Stale(k, w) :
           \E final \in SUBSET (swept \cap Pending(k, w)) : Turn(r, b, swept, final)
    BY DEF TurnOn, RecordAndSweep
  <1>2. groups' = [y \in Key |-> IF y = k THEN GroupAfter(groups[k], w, b)
                                 ELSE IF y \in swept THEN NoGroup
                                 ELSE groups[y]]
    BY <1>1 DEF Turn
  <1>3. k \in Key /\ groups[k] \in DenialGroup /\ w \in Window
    BY DEF TypeOK
  <1>4. CASE x = k
    <2>1. groups[k].emittedAt \in Nat /\ groups[k].attempts \in Nat
      BY <1>3 DEF DenialGroup
    <2>2. attempt.emittedAt <= attempt.attempts
      <3>1. CASE groups[k].window = w
        <4>1. /\ attempt.emittedAt = groups[k].emittedAt
              /\ attempt.attempts = groups[k].attempts + 1
          BY <1>3, <3>1 DEF Attempt, DenialGroup
        <4>2. QED
          BY <1>3, <2>1, <4>1
      <3>2. CASE groups[k].window # w
        BY <3>2 DEF Attempt
      <3>3. QED
        BY <3>1, <3>2
    <2>3. attempt \in DenialGroup
      BY <1>3, GroupTypes
    <2>4. /\ Emitted(attempt).emittedAt = attempt.attempts
          /\ Emitted(attempt).attempts = attempt.attempts
      BY <2>3 DEF Emitted, DenialGroup
    <2>5. attempt.attempts \in Nat
      BY <2>3 DEF DenialGroup
    <2>6. groups'[x] \in {attempt, Emitted(attempt)}
      BY <1>2, <1>4 DEF GroupAfter
    <2>7. QED
      BY <2>2, <2>4, <2>5, <2>6
  <1>5. CASE x # k
    <2>1. groups'[x] \in {NoGroup, groups[x]}
      BY <1>2, <1>5
    <2>2. NoGroup.emittedAt <= NoGroup.attempts
      BY DEF NoGroup
    <2>3. QED
      BY <2>1, <2>2
  <1>6. QED
    BY <1>4, <1>5

LEMMA TotalKeptStep ==
    ASSUME TypeOK, TypeOK', GroupsCounted, FirstKnown, TotalKept, [Next]_vars
    PROVE  TotalKept'
  <1> SUFFICES ASSUME evictions' = 0
               PROVE  /\ \A x \in Key : groups'[x].emittedAt <= groups'[x].attempts
                      /\ \A x \in Key, v \in Window : TotalOf(x, v)'
    BY DEF TotalKept
  <1>1. /\ \A y \in Key : groups[y].emittedAt <= groups[y].attempts
        /\ \A y \in Key, v \in Window : TotalOf(y, v)
    BY NoEviction DEF TotalKept
  <1>2. CASE Quiet /\ groups' = groups
    <2>1. /\ table' = table /\ BeingInserted' = BeingInserted
          /\ counted' = counted /\ announced' = announced
      BY <1>2, QuietCarries DEF Quiet, historyVars
    <2>2. ASSUME NEW x \in Key, NEW v \in Window PROVE TotalOf(x, v)'
      <3>1. Clash(x, v) => Clash(x, v)'
        <4>1. \A q \in Req : req[q].phase = "recorded" =>
                                req'[q].phase = "recorded" /\ req'[q].rows = req[q].rows
          BY <1>2 DEF Quiet
        <4>2. QED
          BY <2>1, <4>1, ClashStays
      <3>2. TotalOf(x, v)
        BY <1>1
      <3>3. QED
        BY <1>2, <2>1, <3>1, <3>2 DEF TotalOf, Reported, Reports
    <2>3. QED
      BY <1>1, <1>2, <2>2
  <1>3. CASE \E r \in Req, b \in Budget, n \in Nat : TurnOn(r, b, n)
    <2>1. PICK r \in Req, b \in Budget, n \in Nat : TurnOn(r, b, n)
      BY <1>3
    <2>2. \A x \in Key : groups'[x].emittedAt <= groups'[x].attempts
      BY <1>1, <2>1, EmittedWithin
    <2>3. ASSUME NEW x \in Key, NEW v \in Window PROVE TotalOf(x, v)'
      BY <1>1, <2>1, TotalTurn
    <2>4. QED
      BY <2>2, <2>3
  <1>4. ASSUME NEW r \in Req, write(r)
        PROVE  /\ groups' = groups
               /\ \A x \in Key, v \in Window : TotalOf(x, v)'
    <2>1. /\ counted' = counted /\ announced' = announced /\ groups' = groups
          /\ table' = table \cup req[r].rows
          /\ req' = [req EXCEPT ![r] = Finished(req[r])] /\ req[r].phase = "recorded"
      BY <1>4, RequestType DEF write, historyVars, coordinatorVars
    <2>2. BeingInserted \subseteq BeingInserted' \cup req[r].rows
      BY <2>1, LeaveLemma
    <2>3. ASSUME NEW x \in Key, NEW v \in Window PROVE TotalOf(x, v)'
      <3>1. Clash(x, v) => Clash(x, v)'
        BY <1>4, ClashWrite
      <3>2. TotalOf(x, v)
        BY <1>1
      <3>3. Reported(x, v) => Reported(x, v)'
        BY <2>1, <2>2 DEF Reported, Reports
      <3>4. QED
        BY <2>1, <3>1, <3>2, <3>3 DEF TotalOf
    <2>4. QED
      BY <2>1, <2>3
  <1>5. ASSUME NEW r \in Req, SummariesLost(r)
        PROVE  /\ groups' = groups
               /\ \A x \in Key, v \in Window : TotalOf(x, v)'
    <2>1. /\ counted' = counted /\ table' = table /\ groups' = groups
          /\ announced' = announced \cup {<<row.key, row.window>> : row \in req[r].rows}
          /\ req' = [req EXCEPT ![r] = Finished(req[r])] /\ req[r].phase = "recorded"
      BY <1>5, RequestType DEF SummariesLost, coordinatorVars
    <2>2. BeingInserted \subseteq BeingInserted' \cup req[r].rows
      BY <2>1, LeaveLemma
    <2>3. ASSUME NEW x \in Key, NEW v \in Window PROVE TotalOf(x, v)'
      <3>1. CASE <<x, v>> \in announced'
        BY <3>1 DEF TotalOf
      <3>2. CASE <<x, v>> \notin announced'
        <4>1. <<x, v>> \notin announced
          BY <2>1, <3>2
        <4>2. Clash(x, v) => Clash(x, v)'
          BY <1>5, <3>2, ClashLost
        <4>3. TotalOf(x, v)
          BY <1>1
        <4>4. \A row \in req[r].rows : ~(row.key = x /\ row.window = v)
          BY <2>1, <3>2
        <4>5. Reported(x, v) => Reported(x, v)'
          BY <2>1, <2>2, <4>4 DEF Reported, Reports
        <4>6. QED
          BY <2>1, <4>1, <4>2, <4>3, <4>5 DEF TotalOf
      <3>3. QED
        BY <3>1, <3>2
    <2>4. QED
      BY <2>1, <2>3
  <1>6. QED
    BY <1>1, <1>2, <1>3, <1>4, <1>5, NoEviction

\* For any number of keys, windows, requests and faults, and in any order of
\* the windows: once a window's group is gone and its summaries are delivered,
\* a row told the true total or a loss was announced, unless the coordinator
\* was evicted (recordDenial, sweepClosedWindows, write).
THEOREM TotalIsReported == Spec => []TotalReported
  <1>1. Init => TypeOK /\ GroupsCounted /\ FirstKnown /\ TotalKept
    <2> SUFFICES ASSUME Init PROVE GroupsCounted /\ FirstKnown /\ TotalKept
      BY TypeInit
    <2>1. \A k \in Key, w \in Window : counted[k][w] = 0
      BY DEF Init
    <2>2. \A k \in Key : /\ groups[k].window = 0 /\ stored.groups[k].window = 0
                        /\ groups[k].emittedAt = 0 /\ groups[k].attempts = 0
      BY DEF Init, NoGroup
    <2>3. 0 \notin Window
      BY DEF Window
    <2>4. GroupsCounted /\ FirstKnown
      BY <2>1, <2>2, <2>3 DEF GroupsCounted, FirstKnown
    <2>5. \A k \in Key, w \in Window : TotalOf(k, w)
      BY <2>1 DEF TotalOf
    <2>6. QED
      BY <2>2, <2>4, <2>5 DEF TotalKept
  <1>2. /\ TypeOK /\ GroupsCounted /\ FirstKnown /\ TotalKept /\ [Next]_vars
        => TypeOK' /\ GroupsCounted' /\ FirstKnown' /\ TotalKept'
    BY StepLemma, GroupsCountedStep, FirstKnownStep, TotalKeptStep
  <1>3. TypeOK /\ TotalKept => TotalReported
    <2> SUFFICES ASSUME TypeOK, TotalKept, evictions = 0, NEW k \in Key, NEW w \in Window,
                        counted[k][w] > 0, groups[k].window # w,
                        \A row \in BeingInserted : ~(row.key = k /\ row.window = w),
                        <<k, w>> \notin announced
                 PROVE  \E row \in table : /\ row.key = k /\ row.window = w
                                           /\ row.attempts >= counted[k][w]
      BY DEF TotalReported
    <2>1. ~Clash(k, w)
      <3> SUFFICES ASSUME Clash(k, w) PROVE FALSE
        OBVIOUS
      <3>1. PICK r \in Req : \E row \in req[r].rows :
               req[r].phase = "recorded" /\ row.key = k /\ row.window = w
        BY DEF Clash
      <3>2. QED
        BY <3>1, Carried
    <2>2. Reported(k, w)
      BY <2>1 DEF TotalKept, TotalOf
    <2>3. QED
      BY <2>2 DEF Reported, Reports
  <1>4. QED
    BY <1>1, <1>2, <1>3, PTL DEF Spec
=============================================================================
