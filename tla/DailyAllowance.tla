--------------------------- MODULE DailyAllowance ---------------------------
(***************************************************************************)
(* What the write budget promises, without coordinators, ledger, permits   *)
(* or messages: on each UTC day every Organization may reserve up to its   *)
(* ceiling, and all of them together up to the day's allocation.  What is  *)
(* reserved is never given back, and no day but the current one is         *)
(* charged.                                                                *)
(***************************************************************************)
EXTENDS Integers, Functions

CONSTANTS Org, LastDay, OrgCeiling, Allocation

VARIABLES today, charged

Day == 1 .. LastDay

Total(d) == SumFunctionOnSet([o \in Org |-> charged[o][d]], Org)

Init ==
    /\ today = 1
    /\ charged = [o \in Org |-> [d \in Day |-> 0]]

Reserve(o, units) ==
    /\ charged[o][today] + units <= OrgCeiling
    /\ Total(today) + units <= Allocation
    /\ charged' = [charged EXCEPT ![o][today] = @ + units]
    /\ UNCHANGED today

NextDay ==
    /\ today < LastDay
    /\ today' = today + 1
    /\ UNCHANGED charged

Next == NextDay \/ \E o \in Org, units \in 1 .. OrgCeiling : Reserve(o, units)

Spec == Init /\ [][Next]_<<today, charged>>
=============================================================================
