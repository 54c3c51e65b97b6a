--------------------------- MODULE InvitationLives ---------------------------
(***************************************************************************)
(* What the invitations of an Organization promise, without a sweep.       *)
(*                                                                         *)
(* An invitation is open until an instant that is fixed when it is made,   *)
(* and over from that instant on, at the instant itself: time alone ends   *)
(* it, and nothing else does.  The address it was sent to may be forgotten *)
(* once it is over, and not before.                                        *)
(***************************************************************************)
EXTENDS Integers

CONSTANTS
    Invitation, \* identifiers of invitations
    Never       \* the end of one that was not made

VARIABLES
    now,    \* the clock
    ends,   \* ends[i]: the instant i is over, or Never
    life,   \* life[i]: what a reader is told of i
    address \* address[i]: the address of i is kept

vars == <<now, ends, life, address>>

Made(i) == ends[i] # Never

\* What the clock says of an invitation that ends then.
LifeAt(end, t) == IF end <= t THEN "expired" ELSE "pending"

Init ==
    /\ now = 0
    /\ ends \in [Invitation -> Nat \cup {Never}]
    /\ life = [i \in Invitation |-> IF Made(i) THEN LifeAt(ends[i], now) ELSE "none"]
    /\ address = [i \in Invitation |-> Made(i)]

\* It gets an end; one that is made late may be over already.
Make(i) ==
    /\ ~ Made(i)
    /\ ends'[i] \in Nat
    /\ ends' = [ends EXCEPT ![i] = ends'[i]]
    /\ life' = [life EXCEPT ![i] = LifeAt(ends'[i], now)]
    /\ address' = [address EXCEPT ![i] = TRUE]
    /\ UNCHANGED now

Forget ==
    /\ \E some \in SUBSET {i \in Invitation : life[i] = "expired"} :
          address' = [i \in Invitation |-> address[i] /\ i \notin some]
    /\ UNCHANGED <<now, ends, life>>

Tick ==
    /\ now' = now + 1
    /\ life' = [i \in Invitation |-> IF Made(i) THEN LifeAt(ends[i], now + 1) ELSE "none"]
    /\ UNCHANGED <<ends, address>>

Next == (\E i \in Invitation : Make(i)) \/ Forget \/ Tick

Spec == Init /\ [][Next]_vars
=============================================================================
