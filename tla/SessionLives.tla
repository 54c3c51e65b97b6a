---------------------------- MODULE SessionLives ----------------------------
(***************************************************************************)
(* What the session store promises of a session, without requests: it is   *)
(* opened once, for one principal and one lifetime; while it is stored it  *)
(* may be turned to an Organization; it ends for good, alone or together   *)
(* with other sessions of the same principal and of no other.              *)
(***************************************************************************)
EXTENDS Integers

CONSTANTS Sid, Principal, Org, Lifetime, LastTime

VARIABLES clock, life

vars == <<clock, life>>

Stored(p) == {s \in Sid : life[s].state = "stored" /\ life[s].by = p}

Init ==
    /\ clock = 0
    /\ \A s \in Sid : \/ life[s].state = "unopened"
                      \/ life[s].state = "stored" /\ life[s].expires <= Lifetime

Open(s, p, expires) ==
    /\ life[s].state = "unopened"
    /\ expires <= clock + Lifetime
    /\ life' = [life EXCEPT ![s] = [state |-> "stored", by |-> p,
                                    org |-> "none", expires |-> expires]]
    /\ UNCHANGED clock

Turn(s, o) ==
    /\ life[s].state = "stored"
    /\ life' = [life EXCEPT ![s].org = o]
    /\ UNCHANGED clock

End(p, ended) ==
    /\ ended \subseteq Stored(p)
    /\ life' = [s \in Sid |-> IF s \in ended THEN [life[s] EXCEPT !.state = "ended"]
                              ELSE life[s]]
    /\ UNCHANGED clock

Tick == clock < LastTime /\ clock' = clock + 1 /\ UNCHANGED life

Next ==
    \/ \E s \in Sid, p \in Principal, expires \in 0 .. LastTime + Lifetime :
          Open(s, p, expires)
    \/ \E s \in Sid, o \in Org : Turn(s, o)
    \/ \E p \in Principal : \E ended \in SUBSET Stored(p) : End(p, ended)
    \/ Tick

Spec == Init /\ [][Next]_vars
=============================================================================
