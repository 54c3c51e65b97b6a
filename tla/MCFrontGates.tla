---------------------------- MODULE MCFrontGates ----------------------------
(* FrontGates for TLC: three Organizations and one source, one runtime. *)
EXTENDS FrontGates, TLC

MCEntryPoint == {"login.start", "login.complete", "session.refresh", "health"}
MCEntryLimit == [e \in MCEntryPoint |-> IF e \in identifierField THEN 2 ELSE 1]

\* The two gates share nothing but the clock, so each is explored by itself:
\* the attempts with the ports the Worker composes, with a recorder too, and
\* with neither port.
MCSetups == {<<{}, {"app"}>>, <<{"bucketer"}, {"attempt"}>>,
             <<{"bucketer", "evidence"}, {"attempt"}>>, <<{}, {"attempt"}>>}

\* An idle request carries one Organization, which is left where it is.
Symmetry == Permutations(Req) \cup Permutations(Org \ {Idle.org})
=============================================================================
