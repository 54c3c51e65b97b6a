---------------------------- MODULE MCAdminGate -----------------------------
(* AdminGate for TLC: two operations of one operator, one of another client. *)
EXTENDS AdminGate, TLC

CONSTANTS revoke, reset, theirs, alice, bob

MCBinding == {revoke, reset, theirs}
MCPrincipal == {alice, bob}
MCOwner == (revoke :> alice) @@ (reset :> alice) @@ (theirs :> bob)
MCDoes == (revoke :> "revoke") @@ (reset :> "reset") @@ (theirs :> "revoke")

Symmetry == Permutations(Req)
=============================================================================
