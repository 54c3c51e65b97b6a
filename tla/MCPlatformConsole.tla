-------------------------- MODULE MCPlatformConsole --------------------------
(* PlatformConsole for TLC: three principals, two Templates and two           *)
(* Organizations of which one each is yet to be.                              *)
EXTENDS PlatformConsole, TLC

CONSTANTS ann, ben, mod, school, clinic, acme, newco, admin, plain, special

MCPrincipal == {ann, ben, mod}

\* Two administrators; or one, beside a moderator, or beside an operator of a
\* role that only a later build knows.
MCInitialRoles ==
    {(ann :> "platform-admin") @@ (ben :> "platform-admin") @@ (mod :> "none")}
        \cup {(ann :> "platform-admin") @@ (ben :> "none") @@ (mod :> role) :
                 role \in {"marketplace-moderator", "unknown"}}
MCTemplate == {school, clinic}
MCInitialTemplate ==
    (school :> [name |-> "School", labels |-> plain, status |-> "active"])
        @@ (clinic :> NoTemplate)
MCOrg == {acme, newco}
MCInitialOrg == (acme :> "null") @@ (newco :> "absent")

\* The calls that meet: on the Template, on the Organization, on the
\* operators, on the login identifier.
MCAsked ==
    [kind : {"create"}, name : {"School", "Clinic"}, labels : {plain}]
        \cup [kind : {"update"}, template : {school},
              name : {"same", "Clinic"}, labels : {"same", special}]
        \cup [kind : {"retire", "restore"}, template : {school}]
        \cup [kind : {"assign"}, org : {acme}, template : {school, "null"}]
        \cup [kind : {"identity", "probe"}, org : {acme}]
        \cup [kind : {"revoke"}, target : {ann, ben}]
        \cup [kind : {"onboard"}, identifier : {admin}, template : {school}]
        \cup [kind : {"serve"}]

Symmetry == Permutations(Req)
=============================================================================
