---------------------------- MODULE MCTenantAdmin ----------------------------
(* TenantAdmin for TLC: an owner, an administrator, a business administrator *)
(* who holds the one custom role besides, and one of a role this build does  *)
(* not know; tables that register, and tables each of which fails one check. *)
EXTENDS TenantAdmin, TLC

CONSTANTS olga, adam, mia, noor, desk, r1, r2

\* As in roles.ts: an administrator holds what the owner holds; the permission
\* an administrator has and a business-admin lacks is critical here.
MCRole == {"owner", "admin", "business-admin", "member"}
MCPermission == {"read", "write", "move", "rare"}
MCGrants == [r \in MCRole |->
    IF r = "member" THEN {"read"}
    ELSE IF r = "business-admin" THEN {"read", "write"}
    ELSE {"read", "write", "move"}]
MCVocabulary == {"page_size", "cursor", "locale", "action_id"}
MCName == MCVocabulary \cup {"organization_id"}

MCPrincipal == {olga, adam, mia, noor}
MCCustom == {desk}
MCInitialRole == [p \in MCPrincipal |->
    IF p = olga THEN "owner" ELSE IF p = adam THEN "admin"
    ELSE IF p = mia THEN "business-admin" ELSE "unknown"]
\* It grants mia what her role does not.
MCInitialAssigned == [p \in MCPrincipal |-> IF p = mia THEN MCCustom ELSE {}]
MCInitialContent == [c \in MCCustom |-> {"move"}]

\* Routes.
NoBound == [kind |-> "no-collection"]
Listing == [id |-> LIST, method |-> "GET",
            path |-> <<Literal("organization"), Literal("invitations")>>,
            permission |-> AllOf({"read"}), fields |-> {},
            parameters |-> {"page_size", "cursor"},
            bound |-> [kind |-> "page-cap", max |-> 2], audited |-> FALSE]
Inviting == [id |-> INVITE, method |-> "POST",
             path |-> <<Literal("organization"), Literal("invitations")>>,
             permission |-> AllOf({"read", "write"}), fields |-> {"locale"},
             parameters |-> {}, bound |-> NoBound, audited |-> TRUE]
Transfer == [id |-> "tenant.owner.transfer", method |-> "POST",
             path |-> <<Literal("organization"), Literal("owner")>>,
             permission |-> AllOf({"read", "move"}), fields |-> {},
             parameters |-> {}, bound |-> NoBound, audited |-> TRUE]
\* One member, at any path of two segments: declared before Inviting's it would
\* cover a listing of the same method.
Member == [Listing EXCEPT !.id = "tenant.members.get",
              !.path = <<Literal("organization"), Parameter("cursor")>>,
              !.parameters = {}, !.bound = NoBound]
\* The route a confirmation is asked on, declared as an audited one.
Challenge(confirmable) ==
    [ChallengeRoute(<<Transfer>>, confirmable) EXCEPT !.audited = TRUE]

Nothing == [id \in {} |-> {}]
Critically == [id \in {Transfer.id} |-> {"read", "move"}]

Table(routes, confirmable) == [routes |-> routes, confirmable |-> confirmable]

\* The tables that register.
Plain == Table(<<Inviting, Listing>>, Nothing)
Full == Table(<<Inviting, Transfer, Challenge(Critically), Member>>, Critically)

\* And tables that fail: an unaudited challenge route, as it is built; a gated
\* route without one, and with a query; a shadowed literal; a conjunction no
\* role holds; a permission nobody holds; a name of an Organization; a listing
\* without a bound; a route of another part of the API.
Failing ==
    {Table(<<Transfer, ChallengeRoute(<<Transfer>>, Critically)>>, Critically),
     Table(<<Transfer>>, Nothing),
     Table(<<[Transfer EXCEPT !.parameters = {"cursor"}], Challenge(Critically)>>,
           Critically),
     Table(<<Member, Listing>>, Nothing),
     Table(<<[Listing EXCEPT !.permission = AllOf({"read", "rare"})]>>, Nothing),
     Table(<<[Listing EXCEPT !.parameters = @ \cup {"organization_id"}]>>, Nothing),
     Table(<<[Listing EXCEPT !.bound = NoBound]>>, Nothing),
     Table(<<[Listing EXCEPT !.path = <<Literal("platform"), Literal("x")>>]>>, Nothing)}
MCTables == {Plain, Full} \cup Failing

\* What is asked: an invitation, by everybody, of two offers; the other routes
\* once each; and requests that are refused for their shape.
Asks(by, route, query, id) ==
    [by |-> by, method |-> route.method,
     path |-> [k \in DOMAIN route.path |-> route.path[k].text],
     query |-> query, body |-> {}, id |-> id,
     offer |-> [role |-> "business-admin", custom |-> MCCustom]]

MCAsked ==
    {Asks(p, Inviting, <<>>, "none") : p \in {mia, noor, "nobody"}}
        \cup {Asks(adam, Transfer, <<>>, "none"),
              Asks(adam, Challenge(Critically), <<>>, Transfer.id),
              Asks(adam, Challenge(Critically), <<>>, "else"),
              Asks(olga, Listing, <<"page_size", "page_size">>, "none"),
              [Asks(olga, Member, <<>>, "none") EXCEPT !.path = <<"organization", "m1">>],
              [Asks(olga, Member, <<>>, "none") EXCEPT !.path = <<"organization", "?">>]}
MCIdentifier == {"m1", "invitations", "owner"}
MCHandled == {INVITE, Transfer.id, Listing.id}

MCInvitation == 1 .. 4
MCInitialInvitations == [i \in MCInvitation |->
    IF i \in {1, 3}
    THEN [status |-> "pending", address |-> TRUE, created |-> 0,
          expires |-> i % 3, by |-> "earlier",
          offer |-> [role |-> "member", custom |-> {}]]
    ELSE NoInvitation]

Symmetry == Permutations({r1, r2})
=============================================================================
