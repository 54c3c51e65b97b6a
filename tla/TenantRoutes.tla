---------------------------- MODULE TenantRoutes ----------------------------
(***************************************************************************)
(* The route tables of tenant administration: what a table must satisfy    *)
(* to be registered, and which of its routes a request reaches.            *)
(*                                                                         *)
(* A table is a sequence of routes with the operations a confirmation may  *)
(* be asked for and the permissions each of them needs.  The table the     *)
(* source ships is empty; every check is a function of the table, and the  *)
(* day a route is added the checks decide about it when the module loads.  *)
(***************************************************************************)
EXTENDS Integers, Sequences

CONSTANTS
    MembershipRole,  \* MEMBERSHIP_ROLES
    Permission,      \* identifiers of permissions
    Critical,        \* criticalPermissions
    Envelope,        \* TENANT_ADMIN_PERMISSION_ENVELOPE: what the class may need at all
    Grants,          \* Grants[r]: grantsForRole
    Name,            \* names of fields and parameters
    Vocabulary,      \* TENANT_ADMIN_REQUEST_VOCABULARY
    OrganizationShaped, \* the names that name an Organization
    Identifier,      \* the texts of IDENTIFIER_PATTERN
    Base,            \* TENANT_ADMIN_BASE_PATH, one segment
    MaxPageSize      \* TENANT_ADMIN_MAX_PAGE_SIZE

ASSUME RoutesAssumption ==
    /\ Critical \subseteq Permission
    /\ Envelope \subseteq Permission
    /\ Grants \in [MembershipRole -> SUBSET Permission]
    /\ Vocabulary \subseteq Name
    /\ MaxPageSize \in Nat \ {0}

-----------------------------------------------------------------------------
\* Routes.  A segment of a path is a literal or a parameter.

Literal(text) == [is |-> "literal", text |-> text]
Parameter(name) == [is |-> "parameter", text |-> name]

AllOf(permissions) == [kind |-> "all-of", needs |-> permissions]
FromBody == [kind |-> "from-body", needs |-> {}]

CHALLENGE == "tenant.confirmations.request"

\* The names of a path's parameters.
PathParameters(path) ==
    {path[k].text : k \in {i \in DOMAIN path : path[i].is = "parameter"}}

Routes(table) == {table.routes[k] : k \in DOMAIN table.routes}
Confirmable(table) == DOMAIN table.confirmable

\* conjunctionsOf: what a route may turn out to need.
Conjunctions(table, route) ==
    IF route.permission.kind = "all-of" THEN {route.permission.needs}
    ELSE {table.confirmable[id] : id \in Confirmable(table)}

\* isConfirmationGated: any critical permission makes the whole route critical;
\* a route that takes its permission from the body is not gated itself.
IsConfirmationGated(route) ==
    route.permission.kind = "all-of" /\ route.permission.needs \cap Critical # {}

\* buildTenantAdminChallengeRoute: it accepts what its targets accept.
ChallengeRoute(routes, confirmable) ==
    LET targets == {r \in {routes[k] : k \in DOMAIN routes} : r.id \in DOMAIN confirmable}
    IN  [id |-> CHALLENGE, method |-> "POST",
         path |-> <<Literal(Base), Literal("confirmations")>>,
         permission |-> FromBody,
         fields |-> {"action_id", "locale"}
                       \cup UNION {r.fields \cup PathParameters(r.path) : r \in targets},
         parameters |-> {}, bound |-> [kind |-> "no-collection"],
         audited |-> FALSE]

\* What the source's types say of a table, and that the route under the name of
\* the challenge is the one that is built.
WellFormed(table) ==
    /\ Len(table.routes) \in Nat /\ DOMAIN table.routes = 1 .. Len(table.routes)
    /\ \A r \in Routes(table) :
          /\ r.path \in Seq([is : {"literal", "parameter"}, text : STRING])
          /\ r.permission.needs \subseteq Permission
          /\ r.id = CHALLENGE => r.permission = FromBody
    /\ \A id \in Confirmable(table) : table.confirmable[id] \subseteq Permission

-----------------------------------------------------------------------------
\* Registration.

\* assertRequestVocabularyNamesNoOrganization,
\* assertNoOrganizationIdentifierInAnyRequestPosition.
NamesNoOrganization(table) ==
    /\ Vocabulary \cap OrganizationShaped = {}
    /\ \A r \in Routes(table) :
          r.fields \cup r.parameters \cup PathParameters(r.path)
             \subseteq Vocabulary \ OrganizationShaped

\* assertEveryReadShapeIsBounded: a page cap with its two parameters, or no
\* paging at all.
ReadsAreBounded(table) ==
    \A r \in Routes(table) :
        \/ /\ r.bound.kind = "page-cap"
           /\ r.bound.max \in 1 .. MaxPageSize
           /\ {"page_size", "cursor"} \subseteq r.parameters
        \/ /\ r.bound.kind = "bounding-index"
           /\ r.bound.max >= 1
           /\ "page_size" \notin r.parameters
        \/ /\ r.bound.kind = "no-collection"
           /\ "page_size" \notin r.parameters

\* assertEveryMutationIsAudited.
MutationsAreAudited(table) ==
    \A r \in Routes(table) : r.method # "GET" => r.audited

\* assertEveryRoutePermissionIsReachable: every permission is in the envelope,
\* and some role holds it.
PermissionsAreReachable(table) ==
    \A r \in Routes(table) :
        /\ Conjunctions(table, r) # {}
        /\ \A needs \in Conjunctions(table, r), p \in Permission :
              p \in needs => /\ p \in Envelope
                             /\ \E role \in MembershipRole : p \in Grants[role]

\* assertNoRouteConjunctionIsUnsatisfiable: one role holds them together.
ConjunctionsAreSatisfiable(table) ==
    \A r \in Routes(table) : \A needs \in Conjunctions(table, r) :
        \E role \in MembershipRole : needs \subseteq Grants[role]

\* assertGatedRoutesCanObtainAConfirmation,
\* assertChallengeRouteIsRegisteredWhenConfirmableOperationsExist.
ConfirmationsAreObtainable(table) ==
    /\ \A r \in Routes(table) : IsConfirmationGated(r) => r.id \in Confirmable(table)
    /\ Confirmable(table) # {} => \E r \in Routes(table) : r.id = CHALLENGE

\* assertNoCriticalRouteHasQueryParameters.
GatedReadNoQuery(table) ==
    \A r \in Routes(table) : IsConfirmationGated(r) => r.parameters = {}

\* Mutant: only two paths that are the same are taken to collide.
TheSame(e, c) == e = c

\* Path e, declared earlier, covers path c.
Shadows(e, c) ==
    /\ Len(e) = Len(c)
    /\ \A k \in DOMAIN e : IF e[k].is = "parameter" THEN c[k].is = "literal"
                           ELSE e[k] = c[k]

\* assertNoLiteralShadowedByParameter.
NoLiteralIsShadowed(table) ==
    \A later \in DOMAIN table.routes : \A earlier \in 1 .. later - 1 :
        table.routes[earlier].method = table.routes[later].method =>
            ~ Shadows(table.routes[earlier].path, table.routes[later].path)

\* assertEveryRouteIsUnderTheBasePath.
UnderTheBasePath(table) ==
    \A r \in Routes(table) : r.path # <<>> /\ r.path[1] = Literal(Base)

\* The module loads with this table.
Registered(table) ==
    /\ NamesNoOrganization(table)
    /\ ReadsAreBounded(table)
    /\ MutationsAreAudited(table)
    /\ PermissionsAreReachable(table)
    /\ ConjunctionsAreSatisfiable(table)
    /\ ConfirmationsAreObtainable(table)
    /\ GatedReadNoQuery(table)
    /\ NoLiteralIsShadowed(table)
    /\ UnderTheBasePath(table)

-----------------------------------------------------------------------------
\* Requests.

\* matchTenantAdminRoute: the first route whose method and path fit; a
\* parameter takes an identifier and nothing else.
Fits(route, method, path) ==
    /\ route.method = method
    /\ Len(route.path) = Len(path)
    /\ \A k \in DOMAIN path :
          IF route.path[k].is = "parameter" THEN path[k] \in Identifier
          ELSE route.path[k].text = path[k]

Matching(table, method, path) ==
    {k \in DOMAIN table.routes :
        /\ Fits(table.routes[k], method, path)
        /\ \A j \in 1 .. k - 1 : ~ Fits(table.routes[j], method, path)}

\* parseQuery: query is the sequence of the names sent.
QueryAccepted(route, query) ==
    /\ \A k \in DOMAIN query : query[k] \in route.parameters
    /\ \A j, k \in DOMAIN query : query[j] = query[k] => j = k

\* Mutant: the last permission asked decides.
LastDecides(needs, grants) == \E p \in needs : p \in grants \cap Envelope

\* authorize, over every permission of the conjunction: held, and in the
\* envelope.
Allowed(needs, grants) == needs \subseteq grants \cap Envelope

\* What each check refuses by itself, taken together: a literal path reaches
\* the route that declares it; one role can pass its conjunction whole; and a
\* gated route has a challenge route that knows it, and takes nothing from the
\* query, which no confirmation covers.
Serves(table) ==
    \A k \in DOMAIN table.routes :
        LET route == table.routes[k]
        IN  /\ PathParameters(route.path) = {} =>
                  Matching(table, route.method,
                           [i \in DOMAIN route.path |-> route.path[i].text]) = {k}
            /\ \A needs \in Conjunctions(table, route) :
                  \E role \in MembershipRole : Allowed(needs, Grants[role])
            /\ IsConfirmationGated(route) =>
                  /\ route.parameters = {}
                  /\ \E r \in Routes(table) :
                        r.id = CHALLENGE /\ table.confirmable[route.id]
                                               \in Conjunctions(table, r)
=============================================================================
