----------------------------- MODULE MCSessions -----------------------------
(* Sessions for TLC: a member of one Organization with two sessions, and a   *)
(* bystander.                                                                *)
EXTENDS Sessions, TLC

CONSTANTS ann, ben, acme, s1, s2, s3

MCPrincipal == {ann, ben}
MCOrg == {acme}
MCFirst == {s1, s2, s3}

Row(p, o, expires) == [state |-> "stored", by |-> p, org |-> o,
                       expires |-> expires, key |-> "first"]
MCInitialSessions ==
    [s \in MCFirst \cup Req |->
        IF s = s1 THEN Row(ann, acme, 1)
        ELSE IF s = s2 THEN Row(ann, "none", 2)
        ELSE IF s = s3 THEN Row(ben, "none", 2)
        ELSE [Row(ann, "none", 0) EXCEPT !.state = "unopened"]]
MCInitialMembers == [p \in MCPrincipal |->
    [o \in MCOrg |-> IF p = ann THEN "active" ELSE "none"]]

MCAsked ==
    [kind : {"login"}, target : {ann}, key : {"first"} \cup Req]
        \cup [kind : {"resolve"}, sid : {s1} \cup Req]
        \cup [kind : {"principal", "enterable"}, sid : {s1} \cup Req]
        \cup [kind : {"logout"}, sid : {s1} \cup Req]
        \cup [kind : {"select"}, sid : {s1, s2} \cup Req, org : {acme}]
        \cup [kind : {"reset"}, target : {ann}]

Symmetry == Permutations(Req)
=============================================================================
