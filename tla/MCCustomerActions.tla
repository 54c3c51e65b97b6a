------------------------- MODULE MCCustomerActions -------------------------
(* CustomerActions for TLC: two requests over two customers of the          *)
(* Organization and one of another, with equal names to break ties.         *)
EXTENDS CustomerActions, TLC

CONSTANTS b1, b2, theirs, owner, clerk

MCBusiness == {b1, b2}
MCReq == {1, 2}
MCNewId == [q \in MCReq |-> 3 + q]

\* The owner holds everything at organization scope; the clerk edits and
\* moves, in one business, and does not restore.
MCGrants ==
    (owner :> [op \in Op |-> "organization"])
    @@ (clerk :> [op \in Op |-> IF op = "restore" THEN "none"
                                ELSE IF op = "move" THEN "organization"
                                ELSE "business"])
MCAssigned == (owner :> OrgWide) @@ (clerk :> {b1})

Sent(op, target, asked) == [op |-> op, target |-> target, asked |-> asked]
Filters(within, statuses, match) ==
    [within |-> within, statuses |-> statuses, match |-> match]
AllMatch == Name \X Mail
\* A query matches by name or by address.
Matched(name, mail) == {k \in AllMatch : k[1] = name \/ k[2] = mail}

MCInput ==
    {Sent("create", 0, [business |-> b, name |-> 2, mail |-> 1]) :
        b \in {b1, b2, theirs}}
    \cup {Sent("get", c, Nothing) : c \in {0, 1, 3}}
    \cup {Sent("update", 1, a) : a \in
            {[name |-> 1], [name |-> 2], [mail |-> 2], [name |-> 2, mail |-> 1]}}
    \cup {Sent("update", 3, [mail |-> 2])}
    \cup {Sent("archive", c, Nothing) : c \in {1, 2}}
    \cup {Sent("restore", 1, Nothing)}
    \cup {Sent("move", 1, [business |-> b]) : b \in {b1, b2, theirs}}
    \cup {Sent("list", 0, f) : f \in
            {Filters(OrgWide, {"active"}, AllMatch), Filters(OrgWide, Status, AllMatch),
             Filters(b1, {"active"}, AllMatch), Filters(theirs, Status, AllMatch)}}
    \cup {Sent("search", 0, Filters(OrgWide, {"active"}, Matched(1, 1)))}

OwnRow(b, s) == [org |-> "own", business |-> b, status |-> s,
                 name |-> 1, mail |-> 1]
MCTables ==
    {<<OwnRow(b, s), OwnRow(b1, "active"),
       [OwnRow(theirs, "active") EXCEPT !.org = "other"]>> :
        b \in {b1, b2}, s \in Status}
=============================================================================
