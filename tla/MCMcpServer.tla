----------------------------- MODULE MCMcpServer ------------------------------
(* Small instances of McpServer for TLC. *)
EXTENDS McpServer, TLC

CONSTANTS r1, r2, r3, c1, c2, alice, bob

MCDbRoles == KnownRoles

Alice == [user |-> alice, roles |-> {"db_admin"}]
Bob == [user |-> bob, roles |-> {"db_analyst"}]

OneAdmin == {Alice}
AdminAndAnalyst == {Alice, Bob}

\* A sub claim of its own in each user's tokens.
OwnSub == [u \in {alice, bob} |-> IF u = alice THEN "a" ELSE "b"]

Select(tables, columns) ==
    [stmts |-> 1, type |-> "SELECT", keywords |-> {}, tables |-> tables,
     limits |-> <<>>, commented |-> FALSE, columns |-> columns]

\* One query that is always allowed, and two only an admin's or nobody's.
SsnQuery == Select({"customers"}, <<"ssn">>)
LogQuery == Select({"audit_logs"}, <<"tool_name">>)

OneQuery == {SsnQuery}
TwoQueries == {SsnQuery, LogQuery}

CallSymmetry == Permutations(Reqs) \cup Permutations(Conns)
===============================================================================
