----------------------------- MODULE MCGuardrails -----------------------------
(* Small instances of Guardrails: role sets and query shapes for TLC. *)
EXTENDS Guardrails, TLC

\* "db_guest" stands for any db_ role the server does not know.
MCDbRoles == KnownRoles \cup {"db_guest"}

\* No role, an unknown one, the middle one, and an admin who is more than that.
SomeRoleSets == {{}, {"db_guest"}, {"db_analyst"}, {"db_admin", "db_analyst"}}

Number(n, place) == [read |-> n, n |-> n, capped |-> MAX_ROWS, place |-> place]
Top(n) == Number(n, "top")
Sub(n) == Number(n, "sub")
Text(n) == Number(n, "text")

\* Limits below, at and above the cap, at top level, in subqueries and in
\* strings, and limits that are more than the number read.
Small == MAX_ROWS - 1
Big == MAX_ROWS + 1

\* LIMIT n+Big
Plus(n) == [read |-> n, n |-> n + Big, capped |-> MAX_ROWS + Big, place |-> "top"]

LimitLists ==
    {<<>>}
    \cup {<<Top(n)>> : n \in {Small, MAX_ROWS, Big}}
    \cup {<<Sub(n)>> : n \in {Small, Big}}
    \cup {<<Text(n)>> : n \in {Small, Big}}
    \cup {<<Plus(n)>> : n \in {Small, Big}}
    \cup {<<Sub(n), Top(m)>> : n \in {Small, Big}, m \in {Small, Big}}

Plain(tables, limits) ==
    [stmts |-> 1, type |-> "SELECT", keywords |-> {}, tables |-> tables,
     limits |-> limits, commented |-> FALSE]

\* A query of each shape the checks distinguish.
ShapeQueries ==
    {Plain(tables, <<>>) : tables \in {{"customers"}, {"employees"}, {"customers", "audit_logs"}}}
    \cup {Plain({"customers"}, limits) : limits \in LimitLists}
    \cup {[Plain({"customers"}, limits) EXCEPT !.commented = TRUE] : limits \in {<<>>, <<Top(Big)>>}}
    \cup {[Plain({}, <<>>) EXCEPT !.stmts = 0],
          [Plain({"customers"}, <<>>) EXCEPT !.stmts = 2],
          [Plain({"customers"}, <<>>) EXCEPT !.type = "UPDATE"],
          [Plain({"customers"}, <<>>) EXCEPT !.keywords = {"DELETE"}]}

UserSymmetry == Permutations(UserIds)
===============================================================================
