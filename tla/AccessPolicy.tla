----------------------------- MODULE AccessPolicy -----------------------------
(***************************************************************************)
(* Who may see which table.  The server decides this twice, in two files   *)
(* and by two computations: auth/identity.py collapses a caller's roles to *)
(* a tier, which list_tables, describe_table and get_audit_log test, and   *)
(* guardrails/query_guard.py ranks the same roles by number and compares   *)
(* the rank with the table's requirement before a query may run.           *)
(***************************************************************************)
EXTENDS Naturals

CONSTANT DbRoles      \* the role names that start with "db_"

KnownRoles == {"db_admin", "db_analyst", "db_readonly"}

ASSUME DbRolesAssumption == KnownRoles \subseteq DbRoles

-----------------------------------------------------------------------------
(* auth/identity.py: claims to UserContext *)

\* The realm roles of a token that the server keeps: those named "db_...".
db_roles(realm_roles) == realm_roles \cap DbRoles

\* Faulty variant: the analyst role is tested first.
BugAnalystFirst(roles) ==
    IF "db_analyst" \in roles THEN "db_analyst"
    ELSE IF "db_admin" \in roles THEN "db_admin"
    ELSE "db_readonly"

\* The highest tier the roles hold; no known role at all means read-only.
role_tier(roles) ==
    IF "db_admin" \in roles THEN "db_admin"
    ELSE IF "db_analyst" \in roles THEN "db_analyst"
    ELSE "db_readonly"

can_access_sensitive(roles) == role_tier(roles) \in {"db_admin", "db_analyst"}

can_access_admin(roles) == role_tier(roles) = "db_admin"

\* The tables list_tables keeps in its answer and describe_table agrees to describe.
ToolMayShow(roles, table) ==
    /\ table = "audit_logs" => can_access_admin(roles)
    /\ table = "employees" => can_access_sensitive(roles)

-----------------------------------------------------------------------------
(* guardrails/query_guard.py: roles to a level, tables to a required level *)

ROLE_ORDER == [db_admin |-> 3, db_analyst |-> 2, db_readonly |-> 1]

RoleLevel(role) == IF role \in DOMAIN ROLE_ORDER THEN ROLE_ORDER[role] ELSE 0

\* max(..., default=0) over the caller's roles.
user_level(roles) ==
    LET levels == {0} \cup {RoleLevel(r) : r \in roles}
    IN  CHOOSE top \in levels : \A other \in levels : other <= top

TABLE_ACCESS == [employees |-> "db_analyst", audit_logs |-> "db_admin"]

TablesAllowed(roles, tables) ==
    \A t \in tables \cap DOMAIN TABLE_ACCESS :
        user_level(roles) >= RoleLevel(TABLE_ACCESS[t])
=============================================================================
