-------------------------- MODULE AccessPolicyProofs --------------------------
(***************************************************************************)
(* The two judgements of a set of roles, by tier in auth/identity.py and   *)
(* by rank in guardrails/query_guard.py, are one and the same.             *)
(***************************************************************************)
EXTENDS AccessPolicy, TLAPS

(* The rank of the highest role and the tier are the same judgement.       *)
LEMMA LevelMatchesTier ==
    ASSUME NEW roles
    PROVE  /\ user_level(roles) \in 0 .. 3
           /\ user_level(roles) >= 3 <=> can_access_admin(roles)
           /\ user_level(roles) >= 2 <=> can_access_sensitive(roles)
<1> DEFINE levels == {0} \cup {RoleLevel(r) : r \in roles}
           top == CHOOSE t \in levels : \A other \in levels : other <= t
<1>1. \A r : /\ RoleLevel(r) \in 0 .. 3
             /\ RoleLevel(r) = 3 <=> r = "db_admin"
             /\ RoleLevel(r) = 2 <=> r = "db_analyst"
  BY DEF RoleLevel, ROLE_ORDER
<1>2. /\ levels \subseteq 0 .. 3
      /\ 3 \in levels <=> "db_admin" \in roles
      /\ 2 \in levels <=> "db_analyst" \in roles
  BY <1>1
<1>3. 0 \in levels
  OBVIOUS
<1>4. user_level(roles) = top
  BY DEF user_level
<1> HIDE DEF levels
<1>5. \E t \in levels : \A other \in levels : other <= t
  <2>1. CASE 3 \in levels
    BY <1>2, <2>1
  <2>2. CASE 3 \notin levels /\ 2 \in levels
    BY <1>2, <2>2
  <2>3. CASE 3 \notin levels /\ 2 \notin levels /\ 1 \in levels
    BY <1>2, <2>3
  <2>4. CASE 3 \notin levels /\ 2 \notin levels /\ 1 \notin levels
    BY <1>2, <1>3, <2>4
  <2> QED BY <2>1, <2>2, <2>3, <2>4
<1>6. top \in levels /\ \A other \in levels : other <= top
  BY <1>5
<1> HIDE DEF top
<1>7. top \in 0 .. 3 /\ (top >= 3 <=> 3 \in levels) /\ (top >= 2 <=> 3 \in levels \/ 2 \in levels)
  BY <1>2, <1>6
<1>8. /\ can_access_admin(roles) <=> "db_admin" \in roles
      /\ can_access_sensitive(roles) <=> "db_admin" \in roles \/ "db_analyst" \in roles
  BY DEF can_access_admin, can_access_sensitive, role_tier
<1> QED BY <1>2, <1>4, <1>7, <1>8

(* So the table check of query and the one of the other tools agree on     *)
(* every table, for every set of roles.                                    *)
LEMMA TableChecksAgree ==
    ASSUME NEW roles, NEW tables
    PROVE  TablesAllowed(roles, tables) <=> \A t \in tables : ToolMayShow(roles, t)
<1>1. DOMAIN TABLE_ACCESS = {"employees", "audit_logs"}
  BY DEF TABLE_ACCESS
<1>2. /\ RoleLevel(TABLE_ACCESS["employees"]) = 2
      /\ RoleLevel(TABLE_ACCESS["audit_logs"]) = 3
  BY DEF TABLE_ACCESS, RoleLevel, ROLE_ORDER
<1> QED BY <1>1, <1>2, LevelMatchesTier DEF TablesAllowed, ToolMayShow
===============================================================================
