------------------------------ MODULE StackProofs -----------------------------
(***************************************************************************)
(* Theorems about Stack and the Seeder in it, for any number of seeders,   *)
(* operations and audit entries.                                           *)
(***************************************************************************)
EXTENDS Stack, TLAPS

-----------------------------------------------------------------------------
(* What the seeders keep true.  A seeder that is paused has all of its run *)
(* before it or ended it for reasons from outside.                         *)

Paused(s) == step[s] \in {"stopped", "connect", "truncate"}

\* No table with distinct values holds two batches, and rows refer to rows.
OneBatch ==
    /\ \A t \in {"employees", "customers", "accounts"} : \A s, r \in tables[t] : s = r
    /\ tables["accounts"] \subseteq tables["customers"]
    /\ tables["transactions"] \subseteq tables["accounts"]

\* A seeder whose batch is in a table is past that table.
PastInsert ==
    \A s \in Seeders :
        /\ s \in tables["employees"] => step[s] # "employees"
        /\ s \in tables["customers"] => step[s] \notin {"employees", "managers", "customers"}
        /\ s \in tables["accounts"] =>
               step[s] \notin {"employees", "managers", "customers", "accounts"}
        /\ s \in tables["transactions"] =>
               step[s] \notin {"employees", "managers", "customers", "accounts", "transactions"}

\* Whatever is missing, there is a seeder that will still bring it, and that
\* nobody's batch can stop.
SomebodyGoesOn ==
    /\ tables["employees"] = {} =>
           \/ \A s \in Seeders : step[s] = "never"
           \/ \E s \in Seeders : Paused(s) \/ step[s] = "employees"
    /\ \A s \in tables["employees"] :
           s \in managed \/ step[s] = "managers" \/ Paused(s)
    /\ \A s \in tables["employees"] :
           tables["customers"] = {} => step[s] \in {"managers", "customers"} \/ Paused(s)
    /\ \A s \in tables["customers"] :
           tables["accounts"] = {} => step[s] = "accounts" \/ Paused(s)
    /\ \A s \in tables["accounts"] :
           s \in tables["transactions"] \/ step[s] = "transactions" \/ Paused(s)

SeedInv == SeedTypeOK /\ OneBatch /\ PastInsert /\ SomebodyGoesOn

LEMMA InvSettles == SeedInv => SeedSettles
<1> SUFFICES ASSUME SeedInv, Seeding = {},
                    NEW d \in Seeders, step[d] = "done",
                    \A s \in Seeders : step[s] # "stopped"
             PROVE  \E s, e \in Seeders :
                        /\ tables["employees"] = {e} /\ managed = {e}
                        /\ \A t \in Filled \ {"employees"} : tables[t] = {s}
    BY DEF SeedSettles
<1>1. \A s \in Seeders : step[s] \in {"never", "done", "clashed"}
    BY DEF SeedInv, SeedTypeOK, Seeding, Ends, Steps
<1>2. \A t \in Filled : tables[t] \subseteq Seeders
    BY DEF SeedInv, SeedTypeOK
<1>3. PICK e \in Seeders : e \in tables["employees"]
    BY <1>1, <1>2 DEF SeedInv, SomebodyGoesOn, Paused, Filled
<1>4. tables["employees"] = {e} /\ managed = {e}
    BY <1>1, <1>3 DEF SeedInv, SeedTypeOK, OneBatch, SomebodyGoesOn, Paused
<1>5. PICK c \in Seeders : c \in tables["customers"]
    BY <1>1, <1>2, <1>3 DEF SeedInv, SomebodyGoesOn, Paused, Filled
<1>6. c \in tables["accounts"]
    BY <1>1, <1>2, <1>5 DEF SeedInv, OneBatch, SomebodyGoesOn, Paused, Filled
<1>7. c \in tables["transactions"]
    BY <1>1, <1>6 DEF SeedInv, SomebodyGoesOn, Paused
<1>8. \A t \in Filled \ {"employees"} : tables[t] = {c}
    BY <1>5, <1>6, <1>7 DEF SeedInv, OneBatch, Filled
<1> QED BY <1>4, <1>8

\* A step that pauses seeders, or lets one go from connect to truncate.
LEMMA PausingKeepsInv ==
    ASSUME SeedInv, UNCHANGED <<tables, managed>>,
           step' \in [Seeders -> Steps \cup Ends],
           \A s \in Seeders :
               step'[s] = step[s] \/ step'[s] \in {"stopped", "connect", "truncate"}
    PROVE  SeedInv'
<1>1. SeedTypeOK' BY DEF SeedInv, SeedTypeOK
<1>2. OneBatch' BY DEF SeedInv, OneBatch
<1>3. PastInsert' BY DEF SeedInv, PastInsert
<1>4. \A t \in Filled : tables[t] \subseteq Seeders
    BY DEF SeedInv, SeedTypeOK
<1>5. SomebodyGoesOn' BY <1>4 DEF SeedInv, SomebodyGoesOn, Paused, Filled
<1> QED BY <1>1, <1>2, <1>3, <1>5 DEF SeedInv

LEMMA TruncateKeepsInv ==
    ASSUME SeedInv, NEW s \in Seeders, Truncate(s)
    PROVE  SeedInv'
<1> USE DEF Truncate, Advance, EmptyTables, Filled, Steps
<1>1. SeedTypeOK' BY DEF SeedInv, SeedTypeOK
<1>2. \A t \in Filled : tables'[t] = {} OBVIOUS
<1>3. step'[s] = "employees" BY DEF SeedInv, SeedTypeOK
<1> QED BY <1>1, <1>2, <1>3 DEF SeedInv, OneBatch, PastInsert, SomebodyGoesOn

LEMMA InsertKeepsInv ==
    ASSUME SeedInv, NEW s \in Seeders,
           InsertEmployees(s) \/ InsertCustomers(s) \/ InsertAccounts(s) \/ InsertTransactions(s)
    PROVE  SeedInv'
<1> USE DEF Insert, Distinct, Advance, Filled, Steps, Ends
<1>1. CASE InsertEmployees(s)
    <2> USE <1>1 DEF InsertEmployees
    <2>1. SeedTypeOK' BY DEF SeedInv, SeedTypeOK
    <2>2. OneBatch' BY DEF SeedInv, SeedTypeOK, OneBatch
    <2>3. PastInsert' BY DEF SeedInv, SeedTypeOK, PastInsert
    <2>4. SomebodyGoesOn' BY DEF SeedInv, SeedTypeOK, SomebodyGoesOn, PastInsert, Paused
    <2> QED BY <2>1, <2>2, <2>3, <2>4 DEF SeedInv
<1>2. CASE InsertCustomers(s)
    <2> USE <1>2 DEF InsertCustomers
    <2>1. SeedTypeOK' BY DEF SeedInv, SeedTypeOK
    <2>2. OneBatch' BY DEF SeedInv, SeedTypeOK, OneBatch
    <2>3. PastInsert' BY DEF SeedInv, SeedTypeOK, PastInsert
    <2>4. SomebodyGoesOn' BY DEF SeedInv, SeedTypeOK, SomebodyGoesOn, PastInsert, Paused
    <2> QED BY <2>1, <2>2, <2>3, <2>4 DEF SeedInv
<1>3. CASE InsertAccounts(s)
    <2> USE <1>3 DEF InsertAccounts
    <2>1. SeedTypeOK' BY DEF SeedInv, SeedTypeOK
    <2>2. OneBatch' BY DEF SeedInv, SeedTypeOK, OneBatch
    <2>3. PastInsert' BY DEF SeedInv, SeedTypeOK, PastInsert
    <2>4. SomebodyGoesOn' BY DEF SeedInv, SeedTypeOK, SomebodyGoesOn, PastInsert, Paused
    <2> QED BY <2>1, <2>2, <2>3, <2>4 DEF SeedInv
<1>4. CASE InsertTransactions(s)
    <2> USE <1>4 DEF InsertTransactions
    <2>1. SeedTypeOK' BY DEF SeedInv, SeedTypeOK
    <2>2. OneBatch' BY DEF SeedInv, SeedTypeOK, OneBatch
    <2>3. PastInsert' BY DEF SeedInv, SeedTypeOK, PastInsert
    <2>4. SomebodyGoesOn' BY DEF SeedInv, SeedTypeOK, SomebodyGoesOn, PastInsert, Paused
    <2> QED BY <2>1, <2>2, <2>3, <2>4 DEF SeedInv
<1> QED BY <1>1, <1>2, <1>3, <1>4

LEMMA OtherStatementsKeepInv ==
    ASSUME SeedInv, NEW s \in Seeders, AssignManagers(s) \/ Summary(s)
    PROVE  SeedInv'
<1> USE DEF AssignManagers, Assignable, Summary, Advance, Filled, Steps, Ends, database
<1>1. SeedTypeOK' BY DEF SeedInv, SeedTypeOK
<1>2. OneBatch' BY DEF SeedInv, OneBatch
<1>3. PastInsert' BY DEF SeedInv, SeedTypeOK, PastInsert
<1>4. SomebodyGoesOn' BY DEF SeedInv, SeedTypeOK, SomebodyGoesOn, Paused
<1> QED BY <1>1, <1>2, <1>3, <1>4 DEF SeedInv

-----------------------------------------------------------------------------
(* The steps of Stack as the seeders see them. *)

\* Whoever is connected is cut off.
CutOffAll == step' = [s \in Seeders |-> IF s \in Seeding THEN "stopped" ELSE step[s]]

LEMMA CutOffKeepsInv ==
    ASSUME SeedInv, CutOffAll, UNCHANGED <<tables, managed>>
    PROVE  SeedInv'
<1>1. step' \in [Seeders -> Steps \cup Ends] BY DEF SeedInv, SeedTypeOK, CutOffAll, Ends
<1>2. \A s \in Seeders :
          step'[s] = step[s] \/ step'[s] \in {"stopped", "connect", "truncate"}
    BY DEF CutOffAll
<1> QED BY <1>1, <1>2, PausingKeepsInv

LEMMA AdvanceKeepsInv ==
    ASSUME SeedInv, NEW s \in Seeders, NEW next \in {"stopped", "connect", "truncate"},
           Advance(s, next), UNCHANGED <<tables, managed>>
    PROVE  SeedInv'
<1>1. step' \in [Seeders -> Steps \cup Ends]
    BY DEF SeedInv, SeedTypeOK, Advance, Ends, Steps
<1>2. \A r \in Seeders :
          step'[r] = step[r] \/ step'[r] \in {"stopped", "connect", "truncate"}
    BY DEF SeedInv, SeedTypeOK, Advance
<1> QED BY <1>1, <1>2, PausingKeepsInv

LEMMA SameKeepsInv ==
    ASSUME SeedInv, UNCHANGED <<step, tables, managed>>
    PROVE  SeedInv'
BY PausingKeepsInv DEF SeedInv, SeedTypeOK

\* What a seeder may do: log in or not, or go on.
LEMMA SeederSteps ==
    ASSUME NEW s \in Seeders, RunSeeder(s)
    PROVE  (\E works \in BOOLEAN : SeedConnects(s, works)) \/ Seed(s)
<1>1. Reaches(seederEnv) \in BOOLEAN BY DEF Reaches
<1>2. ASSUME NEW right \in BOOLEAN, SeedConnects(s, right /\ pg = "ready")
      PROVE  \E works \in BOOLEAN : SeedConnects(s, works)
    <2>1. (right /\ pg = "ready") \in BOOLEAN OBVIOUS
    <2> QED BY <1>2, <2>1
<1> QED BY <1>1, <1>2 DEF RunSeeder

LEMMA SeederKeepsInv ==
    ASSUME SeedInv, NEW s \in Seeders, RunSeeder(s)
    PROVE  SeedInv'
<1>1. ASSUME NEW works \in BOOLEAN, SeedConnects(s, works) PROVE SeedInv'
    BY <1>1, AdvanceKeepsInv DEF SeedConnects, database
<1>2. CASE SeedStops(s)
    BY <1>2, AdvanceKeepsInv DEF SeedStops, database
<1>3. CASE Seed(s)
    BY <1>2, <1>3, TruncateKeepsInv, InsertKeepsInv, OtherStatementsKeepInv DEF Seed
<1> QED BY <1>1, <1>3, SeederSteps

LEMMA WipeKeepsInv ==
    ASSUME step' = [s \in Seeders |-> "never"], tables' = EmptyTables, managed' = {}
    PROVE  SeedInv'
<1> USE DEF EmptyTables, Filled
<1>1. SeedTypeOK' BY DEF SeedTypeOK, Ends
<1> QED BY <1>1 DEF SeedInv, OneBatch, PastInsert, SomebodyGoesOn

LEMMA StepKeepsSeedInv ==
    ASSUME SeedInv, [Next]_vars
    PROVE  SeedInv'
<1> USE StackAssumption
<1>1. CASE UNCHANGED seedVars
    BY <1>1, SameKeepsInv DEF seedVars, database
<1>2. CASE ComposePostgres
    BY <1>2, CutOffKeepsInv DEF ComposePostgres, CutOffAll, database
<1>3. CASE ComposeRest
    BY <1>3, SameKeepsInv, AdvanceKeepsInv DEF ComposeRest, database
<1>4. CASE WriteAudit
    BY <1>4, SameKeepsInv DEF WriteAudit
<1>5. ASSUME NEW s \in Seeders, RunSeeder(s) PROVE SeedInv'
    BY <1>5, SeederKeepsInv
<1>6. ASSUME NEW s \in Seeders, SeedByHand(s) PROVE SeedInv'
    BY <1>6, AdvanceKeepsInv DEF SeedByHand, database
<1>7. ASSUME NEW wipe \in BOOLEAN, Down(wipe) PROVE SeedInv'
    BY <1>7, WipeKeepsInv, CutOffKeepsInv DEF Down, CutOffAll, database
<1>8. CASE Up \/ Render \/ ComposeRefuses \/ ComposeKeycloak \/ WaitKeycloak \/ WaitMcp
    BY <1>1, <1>8 DEF Up, Render, ComposeRefuses, ComposeKeycloak, WaitKeycloak, WaitMcp
<1>9. CASE Interrupt \/ PostgresReady \/ KeycloakReady
           \/ ServerStarts \/ ServerExits \/ ServerCrashes
           \/ DeleteEnv
    BY <1>1, <1>9 DEF Interrupt, PostgresReady, KeycloakReady, ServerStarts, ServerExits,
                      ServerCrashes, DeleteEnv
<1> QED BY <1>1, <1>2, <1>3, <1>4, <1>5, <1>6, <1>7, <1>8, <1>9 DEF Next, Script, vars

LEMMA SeedInvHolds == Spec => []SeedInv
<1>1. Init => SeedInv
    <2> SUFFICES ASSUME Init PROVE SeedInv OBVIOUS
    <2> USE DEF Init, SeedInit, EmptyTables, Filled
    <2>1. SeedTypeOK BY DEF SeedTypeOK, Ends
    <2> QED BY <2>1 DEF SeedInv, OneBatch, PastInsert, SomebodyGoesOn
<1>2. SeedInv /\ [Next]_vars => SeedInv' BY StepKeepsSeedInv
<1> QED BY <1>1, <1>2, PTL DEF Spec

(* Seeders beside each other, cut off anywhere or not, in a stack that is  *)
(* started, stopped and wiped in any order: once they have all ended by    *)
(* themselves and one with its summary, the data is one whole batch        *)
(* (seed.py's main, run by compose and by hand).                           *)
THEOREM SeedSettlesHolds == Spec => []SeedSettles
<1>1. SeedInv => SeedSettles BY InvSettles
<1> QED BY <1>1, SeedInvHolds, PTL

-----------------------------------------------------------------------------
(* Every variable of up.sh and of the containers keeps its type. *)
THEOREM TypeCorrect == Spec => []TypeOK
<1> USE StackAssumption DEF NoFile, Blank
<1>1. Init => TypeOK
    BY DEF Init, SeedInit, TypeOK, SeedTypeOK, EmptyTables, Filled, Ends
<1>2. SeedInv' /\ TypeOK /\ [Next]_vars => TypeOK'
    <2> SUFFICES ASSUME SeedInv', TypeOK, [Next]_vars PROVE TypeOK' OBVIOUS
    <2>1. SeedTypeOK' BY DEF SeedInv
    <2> USE <2>1 DEF TypeOK, files, containers
    <2>2. CASE Up BY <2>2 DEF Up, seedVars, database
    <2>3. CASE Script
        BY <2>3 DEF Script, Render, ComposeRefuses, ComposePostgres, ComposeKeycloak,
                    ComposeRest, WaitKeycloak, WaitMcp, seedVars, database
    <2>4. CASE Interrupt \/ PostgresReady \/ KeycloakReady
               \/ ServerStarts \/ ServerExits \/ ServerCrashes
        BY <2>4 DEF Interrupt, PostgresReady, KeycloakReady, ServerStarts, ServerExits,
                    ServerCrashes, seedVars, database
    <2>5. CASE WriteAudit BY <2>5 DEF WriteAudit
    <2>6. ASSUME NEW s \in Seeders, RunSeeder(s) PROVE TypeOK'
        BY <2>6 DEF RunSeeder, SeedConnects, Seed, Truncate, AssignManagers, Summary,
                    SeedStops,
                    InsertEmployees, InsertCustomers, InsertAccounts, InsertTransactions, Insert,
                    database
    <2>7. ASSUME NEW s \in Seeders, SeedByHand(s) PROVE TypeOK'
        BY <2>7 DEF SeedByHand, UserOp, database
    <2>8. CASE DeleteEnv BY <2>8 DEF DeleteEnv, UserOp, seedVars, database
    <2>9. ASSUME NEW wipe \in BOOLEAN, Down(wipe) PROVE TypeOK'
        <3>1. /\ pg' = "absent" /\ kc' = "absent" /\ mcp' = "absent"
              /\ pgEnv' = 0 /\ mcpEnv' = 0 /\ seederEnv' = 0 /\ realm' = 0 /\ printed' = 0
              /\ UNCHANGED <<script, env, sourced, rendered, issued>>
            BY <2>9 DEF Down
        <3>2. volume' \in {0, volume} /\ audit_logs' \in {{}, audit_logs}
            BY <2>9 DEF Down, database
        <3>3. {env', sourced', rendered', printed', issued', volume'} \subseteq Nat
            BY <3>1, <3>2
        <3>4. {pgEnv', mcpEnv', seederEnv', realm'} \subseteq Nat
            BY <3>1
        <3>5. audit_logs' \subseteq 1 .. MaxEntries
            BY <3>2
        <3> QED BY <3>1, <3>3, <3>4, <3>5
    <2>10. CASE UNCHANGED vars BY <2>10 DEF vars, seedVars, database
    <2> QED BY <2>2, <2>3, <2>4, <2>5, <2>6, <2>7, <2>8, <2>9, <2>10 DEF Next
<1> QED BY <1>1, <1>2, SeedInvHolds, PTL DEF Spec

-----------------------------------------------------------------------------
(* The credentials from .env to the realm that Keycloak imported. *)

\* The script has the credentials of .env, and the realm file has them from
\* Render on; a Keycloak that is there imported those of .env.
LoginsInv ==
    /\ script # "idle" => sourced = env /\ env # NoFile
    /\ script \notin {"idle", "render"} => rendered = sourced
    /\ script \in {"wait_keycloak", "wait_mcp"} => kc # "absent"
    /\ kc # "absent" => env = realm /\ env # NoFile
    /\ printed # NoFile => kc # "absent" /\ printed = realm

LEMMA StepKeepsLogins ==
    ASSUME ~RotatesInUse, TypeOK, LoginsInv, [Next]_vars
    PROVE  LoginsInv'
<1> USE DEF LoginsInv, TypeOK, NoFile, files, containers
<1>1. CASE Up BY <1>1 DEF Up
<1>2. CASE Render BY <1>2 DEF Render
<1>3. CASE ComposeRefuses \/ ComposePostgres \/ ComposeKeycloak \/ ComposeRest
    BY <1>3 DEF ComposeRefuses, ComposePostgres, ComposeKeycloak, ComposeRest
<1>4. CASE WaitKeycloak \/ WaitMcp \/ Interrupt
    BY <1>4 DEF WaitKeycloak, WaitMcp, Interrupt
<1>5. CASE PostgresReady \/ KeycloakReady
           \/ ServerStarts \/ ServerExits \/ ServerCrashes \/ WriteAudit
    BY <1>5 DEF PostgresReady, KeycloakReady, ServerStarts, ServerExits, ServerCrashes,
                WriteAudit
<1>6. ASSUME NEW s \in Seeders, RunSeeder(s) \/ SeedByHand(s) PROVE LoginsInv'
    BY <1>6 DEF RunSeeder, SeedByHand
<1>7. CASE DeleteEnv BY <1>7 DEF DeleteEnv, UserOp
<1>8. ASSUME NEW wipe \in BOOLEAN, Down(wipe) PROVE LoginsInv'
    BY <1>8 DEF Down, UserOp
<1>9. CASE UNCHANGED vars BY <1>9 DEF vars
<1> QED BY <1>1, <1>2, <1>3, <1>4, <1>5, <1>6, <1>7, <1>8, <1>9 DEF Next, Script

(* As long as .env is deleted only while there is neither a volume nor a   *)
(* Keycloak, the logins that up.sh shows are those Keycloak knows, through *)
(* any interrupts, restarts and wipes.                                     *)
THEOREM PrintedLoginsWorkHolds ==
    ASSUME ~RotatesInUse
    PROVE  Spec => []PrintedLoginsWork
<1>1. Init => LoginsInv BY DEF Init, LoginsInv
<1>2. TypeOK /\ LoginsInv /\ [Next]_vars => LoginsInv' BY StepKeepsLogins
<1>3. LoginsInv => PrintedLoginsWork BY DEF LoginsInv, PrintedLoginsWork
<1> QED BY <1>1, <1>2, <1>3, TypeCorrect, PTL DEF Spec
-----------------------------------------------------------------------------
(* The password from .env to the volume and to the containers that log in. *)

\* A volume that is there was initialised with what .env still holds, and a
\* container that has taken a copy found a volume there.
PasswordsInv ==
    /\ PasswordsAgree
    /\ script # "idle" => sourced = env /\ env # NoFile
    /\ volume # NoFile => env = volume
    /\ pg # "absent" \/ mcp \in {"starting", "up"} => volume # NoFile
    /\ step["compose"] = "connect" => volume # NoFile

\* A step of a seeder leaves no run waiting for its login that was not.
LEMMA SeederLeavesConnect ==
    ASSUME SeedTypeOK, NEW s \in Seeders, RunSeeder(s)
    PROVE  \A r \in Seeders : step'[r] = "connect" => step[r] = "connect"
<1> USE DEF Advance, SeedTypeOK, Steps, Ends, Filled
<1>1. ASSUME NEW works \in BOOLEAN, SeedConnects(s, works)
      PROVE  \A r \in Seeders : step'[r] = "connect" => step[r] = "connect"
    BY <1>1 DEF SeedConnects
<1>2. CASE Truncate(s) \/ AssignManagers(s) \/ Summary(s) \/ SeedStops(s)
    BY <1>2 DEF Truncate, AssignManagers, Summary, SeedStops
<1>3. CASE InsertEmployees(s) \/ InsertCustomers(s) \/ InsertAccounts(s)
           \/ InsertTransactions(s)
    BY <1>3 DEF InsertEmployees, InsertCustomers, InsertAccounts, InsertTransactions, Insert
<1>4. CASE Seed(s) BY <1>2, <1>3, <1>4 DEF Seed
<1> QED BY <1>1, <1>4, SeederSteps

LEMMA StepKeepsPasswords ==
    ASSUME ~RotatesInUse, TypeOK, PasswordsInv, [Next]_vars
    PROVE  PasswordsInv'
<1> USE StackAssumption DEF PasswordsInv, PasswordsAgree, NoFile, files
<1>1. CASE Up BY <1>1 DEF Up, TypeOK, seedVars, containers
<1>2. CASE Render \/ ComposeRefuses \/ ComposeKeycloak
    BY <1>2 DEF Render, ComposeRefuses, ComposeKeycloak, seedVars, containers
<1>3. CASE ComposePostgres
    <2>1. \A s \in Seeders : step'[s] # "connect"
        BY <1>3 DEF ComposePostgres, Seeding, Ends, Steps
    <2> QED BY <1>3, <2>1 DEF ComposePostgres, NoFile
<1>4. CASE ComposeRest
    <2>1. volume # NoFile /\ volume = sourced
        BY <1>4 DEF ComposeRest, Healthy
    <2>2. step'["compose"] = "connect" => seederEnv' = sourced
        BY <1>4 DEF ComposeRest, Seeding
    <2> QED BY <1>4, <2>1, <2>2 DEF ComposeRest, Runs
<1>5. CASE WaitKeycloak \/ WaitMcp \/ Interrupt
    BY <1>5 DEF WaitKeycloak, WaitMcp, Interrupt, seedVars, containers
<1>6. CASE PostgresReady \/ KeycloakReady
           \/ ServerStarts \/ ServerExits \/ ServerCrashes \/ WriteAudit
    BY <1>6 DEF PostgresReady, KeycloakReady, ServerStarts, ServerExits, ServerCrashes,
                WriteAudit, seedVars, containers
<1>7. ASSUME NEW s \in Seeders, RunSeeder(s) PROVE PasswordsInv'
    <2>1. UNCHANGED <<script, files, volume, containers>> BY <1>7 DEF RunSeeder
    <2>2. \A r \in Seeders : step'[r] = "connect" => step[r] = "connect"
        BY <1>7, SeederLeavesConnect DEF TypeOK
    <2> QED BY <2>1, <2>2 DEF containers
<1>8. ASSUME NEW s \in Seeders \ {"compose"}, SeedByHand(s) PROVE PasswordsInv'
    <2>1. step'["compose"] = step["compose"]
        BY <1>8 DEF SeedByHand, Advance, TypeOK, SeedTypeOK
    <2> QED BY <1>8, <2>1 DEF SeedByHand, UserOp, containers
<1>9. CASE DeleteEnv BY <1>9 DEF DeleteEnv, UserOp, seedVars, containers
<1>10. ASSUME NEW wipe \in BOOLEAN, Down(wipe) PROVE PasswordsInv'
    <2>1. \A s \in Seeders : step'[s] # "connect"
        BY <1>10 DEF Down, Seeding, Ends, Steps
    <2> QED BY <1>10, <2>1 DEF Down, UserOp
<1>11. CASE UNCHANGED vars BY <1>11 DEF vars, seedVars, containers
<1> QED BY <1>1, <1>2, <1>3, <1>4, <1>5, <1>6, <1>7, <1>8, <1>9, <1>10, <1>11
        DEF Next, Script

(* As long as .env is not deleted beside a volume, mcp-server and the      *)
(* seeder of compose have the password that the volume was initialised     *)
(* with, after any interrupts, crashes, shutdowns and starts (up.sh's test *)
(* of .env).                                                               *)
THEOREM PasswordsAgreeHolds ==
    ASSUME ~RotatesInUse
    PROVE  Spec => []PasswordsAgree
<1>1. Init => PasswordsInv
    BY StackAssumption DEF Init, SeedInit, PasswordsInv, PasswordsAgree
<1>2. TypeOK /\ PasswordsInv /\ [Next]_vars => PasswordsInv' BY StepKeepsPasswords
<1>3. PasswordsInv => PasswordsAgree BY DEF PasswordsInv
<1> QED BY <1>1, <1>2, <1>3, TypeCorrect, PTL DEF Spec

-----------------------------------------------------------------------------
(* Who withdraws audit entries. *)

\* Entries need a volume to be in, and a database one to run on.
EntriesInv ==
    /\ script # "idle" => sourced # NoFile
    /\ pg # "absent" => volume # NoFile
    /\ audit_logs # {} => volume # NoFile

LEMMA StepKeepsEntries ==
    ASSUME TypeOK, EntriesInv, [Next]_vars
    PROVE  EntriesInv'
<1> USE DEF EntriesInv, TypeOK, NoFile, seedVars, database, files, containers
<1>1. CASE Up BY <1>1 DEF Up, Blank
<1>2. CASE Script
    BY <1>2 DEF Script, Render, ComposeRefuses, ComposePostgres, ComposeKeycloak, ComposeRest,
                WaitKeycloak, WaitMcp
<1>3. CASE Interrupt \/ PostgresReady \/ KeycloakReady
           \/ ServerStarts \/ ServerExits \/ ServerCrashes
    BY <1>3 DEF Interrupt, PostgresReady, KeycloakReady, ServerStarts, ServerExits,
                ServerCrashes
<1>4. CASE WriteAudit BY <1>4 DEF WriteAudit, Reaches
<1>5. ASSUME NEW s \in Seeders, RunSeeder(s) PROVE EntriesInv'
    <2>1. audit_logs' \in {audit_logs, {}}
        BY <1>5 DEF RunSeeder, SeedConnects, Seed, Truncate, AssignManagers, Summary,
                    SeedStops,
                    InsertEmployees, InsertCustomers, InsertAccounts, InsertTransactions, Insert
    <2> QED BY <1>5, <2>1 DEF RunSeeder
<1>6. ASSUME NEW s \in Seeders, SeedByHand(s) PROVE EntriesInv'
    BY <1>6 DEF SeedByHand, UserOp
<1>7. CASE DeleteEnv BY <1>7 DEF DeleteEnv, UserOp
<1>8. ASSUME NEW wipe \in BOOLEAN, Down(wipe) PROVE EntriesInv'
    BY <1>8 DEF Down, UserOp
<1>9. CASE UNCHANGED vars BY <1>9 DEF vars
<1> QED BY <1>1, <1>2, <1>3, <1>4, <1>5, <1>6, <1>7, <1>8, <1>9 DEF Next

\* A step that keeps the volume and takes entries from it.
Withdraws == volume' = volume /\ ~(audit_logs \subseteq audit_logs')

LEMMA OnlyTruncateWithdraws ==
    ASSUME EntriesInv, Next, Withdraws
    PROVE  \E s \in Seeders : Truncate(s)
<1> USE DEF Withdraws, seedVars, database, files, containers
<1>1. CASE Up \/ Script \/ Interrupt \/ DeleteEnv
    BY <1>1 DEF Up, Script, Render, ComposeRefuses, ComposePostgres, ComposeKeycloak,
                ComposeRest, WaitKeycloak, WaitMcp, Interrupt, DeleteEnv
<1>2. CASE PostgresReady \/ KeycloakReady
           \/ ServerStarts \/ ServerExits \/ ServerCrashes \/ WriteAudit
    BY <1>2 DEF PostgresReady, KeycloakReady, ServerStarts, ServerExits, ServerCrashes,
                WriteAudit
<1>3. ASSUME NEW s \in Seeders, RunSeeder(s) \/ SeedByHand(s) PROVE Truncate(s)
    BY <1>3 DEF SeedByHand, RunSeeder, SeedConnects, Seed, AssignManagers, Summary, SeedStops,
                InsertEmployees, InsertCustomers, InsertAccounts, InsertTransactions, Insert
<1>4. ASSUME NEW wipe \in BOOLEAN, Down(wipe) PROVE FALSE
    BY <1>4 DEF Down, EntriesInv
<1> QED BY <1>1, <1>2, <1>3, <1>4 DEF Next

(* The entries of a volume that is kept go in one way only, the seeder's   *)
(* TRUNCATE (seed.py:88): up.sh, compose and the server withdraw none,     *)
(* and a volume that is wiped and initialised again starts without any.    *)
THEOREM WithdrawnByTruncateAlone ==
    Spec => [][Withdraws => \E s \in Seeders : Truncate(s)]_vars
<1>1. Init => EntriesInv BY DEF Init, SeedInit, EntriesInv
<1>2. TypeOK /\ EntriesInv /\ [Next]_vars => EntriesInv' BY StepKeepsEntries
<1>3. EntriesInv /\ [Next]_vars => [Withdraws => \E s \in Seeders : Truncate(s)]_vars
    BY OnlyTruncateWithdraws
<1> QED BY <1>1, <1>2, <1>3, TypeCorrect, PTL DEF Spec
===============================================================================
