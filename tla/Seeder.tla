-------------------------------- MODULE Seeder --------------------------------
(***************************************************************************)
(* scripts/seed.py: empties the five tables of banking_db and fills four   *)
(* of them again, one autocommitted statement after the other, with no     *)
(* transaction around them.  Compose runs it at each start of the stack,   *)
(* and it may be run by hand beside that.                                  *)
(*                                                                         *)
(* A table is the set of seeders whose batch it holds.  Every run draws    *)
(* the same e-mails and account numbers (both generators are seeded with   *)
(* 42), while ids come from the database and differ.  So a second batch of *)
(* a table with a UNIQUE column of drawn values is refused, and a batch    *)
(* that refers to rows of an own earlier batch needs them to be there.     *)
(***************************************************************************)
EXTENDS Naturals, FiniteSets

CONSTANT Seeders    \* the processes that run seed.py

VARIABLES
  step,             \* seeder -> its next statement, or how its last run ended
  tables,           \* table -> the seeders whose batches are in it
  managed,          \* the batches of employees with managers assigned
  audit_logs        \* the audit entries in the database

database == <<tables, managed, audit_logs>>
seedVars == <<step, database>>

Filled == {"employees", "customers", "accounts", "transactions"}
EmptyTables == [t \in Filled |-> {}]

Steps == {"connect", "truncate", "managers", "summary"} \cup Filled
Ends == {"never", "done", "clashed", "stopped"}
Seeding == {s \in Seeders : step[s] \in Steps}

Advance(s, next) == step' = [step EXCEPT ![s] = next]

-----------------------------------------------------------------------------
\* A database that cannot be reached or refuses the password ends the run.
SeedConnects(s, reachable) ==
    /\ step[s] = "connect"
    /\ Advance(s, IF reachable THEN "truncate" ELSE "stopped")
    /\ UNCHANGED database

\* TRUNCATE names audit_logs too.
Truncate(s) ==
    /\ step[s] = "truncate"
    /\ Advance(s, "employees")
    /\ tables' = EmptyTables /\ managed' = {} /\ audit_logs' = {}

\* One statement inserts the whole batch, or fails and ends the run.
Insert(s, t, accepted, next) ==
    /\ step[s] = t
    /\ IF accepted
       THEN Advance(s, next) /\ tables' = [tables EXCEPT ![t] = @ \cup {s}]
       ELSE Advance(s, "clashed") /\ UNCHANGED tables
    /\ UNCHANGED <<managed, audit_logs>>

\* Faulty variant: the generators are not seeded, so values never repeat.
BugUnseeded(t) == TRUE

\* work_email, email and account_number are UNIQUE and repeat; the
\* reference_id of a transaction is a hash of ids and does not.
Distinct(t) == tables[t] = {}

InsertEmployees(s) == Insert(s, "employees", Distinct("employees"), "managers")
InsertCustomers(s) == Insert(s, "customers", Distinct("customers"), "accounts")
InsertAccounts(s) ==
    Insert(s, "accounts", Distinct("accounts") /\ s \in tables["customers"], "transactions")
InsertTransactions(s) == Insert(s, "transactions", s \in tables["accounts"], "summary")

\* Faulty variant: managers are counted as assigned whether or not the rows
\* are still there.
BugAssignsBlindly(s) == {s}

\* UPDATEs by id: rows that are gone are no error.
Assignable(s) == {s} \cap tables["employees"]

AssignManagers(s) ==
    /\ step[s] = "managers"
    /\ Advance(s, "customers")
    /\ managed' = managed \cup Assignable(s)
    /\ UNCHANGED <<tables, audit_logs>>

Summary(s) ==
    /\ step[s] = "summary"
    /\ Advance(s, "done")
    /\ UNCHANGED database

\* The connection is lost or the process ends before its next statement.
SeedStops(s) ==
    /\ s \in Seeding
    /\ Advance(s, "stopped")
    /\ UNCHANGED database

SeedInit ==
    /\ step = [s \in Seeders |-> "never"]
    /\ tables = EmptyTables /\ managed = {} /\ audit_logs = {}

Seed(s) ==
    \/ Truncate(s) \/ AssignManagers(s) \/ Summary(s) \/ SeedStops(s)
    \/ InsertEmployees(s) \/ InsertCustomers(s) \/ InsertAccounts(s) \/ InsertTransactions(s)

-----------------------------------------------------------------------------
(* Type invariant; only employees that are there have managers. *)
SeedTypeOK ==
    /\ step \in [Seeders -> Steps \cup Ends]
    /\ tables \in [Filled -> SUBSET Seeders]
    /\ managed \in SUBSET tables["employees"]

(* Seeders that run beside each other may spoil each other's runs, but not *)
(* the data: once all have ended, one of them at least with its summary    *)
(* and none for reasons from outside, every table holds exactly one batch, *)
(* accounts and transactions belong to the customers that are there, and   *)
(* the employees have their managers.                                      *)
SeedSettles ==
    (Seeding = {} /\ (\E s \in Seeders : step[s] = "done")
                  /\ \A s \in Seeders : step[s] # "stopped")
        => \E s, e \in Seeders :
               /\ tables["employees"] = {e} /\ managed = {e}
               /\ \A t \in Filled \ {"employees"} : tables[t] = {s}
===============================================================================
