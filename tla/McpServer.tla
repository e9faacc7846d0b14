------------------------------- MODULE McpServer -------------------------------
(***************************************************************************)
(* The tier-1 server: the handlers of tools/db_tools.py as concurrent      *)
(* tasks over one asyncpg pool, with the life cycle of server.py.          *)
(*                                                                         *)
(* A task runs from one await to the next without interruption, so a step  *)
(* is the code between two awaits.  The program counter names the await:   *)
(*   acquire        waiting for a connection to run the SELECT             *)
(*   fetch          the SELECT is running on the held connection           *)
(*   acquire_audit  waiting for a connection to write the audit entry      *)
(*   insert         the INSERT is running, not committed                   *)
(*   inserted       the INSERT has committed, the answer is on its way     *)
(* Requests are tool calls; each is made at most once.  Queries carry a    *)
(* field "columns", the columns of the result they select.                 *)
(***************************************************************************)
EXTENDS AccessPolicy, Masking

CONSTANTS
  Reqs,             \* tool calls
  Callers,          \* authenticated callers: [user, roles]
  SubClaim,         \* user -> claims.get("sub", ""), the limiter's key
  Conns,            \* the pool's connections (max_size)
  RowCounts,        \* how many rows a SELECT may return
  TableNames,       \* arguments of describe_table
  AuditLimit,       \* get_audit_log's limit
  MaxCrashes,       \* bound on crashes
  UserIds, RATE_LIMIT_RPM, WINDOW, MAX_ROWS, Queries, MaxTime   \* see Guardrails

ASSUME ConnsAssumption == IsFiniteSet(Conns) /\ Conns # {} /\ NULL \notin Conns
ASSUME RowCountsAssumption == RowCounts \subseteq Nat
ASSUME RolesAssumption == \A c \in Callers : c.roles \subseteq DbRoles
ASSUME LimitAssumption == RATE_LIMIT_RPM \in Nat /\ WINDOW \in Nat
ASSUME SubClaimAssumption == \A c \in Callers : SubClaim[c.user] \in UserIds

VARIABLES
  phase,            \* "up", "stopping" (signal received), "down"
  pc,               \* request -> "new", an await (above) or "done"
  job,              \* request -> tool, caller and parameters, from the call on
  idle,             \* connections in the pool's queue
  held,             \* request -> the connection it holds, or NULL
  result,           \* request -> [n, masked], the masked rows, or NULL
  audit,            \* table audit_logs: a set of entries
  reply,            \* request -> what its caller got, or NULL
  now, _rate_windows, admitted,   \* see Guardrails
  crashes,
  former            \* history: the calls that earlier processes got

pool == <<idle, held>>
limiter == <<now, _rate_windows, admitted>>
lives == <<crashes, former>>
vars == <<phase, pc, job, pool, result, audit, reply, limiter, lives>>

G == INSTANCE Guardrails WITH
       RoleSets <- {c.roles : c \in Callers}, last <- NULL

InFlight == {r \in Reqs : pc[r] \notin {"new", "done"}}

-----------------------------------------------------------------------------
(* Answers *)

Answer(kind) == [kind |-> kind, n |-> 0, masked |-> {}, entries |-> {}]

Done(r, answer) ==
    /\ pc' = [pc EXCEPT ![r] = "done"]
    /\ reply' = [reply EXCEPT ![r] = answer]

GoTo(r, await) ==
    /\ pc' = [pc EXCEPT ![r] = await]
    /\ UNCHANGED reply

\* __aexit__ of pool.acquire(): back to the queue on every path out.
Release(r) ==
    /\ idle' = idle \cup {held[r]}
    /\ held' = [held EXCEPT ![r] = NULL]

-----------------------------------------------------------------------------
(* Tool calls: what a handler does before its first await.  The caller's   *)
(* identity and roles are read once, here, from the token.                 *)

CustomerColumns == <<"id", "first_name", "last_name", "email", "phone",
                     "date_of_birth", "ssn", "address_city", "address_state", "kyc_status">>

TransactionColumns == <<"id", "account_id", "amount", "transaction_type",
                        "merchant_name", "merchant_raw", "card_last4",
                        "status", "reference_id", "created_at">>

Arrive(r, c, tool, columns) ==
    /\ phase = "up" /\ pc[r] = "new"
    /\ job' = [job EXCEPT ![r] =
                  [tool |-> tool, user |-> c.user, roles |-> c.roles,
                   columns |-> columns, at |-> now,
                   seen |-> {q \in Reqs : reply[q] # NULL /\ reply[q].kind = "data"}]]
    /\ UNCHANGED <<phase, pool, result, audit, lives, now>>

CallQuery(r, c, q) ==
    \E verdict \in G!Verdicts :
        /\ Arrive(r, c, "query", q.columns)
        /\ G!validate_and_rewrite(SubClaim[c.user], c.roles, q, verdict)
        /\ IF verdict = "ok" THEN GoTo(r, "acquire")
           ELSE Done(r, Answer(IF verdict = "rate_limited" THEN verdict ELSE "error"))

\* The two reports have no guardrails: their SQL is fixed.
CallReport(r, c) ==
    /\ \/ Arrive(r, c, "search_customers", CustomerColumns)
       \/ Arrive(r, c, "get_transaction_summary", TransactionColumns)
    /\ GoTo(r, "acquire")
    /\ UNCHANGED <<_rate_windows, admitted>>

CallListTables(r, c) ==
    /\ Arrive(r, c, "list_tables", <<>>)
    /\ GoTo(r, "acquire")
    /\ UNCHANGED <<_rate_windows, admitted>>

CallDescribeTable(r, c, table) ==
    /\ Arrive(r, c, "describe_table", <<>>)
    /\ IF ToolMayShow(c.roles, table) THEN GoTo(r, "acquire")
       ELSE Done(r, Answer("error"))
    /\ UNCHANGED <<_rate_windows, admitted>>

CallGetAuditLog(r, c) ==
    /\ Arrive(r, c, "get_audit_log", <<>>)
    /\ IF can_access_admin(c.roles) THEN GoTo(r, "acquire")
       ELSE Done(r, Answer("error"))
    /\ UNCHANGED <<_rate_windows, admitted>>

-----------------------------------------------------------------------------
(* The pool.  acquire() has no timeout: it waits until a connection is     *)
(* back, and may then fail if that connection has to be opened anew.       *)

Tier(r) == role_tier(job[r].roles)

Acquire(r) ==
    /\ pc[r] \in {"acquire", "acquire_audit"}
    /\ \E conn \in idle :
        /\ idle' = idle \ {conn}
        /\ held' = [held EXCEPT ![r] = conn]
    /\ GoTo(r, IF pc[r] = "acquire" THEN "fetch" ELSE "insert")
    /\ UNCHANGED <<phase, job, result, audit, limiter, lives>>

\* Only query has an except clause, and only around its SELECT: a server
\* error is caught there, a failed connection is not, here or elsewhere.
FailureAnswers(r) ==
    IF job[r].tool = "query" /\ pc[r] \in {"acquire", "fetch"}
    THEN {"error", "raised"} ELSE {"raised"}

AcquireFails(r) ==
    /\ pc[r] \in {"acquire", "acquire_audit"}
    /\ idle # {}
    /\ \E kind \in FailureAnswers(r) : Done(r, Answer(kind))
    /\ UNCHANGED <<phase, job, pool, result, audit, limiter, lives>>

-----------------------------------------------------------------------------
(* The SELECT returns *)

EmailMasked(r) ==
    \E c \in DOMAIN job[r].columns : mask_fn(job[r].columns[c], Tier(r)) = "email"

Masked(r) == accessed_sensitive(job[r].columns, Tier(r))

\* Faulty variant: the audit connection is acquired inside the first one's block.
BugNestedAcquire(r) ==
    /\ pc[r] = "fetch"
    /\ job[r].tool \in {"query", "search_customers", "get_transaction_summary"}
    /\ \E n \in RowCounts :
        /\ result' = [result EXCEPT ![r] = [n |-> n, masked |-> Masked(r)]]
        /\ GoTo(r, "acquire_audit")
    /\ UNCHANGED <<phase, job, pool, audit, limiter, lives>>

\* query answers an empty result at once; everything else masks and goes on
\* to the audit entry.  A mask may raise (see Masking), outside any try.
FetchRows(r) ==
    /\ pc[r] = "fetch"
    /\ job[r].tool \in {"query", "search_customers", "get_transaction_summary"}
    /\ Release(r)
    /\ \E n \in RowCounts :
        \/ /\ job[r].tool = "query" /\ n = 0
           /\ Done(r, Answer("empty"))
           /\ UNCHANGED result
        \/ /\ n > 0 /\ EmailMasked(r)
           /\ Done(r, Answer("raised"))
           /\ UNCHANGED result
        \/ /\ job[r].tool = "query" => n > 0
           /\ result' = [result EXCEPT ![r] = [n |-> n, masked |-> Masked(r)]]
           /\ GoTo(r, "acquire_audit")
    /\ UNCHANGED <<phase, job, audit, limiter, lives>>

FetchCatalog(r) ==
    /\ pc[r] = "fetch"
    /\ job[r].tool \in {"list_tables", "describe_table"}
    /\ Release(r)
    /\ \/ Done(r, Answer("listing"))
       \/ job[r].tool = "describe_table" /\ Done(r, Answer("error"))
    /\ UNCHANGED <<phase, job, result, audit, limiter, lives>>

\* Faulty variant: ORDER BY created_at without DESC.
BugOldest(entries) ==
    /\ entries \subseteq audit
    /\ \/ entries = audit /\ Cardinality(audit) <= AuditLimit
       \/ Cardinality(audit) > AuditLimit /\ Cardinality(entries) = AuditLimit
    /\ \A e \in entries, f \in audit \ entries : e.created_at <= f.created_at

\* ORDER BY created_at DESC LIMIT: the newest entries, ties in any order.
Newest(entries) ==
    /\ entries \subseteq audit
    /\ \/ entries = audit /\ Cardinality(audit) <= AuditLimit
       \/ Cardinality(audit) > AuditLimit /\ Cardinality(entries) = AuditLimit
    /\ \A e \in entries, f \in audit \ entries : f.created_at <= e.created_at

FetchAuditLog(r) ==
    /\ pc[r] = "fetch"
    /\ job[r].tool = "get_audit_log"
    /\ Release(r)
    /\ \E entries \in SUBSET audit :
        /\ Newest(entries)
        /\ Done(r, [Answer("log") EXCEPT !.entries = entries])
    /\ UNCHANGED <<phase, job, result, audit, limiter, lives>>

\* Faulty variant: the connection of a failed statement is not given back.
BugFetchLeaks(r) ==
    /\ pc[r] = "fetch"
    /\ \E kind \in FailureAnswers(r) : Done(r, Answer(kind))
    /\ UNCHANGED <<phase, job, pool, result, audit, limiter, lives>>

\* An error of the server, a lost connection, or the timeout.
FetchFails(r) ==
    /\ pc[r] = "fetch"
    /\ Release(r)
    /\ \E kind \in FailureAnswers(r) : Done(r, Answer(kind))
    /\ UNCHANGED <<phase, job, result, audit, limiter, lives>>

-----------------------------------------------------------------------------
(* The audit entry *)

\* The caller is named by the sub claim, which is empty where a token has none.
Entry(r) ==
    [req |-> r, user_id |-> SubClaim[job[r].user], roles |-> job[r].roles,
     tool |-> job[r].tool, n |-> result[r].n, masked |-> result[r].masked]

Stamped(r, t) == [entry |-> Entry(r), created_at |-> t]

\* _write_audit's INSERT commits in the database; created_at is when the
\* statement began, some time since the call...
CommitAudit(r) ==
    /\ pc[r] = "insert"
    /\ \E t \in job[r].at .. now : audit' = audit \cup {Stamped(r, t)}
    /\ GoTo(r, "inserted")
    /\ UNCHANGED <<phase, job, pool, result, limiter, lives>>

\* Faulty variant: the answer does not wait for the INSERT.
BugFireAndForget(r) ==
    /\ pc[r] \in {"insert", "inserted"}
    /\ Release(r)
    /\ Done(r, [Answer("data") EXCEPT !.n = result[r].n, !.masked = result[r].masked])
    /\ UNCHANGED <<phase, job, result, audit, limiter, lives>>

\* ... and its confirmation reaches the handler, which answers its caller.
FinishAudit(r) ==
    /\ pc[r] = "inserted"
    /\ Release(r)
    /\ Done(r, [Answer("data") EXCEPT !.n = result[r].n, !.masked = result[r].masked])
    /\ UNCHANGED <<phase, job, result, audit, limiter, lives>>

\* The INSERT fails, or it commits and the confirmation is lost or too late:
\* either way the handler raises.
AuditFails(r) ==
    /\ pc[r] \in {"insert", "inserted"}
    /\ Release(r)
    /\ Done(r, Answer("raised"))
    /\ UNCHANGED <<phase, job, result, audit, limiter, lives>>

\* Faulty variant: a cancelled task gives back what it may not hold.
BugCancelReleases(r) ==
    /\ r \in InFlight
    /\ Release(r)
    /\ Done(r, Answer("cancelled"))
    /\ UNCHANGED <<phase, job, result, audit, limiter, lives>>

\* The task is cancelled at whichever await it is in.
Cancel(r) ==
    /\ r \in InFlight
    /\ IF held[r] = NULL THEN UNCHANGED pool ELSE Release(r)
    /\ Done(r, Answer("cancelled"))
    /\ UNCHANGED <<phase, job, result, audit, limiter, lives>>

-----------------------------------------------------------------------------
(* The process *)

SigTerm ==
    /\ phase = "up"
    /\ phase' = "stopping"
    /\ UNCHANGED <<pc, job, pool, result, audit, reply, limiter, lives>>

\* serve() returns when the calls in progress are answered; pool.close().
ClosePool ==
    /\ phase = "stopping"
    /\ InFlight = {}
    /\ phase' = "down"
    /\ UNCHANGED <<pc, job, pool, result, audit, reply, limiter, lives>>

\* Every call in progress is lost with its process.  Postgres may go on with
\* the statements they had sent; that is out of this model but for one thing:
\* an INSERT may still commit.
Crash ==
    /\ phase \in {"up", "stopping"}
    /\ crashes < MaxCrashes
    /\ crashes' = crashes + 1
    /\ phase' = "down"
    /\ \E S \in SUBSET {r \in Reqs : pc[r] = "insert"} :
        audit' = audit \cup {Stamped(r, now) : r \in S}
    /\ pc' = [r \in Reqs |-> IF r \in InFlight THEN "done" ELSE pc[r]]
    /\ reply' = [r \in Reqs |-> IF r \in InFlight THEN Answer("lost") ELSE reply[r]]
    /\ idle' = Conns
    /\ held' = [r \in Reqs |-> NULL]
    /\ UNCHANGED <<job, result, limiter, former>>

\* A new process has a new pool.
NewProcess ==
    /\ phase = "down"
    /\ phase' = "up"
    /\ idle' = Conns
    /\ former' = {r \in Reqs : pc[r] # "new"}
    /\ UNCHANGED <<pc, job, held, result, audit, reply, now, crashes>>

\* Faulty variant: the rate windows outlive their process.
BugKeepsWindows == NewProcess /\ UNCHANGED <<_rate_windows, admitted>>

\* Nor does it know the rate windows of the process before.
Start ==
    /\ NewProcess
    /\ _rate_windows' = [u \in UserIds |-> <<>>]
    /\ admitted' = [u \in UserIds |-> <<>>]

Tick ==
    /\ now < MaxTime
    /\ now' = now + 1
    /\ UNCHANGED <<phase, pc, job, pool, result, audit, reply,
                   _rate_windows, admitted, lives>>

-----------------------------------------------------------------------------
Init ==
    /\ phase = "up"
    /\ pc = [r \in Reqs |-> "new"]
    /\ job = [r \in Reqs |-> NULL]
    /\ idle = Conns
    /\ held = [r \in Reqs |-> NULL]
    /\ result = [r \in Reqs |-> NULL]
    /\ audit = {}
    /\ reply = [r \in Reqs |-> NULL]
    /\ now = 0
    /\ _rate_windows = [u \in UserIds |-> <<>>]
    /\ admitted = [u \in UserIds |-> <<>>]
    /\ crashes = 0
    /\ former = {}

Call(r) ==
    \E c \in Callers :
        \/ \E q \in Queries : CallQuery(r, c, q)
        \/ CallReport(r, c)
        \/ CallListTables(r, c)
        \/ \E table \in TableNames : CallDescribeTable(r, c, table)
        \/ CallGetAuditLog(r, c)

\* What ends the await a call is in, one way or the other.
Fetched(r) == FetchRows(r) \/ FetchCatalog(r) \/ FetchAuditLog(r) \/ FetchFails(r)
Acquired(r) == Acquire(r) \/ AcquireFails(r)
Audited(r) == CommitAudit(r) \/ FinishAudit(r) \/ AuditFails(r)

Next ==
    \/ \E r \in Reqs : Call(r) \/ Acquired(r) \/ Fetched(r) \/ Audited(r) \/ Cancel(r)
    \/ SigTerm \/ ClosePool \/ Crash \/ Start \/ Tick

Spec == Init /\ [][Next]_vars

\* A statement ends within its timeout (10 s for query, 15 s for the rest),
\* the event loop resumes a task whose await is over, and a released
\* connection goes to a task that waits for one.
Fairness ==
    /\ \A r \in Reqs : WF_vars(Acquired(r)) /\ WF_vars(Fetched(r)) /\ WF_vars(Audited(r))
    /\ WF_vars(ClosePool)

FairSpec == Spec /\ Fairness
-----------------------------------------------------------------------------
Awaits == {"acquire", "fetch", "acquire_audit", "insert", "inserted"}

AuditedTools == {"query", "search_customers", "get_transaction_summary"}

Tools == AuditedTools \cup {"list_tables", "describe_table", "get_audit_log"}

Users == {c.user : c \in Callers}

ResultColumns ==
    {q.columns : q \in Queries} \cup {<<>>, CustomerColumns, TransactionColumns}

Jobs == [tool : Tools, user : Users, roles : SUBSET DbRoles, columns : ResultColumns,
         at : Nat, seen : SUBSET Reqs]

Results == [n : RowCounts, masked : SUBSET SENSITIVE_COLUMNS]

Entries == [req : Reqs, user_id : UserIds, roles : SUBSET DbRoles, tool : AuditedTools,
            n : RowCounts, masked : SUBSET SENSITIVE_COLUMNS]

AuditRows == [entry : Entries, created_at : Nat]

Answers == [kind : {"data", "empty", "listing", "log", "error", "rate_limited",
                    "raised", "cancelled", "lost"},
            n : Nat, masked : SUBSET SENSITIVE_COLUMNS, entries : SUBSET AuditRows]

\* No answer at all is none of the answers.
ASSUME NullAssumption == NULL \notin Answers

(* Type invariant. *)
TypeOK ==
    /\ phase \in {"up", "stopping", "down"}
    /\ pc \in [Reqs -> {"new", "done"} \cup Awaits]
    /\ job \in [Reqs -> Jobs \cup {NULL}]
    /\ \A r \in Reqs : pc[r] # "new" => job[r] \in Jobs
    /\ idle \in SUBSET Conns
    /\ held \in [Reqs -> Conns \cup {NULL}]
    /\ result \in [Reqs -> Results \cup {NULL}]
    /\ \A r \in Reqs : pc[r] \in {"acquire_audit", "insert", "inserted"} =>
           result[r] \in Results /\ job[r].tool \in AuditedTools
    /\ audit \in SUBSET AuditRows
    /\ reply \in [Reqs -> Answers \cup {NULL}]
    /\ \A r \in Reqs : pc[r] # "done" => reply[r] = NULL
    /\ now \in Nat
    /\ former \in SUBSET {r \in Reqs : pc[r] # "new"}

(* No connection is lost or shared on any path out of a handler: each is   *)
(* idle or held by one call, a call holds one exactly while a statement of *)
(* its runs, and none while it waits for one (so no two calls can wait for *)
(* each other's).                                                          *)
PoolPartition ==
    /\ \A conn \in Conns :
           conn \in idle <=> \A r \in Reqs : held[r] # conn
    /\ \A r, q \in Reqs : (held[r] = held[q] /\ held[r] # NULL) => r = q
    /\ \A r \in Reqs : held[r] # NULL <=> pc[r] \in {"fetch", "insert", "inserted"}

(* What get_audit_log leaves out is not because of timing: every call      *)
(* whose rows its caller had received before the log was asked for is in   *)
(* the answer, unless the answer is full of entries at least as recent.    *)
AuditLogComplete ==
    \A r \in Reqs : (reply[r] # NULL /\ reply[r].kind = "log") =>
        \A q \in job[r].seen :
            \E e \in audit :
                /\ e.entry.req = q
                /\ \/ e \in reply[r].entries
                   \/ /\ Cardinality(reply[r].entries) = AuditLimit
                      /\ \A f \in reply[r].entries : e.created_at <= f.created_at

(* "max N queries/min per user": whoever the running process refuses has   *)
(* made N queries of that same process with the same sub claim within the  *)
(* window.  Nobody else's query counts, no older one, no refused one, and  *)
(* none that an earlier process got, however recent.                       *)
RateLimitIsPersonal ==
    \A r \in Reqs \ former : (reply[r] # NULL /\ reply[r].kind = "rate_limited") =>
        Cardinality({q \in Reqs \ ({r} \cup former) :
                        /\ pc[q] # "new"
                        /\ job[q].tool = "query"
                        /\ SubClaim[job[q].user] = SubClaim[job[r].user]
                        /\ reply[q] = NULL \/ reply[q].kind # "rate_limited"
                        /\ job[q].at \in job[r].at - WINDOW .. job[r].at})
            >= RATE_LIMIT_RPM

(* The other side of the quota: of the calls a process is working on at    *)
(* any moment, at most N are queries made with one sub claim within one    *)
(* window, although a query may outlast the window it was admitted in.     *)
(* (Statements that Postgres goes on with after a crash are nobody's call  *)
(* any more and not counted.)                                              *)
RunningWithinQuota ==
    \A r \in InFlight :
        Cardinality({q \in InFlight :
                        /\ job[q].tool = "query"
                        /\ SubClaim[job[q].user] = SubClaim[job[r].user]
                        /\ job[q].at \in job[r].at .. job[r].at + WINDOW})
            <= RATE_LIMIT_RPM

(* The server implements the abstract ledger: an entry is never changed or *)
(* withdrawn, a call leaves at most one, and rows reach a caller only when *)
(* an entry with that caller's sub claim, those roles, that tool, that row *)
(* count and those masked columns is already in audit_logs, crashes        *)
(* included.                                                               *)
ShownTo(r) ==
    [req |-> r, user_id |-> SubClaim[job[r].user], roles |-> job[r].roles,
     tool |-> job[r].tool, n |-> reply[r].n, masked |-> reply[r].masked]

Ledger == INSTANCE AuditLedger WITH
            ledger <- {e.entry : e \in audit},
            shown <- {ShownTo(r) : r \in {q \in Reqs : reply[q] # NULL /\ reply[q].kind = "data"}}

ImplementsLedger == Ledger!Spec

(* Every call in progress ends: no statement, no wait for a connection and *)
(* no other call's failure can hold it for ever.                           *)
EveryCallEnds == \A r \in Reqs : (r \in InFlight) ~> (pc[r] = "done")

(* A stop signal leads to a stopped process, however many calls were in    *)
(* progress and wherever they were.                                        *)
ShutdownCompletes == (phase = "stopping") ~> (phase = "down")

-----------------------------------------------------------------------------
(* What the repository says, refuted by the run marked "violation" *)

(* server.py:71: "All queries are audited.": a query that was executed and *)
(* answered with its result is in audit_logs.                              *)
AllQueriesAudited ==
    \A r \in Reqs :
        (reply[r] # NULL /\ job[r].tool = "query" /\ reply[r].kind \in {"data", "empty"})
            => \E e \in audit : e.entry.req = r
=============================================================================
