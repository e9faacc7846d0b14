# A TLA+ model of mcp-postgres-oidc

The repository is an MCP server that lets language-model clients query a bank's
PostgreSQL database as authenticated users. Keycloak issues the tokens, FastMCP
checks them, and the server decides for every call what the caller may query,
how much of it they may read, and what is written to the audit log. Around it the
repository has the scripts that start and fill the stack, and an experiment in
which every query runs as a database role of its user. These modules model the
parts in which order, concurrency, failure or arithmetic decide whether the
system is right. TLC checks them on small instances; TLAPS proves every safety
invariant, and both refinements, for every value of the constants.

Paths below are relative to the repository (`src/`).

## 1. The system

| component | code | state | operations |
|---|---|---|---|
| Identity and access policy | `mcp_server/auth/identity.py`, `TABLE_ACCESS` and `ROLE_ORDER` in `mcp_server/guardrails/query_guard.py` | none; a token's claims | token to roles, roles to tier, roles to rank, table checks |
| Query guardrails | `mcp_server/guardrails/query_guard.py` | `_rate_windows`: user id to recent call times | `validate_and_rewrite`: limiter, checks of the text, LIMIT rewriting, hash |
| Masking engine | `mcp_server/masking/engine.py` | none; the policy | `mask_rows` and the masks |
| Tool handlers | `mcp_server/tools/db_tools.py` | one task per call | `query`, `search_customers`, `get_transaction_summary`, `list_tables`, `describe_table`, `get_audit_log`, `_write_audit` |
| Connection pool | asyncpg, created in `mcp_server/server.py` | idle and lent connections | acquire, release, close |
| Server process | `mcp_server/server.py`, `mcp_server/config.py` | running, stopping, stopped | start, stop signal, drain, close, crash |
| Audit trail | `_write_audit`, table `audit_logs` in `postgres/init/01_schema.sql` | the rows of `audit_logs` | insert, read newest |
| OAuth front end | FastMCP's Keycloak provider, `keycloak/realm.template.json` | registered clients, tokens | registration, login, refresh |
| Seeder | `scripts/seed.py` | its next statement; the tables | truncate, insert in batches, assign managers |
| Stack start-up | `up.sh`, `docker-compose.yml` | `.env`, the realm file, the containers, the database volume | generate secrets, render the realm, start and wait; delete `.env`, shut down, seed by hand |
| Tier-2 experiment | `experiments/pg18-oauth/` | the session's token, one connection per call, the buffers on it | pick a role, exchange the token, authenticate by OAUTHBEARER, run one SELECT |
| Smoke test, scripts | `scripts/`, `experiments/pg18-oauth/*.sh` | none | straight-line clients |

How they interact. A call arrives at a handler with the caller's claims in a
context variable; `get_current_user` turns them into a `UserContext`, once. The
handler of `query` calls `validate_and_rewrite`, which is synchronous and owns
the only state shared between calls inside the process, the rate windows. It
then borrows a connection, runs the SELECT under a timeout, gives the
connection back, masks the rows, borrows a connection again, inserts the audit
entry and answers. The reports do the same without the guardrails; the three
catalogue tools stop after the SELECT. All handlers share one pool of at most
ten connections and one event loop: they interleave at every `await`.

`up.sh` writes `.env` once, renders the realm file from it on every run, lets
compose start Postgres, Keycloak, the seeder and the server, and waits for the
last of them. The database volume and a running Keycloak keep the credentials
of the run that made them. The seeder writes into the database that the server
reads and audits into. In the tier-2 experiment a tool call picks a login role
from its session's token, exchanges that token, and speaks the Postgres protocol
itself; Keycloak decides on the roles in the exchanged token, Postgres on the
columns.

What is hard about it:

* calls interleave at each await, and each of them takes a connection twice;
* every await can fail, time out or be cancelled, and the INSERT can commit
  while its confirmation is lost;
* the process can stop or die between the SELECT, the INSERT and the answer;
* the limiter is an argument over sliding windows with a closed boundary;
* the same policy is computed twice, by tier and by rank, and the masking policy
  is read by two functions;
* `_inject_limit` reads and rewrites LIMITs in raw text, decides on the first match
  and rewrites all;
* the seeder is several statements without a transaction, starts again with each
  `docker compose up -d`, and runs beside the server and beside itself;
* credentials are copied at different times into five places, and scripts may be
  interrupted between any two of them;
* a server may refuse, fail or close the connection at any message of the
  wire protocol, and roles may change between login, exchange and query.

What makes each component correct:

* **Policy**: the two computations of access agree for every set of roles.
* **Guardrails**: never more than the quota in any window; a refusal only when
  the quota is used up, by calls to this process with the caller's sub claim; the
  calls in progress stay within it; what leaves is bounded.
* **Masking**: a higher role reads at least as much; read-only reads nothing
  sensitive; a partial mask shows no more of any value than it is meant to;
  whatever is hidden is reported; `describe_table` says the truth.
* **Handlers and pool**: no path loses or shares a connection; no call waits for
  one while holding one; every call ends and every shutdown completes.
* **Audit trail**: entries are only added, at most one per call, and rows reach a
  caller only after the entry that describes exactly those rows.
* **Seeder**: whoever runs it, and however often, the data are one whole batch
  when all have ended by themselves.
* **Stack**: the logins the script shows work; the containers that log in to the
  database have the password of its volume; a second start repairs a dead server;
  a start ends.
* **Tier 2**: rows only in a session of a role the user holds at the time of the
  call, and only of granted columns; a result is whole or there is none; a call ends.

`PROJECT.json` lists the hazards at their lines, with the properties for each.

## 2. The modules

```
           AccessPolicy       RateLimit (abstract)   AuditLedger (abstract)
            |        |            ^ refines              ^ refines
         Masking  Guardrails -----+                      |
          |    |        |  \----- INSTANCE ----+         |
    MaskRows   +--------|------------------ McpServer ---+     PgWire    Seeder
          |             |                      |                 |          |
  MaskRowsProofs   GuardrailsProofs      McpServerProofs       Tier2      Stack
          \             /                      |                 |          |
        AccessPolicyProofs                AnswerProofs       Tier2Proofs  StackProofs
                                               |
                                          QuotaProofs
```

* **AccessPolicy**: pure. `db_roles`, `role_tier`, `can_access_*` of
  `identity.py`; `user_level`, `TablesAllowed` of `query_guard.py`;
  `ToolMayShow`, the test in `list_tables` and `describe_table`.
* **Guardrails**: `validate_and_rewrite` as one step, because the function has no
  await. `_rate_windows` is the deque per user id; `admitted` is a history
  variable, every admitted call since the process started. `ExpiredPrefix` is
  the eviction loop, written as what it removes. A query is a record of what the
  checks can tell about a text: number of statements, type, forbidden words,
  tables found, each match of `LIMIT <digits>` in textual order, and whether the
  text ends inside a comment. The code sees of a match only the number it reads;
  the record also has what the place means to Postgres (`Limits`).
* **RateLimit**: what `_check_rate_limit` promises, with no window to maintain: it
  keeps every admitted call and admits one more exactly if fewer than the quota
  lie in the closed window before it; a new process has forgotten them all.
* **Masking**: the policy, and each mask as the set of positions of the value
  that remain readable. "Shows more" is then set inclusion. `mask_rows` keeps the
  last of two columns with one name, as a dict does.
* **MaskRows**: one call of `mask_rows` at a time, over result sets given as a
  constant, with the properties of what it returns.
* **AuditLedger**: the abstract promise: entries are added, never changed or
  withdrawn; one call has at most one; rows are shown only for an entry that is
  already in the ledger.
* **McpServer**: the server. A request's `pc` names the await it is in:
  `acquire`, `fetch`, `acquire_audit`, `insert`, `inserted`. One action is the
  code between two awaits: `Call*` up to the first, `Acquire` and `AcquireFails`
  for the pool, `FetchRows`, `FetchCatalog`, `FetchAuditLog` and `FetchFails`
  for what the SELECT comes to, `CommitAudit`, `FinishAudit` and `AuditFails`
  for the INSERT, `Cancel` for a cancellation at any await. `SigTerm`,
  `ClosePool`, `Crash` and `Start` are the process, and `former` is a history of
  the calls that earlier processes got. The guardrails are those of `Guardrails`,
  instantiated.
* **PgWire**: one connection of `mcp_tier2/pgwire.py` and `pg_oauth_client.py`,
  which have the same loops. `pc` names the read the client blocks in: the first
  message, the loop up to ReadyForQuery, the loop over the result. Two queues of
  messages join it to the server, which is external: it may accept or refuse at
  each point, answer with an error before or after some rows, and end or break
  the connection at any time, part of what was under way still arriving.
* **Tier2**: the calls around it. `CallTool` and `Exchange` are `_run_as_user`
  of `mcp_tier2/server.py`; `CallCli` is the command-line client; `Login` and
  `ChangeRoles` are the user and an administrator at Keycloak. `Grants` is
  `01_roles_grants.sql`, `Authorized` what `setup_authz.sh` configures, and
  `heldInCall` a history of the roles held since the call began.
* **Seeder**: `seed.py` with one step per statement. A table is the set of
  seeders whose batch it holds, which is all that the unique and foreign keys
  tell apart: both generators are seeded with 42, so each run draws the same
  e-mails and account numbers, while ids differ.
* **Stack**: `up.sh` and `docker-compose.yml` around the seeders. The script's
  steps are `Up`, `Render`, the `Compose*` actions, `WaitKeycloak`, `WaitMcp`, and
  `Interrupt` at any of them; the server starts in `ServerStarts` and, if that
  failed, ends in `ServerExits`. For each holder of credentials a variable says of
  which generation they are: `.env`, the script's environment, the realm file,
  the volume, each container, Keycloak's realm.
* **\*Proofs**: theorems and proofs, `AnswerProofs` those about answers that
  `McpServer` gives (the audit log's, refusals, queries without an entry),
  `QuotaProofs` the one about its queries in progress.
* **MC\***: instances for TLC; `Stack` needs none. Definitions named `Bug...`
  stand beside the definition they vary: each is a plausible bug in that code,
  and the property it breaks is named in `PROJECT.json` under `mutants`.

### Abstractions to know about

The tier-1 server:

* Rows are a count; the contents of a row matter to no property of `McpServer`,
  and `MaskRows` has them. That a mask raises on a bad value is a possible
  outcome of `FetchRows` whenever a result column has the e-mail mask and there
  are rows.
* `created_at` is the database's time at which the INSERT began, so it lies
  between the call and the commit; `CommitAudit` picks any time in that range.
* A crash leaves an INSERT in progress committed or not; the choice is made in
  the crash step, since afterwards nobody waits for it. A SELECT that Postgres goes
  on with after its client died is left out: nobody gets its rows.
* A match of `LIMIT <digits>` is `read`, the number the code sees; `n` and `capped`,
  the bounds the place sets before and after the number is replaced by the cap
  (`LIMIT 1+5000` is read as 1 and is a bound of 5001); and `place`: the whole
  query, a subquery, or text of a comment or a string, which bounds nothing. What is
  appended to a text that ends in a `--` comment is such text. LIMITs the pattern
  does not match (`LIMIT ALL`) are left out: an appended one next to them is a syntax
  error.
* A value to be masked is its length, the place of its first `@`, the places of its
  digits, and whether Python counts it as false, which two masks and the cut at 40
  test.
* The entry's `user_id` is the sub claim, empty where a token has none; the e-mail
  beside it is a copy of another claim and left out.
* `accessed_sensitive` is a set, in the code a list whose order comes from a set.
* The names found by `_extract_table_names` are an input: which names it finds in
  a given text is not modelled. Masking goes by the name of the result column,
  in the model as in the code.
* asyncpg's pool, cancellation, and uvicorn's wait for calls in progress are not
  the repository's code. They are modelled from how the code relies on them and
  marked external in the map.
* The pool's growth between `min_size` and `max_size` is left out; a wait is
  bounded by `max_size` alone. A connection that must be opened anew may fail
  (`AcquireFails`).

The tier-2 experiment:

* A query is one SELECT, as the code's own header says, so its result has at
  most one ReadyForQuery and one error. Messages that both loops skip
  (ParameterStatus, CommandComplete) are left out, since skipping them changes
  nothing. A message is its type; the parsing of rows is left out.
* `EOF` is a close between two messages, where `_recv_msg` returns
  `(None, None)` every time it is asked; `CUT` is a close inside a message or a
  reset, which raises.
* Calls share no connection and no variable but the session's token, so one call
  at a time shows all there is.
* Keycloak's exchange puts the roles of the moment into the new token, and its
  decision on `appdb#role` looks at the roles in the token it is shown.

The stack:

* The credentials of one run of `up.sh` are one number; they are generated
  together and nothing compares two of one generation. A file that was created
  and not yet filled is `Blank`.
* compose starts Postgres and Keycloak in either order, the server and the
  seeder together after both dependencies are met. A container is created anew
  when its environment changed; Keycloak's holds no secret. Starting containers
  end with success or, for the server, by their own exception; between the
  exception and the exit the container still runs, to compose too. Only the
  server's crashes are modelled, since Postgres and Keycloak keep no state
  there that the volume and the realm do not.
* A seeder run by hand has the `DATABASE_URL` its user gave it, or `seed.py`'s
  default (`mcp_secret` at localhost), and never reads `.env`: whether it gets into
  this database is a free choice (`RunSeeder`), and the properties hold either way.
* `docker compose down` is not run while the volume is being initialised, and a
  volume of a half-finished initialisation is not modelled.
* `StartRaces` says whether a dependency may look ready before it is: `pg_isready`
  on the local socket, and Keycloak still importing when the server's provider
  asks. The repository does not determine whether the provider asks at start, so
  it may. `RotatesInUse` says whether `.env` is deleted while a volume or a
  Keycloak made from it exists.

## 3. The runs

| run | question | instance | distinct states |
|---|---|---|---|
| `guardrails` | does the deque implement `RateLimit`; does the window keep its bound and refuse only when it must; do the two access computations agree; are texts bounded that are as simple as the rewriting takes them to be? | two users, quota 2, window 1, three instants, restarts; role sets and query shapes | 26 000 |
| `row_limit`* | "Max 1000 rows returned" | same | |
| `masking` | do masks respect roles, is what they hide reported, do partial masks hide enough? | one and two columns, values around every threshold, a false value | 12 000 |
| `mask_raises`* | `mask_rows` returns for every result | same | |
| `server` | does the server implement `AuditLedger`; are connections kept; is the limit personal; does every call and shutdown end? | two calls, two users, one connection, one crash, quota 1, fairness | 377 000 |
| `three_calls` | what may `get_audit_log` miss; are the calls in progress within the quota; does a new process refuse for what the one before admitted? | three calls of an admin, two connections, limit 1, quota 2, window 0, two instants, one stop and start | 2 142 000 |
| `empty_unaudited`* | "All queries are audited." | two calls, two connections, one crash | |
| `tier2` | are results whole, do rows need a role held, does a tool call end? | any roles, one change of them, three column sets, two rows | 306 000 |
| `wire_spins`* | `run_select` returns or raises | same | |
| `stack` | does seeding settle, do the shown logins and the passwords of the containers agree, does a second start repair? | two seeders, five operations or crashes, start races | 278 000 |
| `rotation`* | `.env` is "Safe to delete to rotate." | with deletion in use, without start races | |
| `seed_truncates`* | audit_logs is "Append-only." | one audit entry | |

Runs marked * check one statement of the repository that the code contradicts;
TLC shows how.

Why the bounds are enough.

* *Limiter.* It treats users alike and looks at time differences only: a second
  user shows interference; quota 2 makes a first and a last entry; window 1 with
  three instants has entries inside, on and beyond the boundary, and lets a
  window fill, empty and fill again. `MaxTime` bounds the clock. Query shapes
  are those the checks tell apart; limits lie one below, at and one above the
  cap, bound the query, a subquery or nothing, or go on as an expression, and a
  query has at most two; some end in a comment.
* *Masking.* Lengths lie below, at and above 4 and 40, texts have fewer than, just
  and more than four digits, an `@` at each end, inside and nowhere; one value is
  false and prints as a text with digits in it (`0:00:00`), one is the empty text.
* *Server.* Two calls are enough to have one wait for the other's connection, a
  reader overlap a writer, and a crash with one entry committed and one not; one
  connection is the smallest pool and the one that blocks soonest; quota 1 makes
  the second query of a user a refusal. `three_calls` takes three calls so that an
  answer can be full and leave one out and a third query meets a quota of two, a
  window of 0 with two instants so that the window ends while its queries still
  run, and two connections so that inserts and the reader overlap. Its process may be
  stopped and started again, also within one window, so that a quota used up before
  the stop must not count after it. It has no crash, which would nearly triple it:
  the proofs of its properties have any number. `MaxCrashes` of one in `server`
  lets the second process run to its end. Its two users have claims of their own;
  the proofs take any claims.
* *Tier 2.* Each loop of the client keeps a flag and a count; two rows make a
  first, a last and a missing one. `MaxRows` bounds them. One change of roles
  (`MaxChanges`) falls before, between or after login, call, exchange and
  authentication, and may both grant and withdraw. The column sets have one that
  every role may read, one that read-only may not, and one for admin only.
* *Stack.* Five operations (`MaxOps`) are enough for start, shutdown, deletion,
  start and a crash or a second seeder. The seeders are the one of compose and
  one by hand. `MaxEntries` bounds audit entries: one can be withdrawn.

Everything invariant in these runs is also proved for all bounds.

Symmetry is used over requests and connections in `three_calls` and
`empty_unaudited`, and over users in `guardrails`: there nothing names one of
them, and no liveness is checked. Deadlock is checked in all runs but those of
`Stack`, where the user may do nothing once the script has ended and operations
are bounded; the other models never stop.

### Fairness

`McpServer!FairSpec` assumes weak fairness of what ends each await of each call,
and of `ClosePool`:

* a SELECT or INSERT ends, by an answer, an error or the timeout: every
  statement runs with one (10 s for `query`, 15 s otherwise, the pool's
  `command_timeout`);
* a call that waits for a connection gets one: asyncpg hands a released
  connection to a waiter, and each lender gives its own back by the point above;
* the event loop resumes a task whose await is over;
* `pool.close()` returns once all connections are back.

No fairness is assumed of calls, cancellation, crashes, restarts, the clock or
the stop signal. Weak fairness of `Acquired` is enough because in the model each
call is made once, so finitely many compete; in the code the pool's queue is
first in, first out, which gives the same for endless arrivals.

`Tier2!FairSpec`: `create_connection` returns or raises; a read returns what has
arrived; `run_select` sets a timeout of 15 s, so a read of nothing ends; the
exchange is an HTTP request with the client library's default timeout. None is
assumed of the server, nor of `pg_oauth_client.py`, which sets no timeout: that is
why `ToolCallEnds` speaks of tool calls.

`Stack!FairSpec`: the script takes its next step when it can, since it polls
without bound; a container that is starting ends its start, and a server whose
start failed ends. None is assumed of the user, the seeders or crashes.

`RerunRepairs` leaves out one moment: a server whose start has failed and whose
process has not ended yet is running to `docker compose up -d`, which then leaves
it alone, and nothing starts it again once it has exited. The script would wait
until it is interrupted and run once more.

## 4. The proofs

Every safety invariant of the passing runs is a theorem, for any values of the
constants. Assumptions are named and evaluated by TLC: quota, window, cap and
bounds are natural numbers; what is found of LIMITs in a text is a sequence of
`Limits` (`QueriesAssumption`); rows are as long as their columns and hold texts
or NULL, and a false value prints as at most 40 characters (`CallsAssumption`);
the three known roles are among the `db_` roles; the pool is a finite non-empty
set; callers hold `db_` roles and their limiter key is a user id; `NULL` is
neither a connection nor an answer; queries of tier 2 name columns of the table;
compose's seeder is one of the seeders. Five theorems have a hypothesis of their
own, stated below; two of these say how far a statement that a run refutes does
hold.

**GuardrailsProofs**

* `TypeCorrect`: windows and histories are sequences of natural numbers.
* `WindowIsRecentHistoryHolds` and `RateBoundHolds`. The rate bound is not
  inductive: that a call is admitted depends on the window, which knows nothing of
  what it evicted. The strengthening says that each history is sorted and not
  in the future, that the window is its recent end, that everything before it is
  older than `WINDOW`, and that the window never exceeds the quota. If the
  admitted call and the one `RPM` places earlier were within one window, the
  earlier one would still be in the deque, which would then be full.
* `RefusedOnlyWhenFullHolds`: at a refusal the entries of the closed window are
  exactly those of the deque, `RPM` of them; needs a bijection for the count.
* `LimiterImplementsRateLimit`: the refinement. A call of the deque maps to `Admit`
  or `Refuse` of the abstract limiter, a clock tick to `Elapse`, a restart to
  `Forget`. Its core is that the calls left in the deque after eviction are as many
  as the history's within the window, which is what the previous proof counts.
* `DenialMatchesListingHolds`: by cases on the three known roles, for any set
  of roles (**AccessPolicyProofs**).
* `FlatQueriesBoundedHolds`: by the three cases of `_inject_limit`. It is about
  texts in which every match is a top-level LIMIT with a plain number and which do
  not end in a comment (`IsFlat`), and claims nothing of any other.

**MaskRowsProofs**: `HiddenIsReportedHolds`, `ReadonlySeesNoSensitiveHolds`,
`DescribeAgreesHolds`, `HigherRoleSeesMoreHolds`, `PartialMasksHideHolds`, for
results of any size, with any values. `AnswerInv` says that a result is what
`mask_rows` computes from the call's arguments; the rest is about the policy:
every mask shows part of the value, admin's all of it, read-only's nothing, and a
higher rank never has a lower tier (`LevelMatchesTier`). That the last of several
columns of one name exists is an induction over the columns, by the
well-foundedness of numbers. `RaisesExactly` says which calls fail: an analyst's,
where an e-mail column holds a text that begins with `@`, and no other; so without
such a text `mask_rows` returns for every result (`MaskingTotalWithoutAt`).

**McpServerProofs**, for any number of calls, callers, connections and crashes:

* `PoolPartitionHolds`: one lemma per kind of step on the pool (take, give back,
  leave alone). The invariant relates `held` to `pc`, which is what makes
  `Release` safe: a call that releases really holds something.
* `WaitersHaveLenders`: whenever a call waits for a connection, one is idle or
  another call runs a statement on it, and statements have timeouts. It is the
  part of `EveryCallEnds` that is safety: no state in which all wait for all. A
  call that waits holds nothing, so by the partition somebody else holds what is
  not idle.
* `TypeCorrect`: needs `PoolPartitionHolds`, because a release adds `held[r]` to
  `idle` and must not add `NULL`.
* `ServerImplementsLedger`: every step maps to a `Write`, a `Show` or a stutter
  of `AuditLedger`. The invariant behind it: a call past its INSERT has its own
  entry, equal to what it is about to answer, in `audit`; a call before it has
  none; and an entry and its call never change. A crash may add several entries,
  each of a call that was inserting and had none.

**AnswerProofs** rests on those, and on `Past`: what no step does to calls
already made.

* `AuditLogCompleteHolds`: what a call had been told of when it was made is in
  `audit` (`SeenInv`, from the ledger's invariant), and stays there; the log is
  read newest first, so an entry that is left out has only newer ones before it.
* `RateLimitIsPersonalHolds`: each time stamp in a window is that of a different
  query of this process with its sub claim (`Accounted`), and the window is sorted;
  at a refusal the stamps kept map one to one into the queries with the refused
  call's claim. It is about the process that runs: a start empties the windows, and
  what an earlier one was asked (`former`) counts neither as refused nor as a reason.
  The calls need not be finitely many: those that count were made one by one, so
  at any time they are (`MadeOneByOne`, `OwnIsFinite`).
* `RefusalsByUser`: the same count of the user's own queries, under `OwnSubs`
  (different users have different claims). Without that it is false: see the hazard
  at `identity.py:52`.
* `AllQueriesAuditedUnlessEmpty`: where no SELECT comes back empty
  (`0 \notin RowCounts`), every query that is answered with its result has its
  entry, whatever fails, crashes or is cancelled. That is not all that "All queries
  are audited" promises: a query that was executed and whose call then failed, in a
  mask (the run `mask_raises`), in the INSERT or by a cancellation, may have no entry.

**QuotaProofs**, `RunningWithinQuotaHolds`: of the calls the server is working on,
no more than the quota are queries made with one sub claim within one window. It
is about the handlers: a SELECT that Postgres goes on with after its client crashed
is not counted, and beside a new process's it may exceed the quota. The invariant
adds to the limiter's that every query in progress, young enough to count, has a
time stamp of its own in its claim's window (`StampsInv`): the converse of
`Accounted`. Eviction takes no young query's stamp, an admission brings one, and a
restart, which empties the windows, comes only when no call is in progress. A
window with room then has fewer stamps than the quota, so fewer young queries run.

**Tier2Proofs**, for any number of rows, column sets and role changes: `TypeCorrect`,
`ResultWholeHolds`, `RowsNeedHeldRoleHolds`. What a client may believe depends on
what is still in the queues, so `CallInv` has a part per read: what may be on its
way (`FirstInv`, `AuthInv`, `QueryInv`), that an AuthenticationOk seen in the loop
follows an accepted token, that a ReadyForQuery ends a result whose remaining
rows are exactly the DataRows before it, or follows an error; and that the token
presented has only roles held in this call (`TokenInv`).

**StackProofs**, for any number of seeders, operations and entries: `TypeCorrect`;
`SeedSettlesHolds`, whose invariant says that no table with unique values holds
two batches, that rows refer to rows, that a seeder is past the tables its batch
is in, and that for whatever is missing there is a seeder that will still bring
it, or that was stopped from outside. `PrintedLoginsWorkHolds`, under
`~RotatesInUse`: a Keycloak that is there imported the realm of the present
`.env`. `PasswordsAgreeHolds`, under the same, is about mcp-server and the seeder
of compose: the volume was initialised with what `.env` still holds, a script that
runs has the same copy, and a container that took its own found a volume there. A
seeder run by hand never reads `.env`, and the theorem says nothing of it.
`WithdrawnByTruncateAlone`, under no hypothesis: in a volume that is kept, only
the seeder's TRUNCATE takes entries away, which bounds what the run
`seed_truncates` finds; it needs that there are no entries without a volume, so
that a new volume starts with none.

Model-checked only: `EveryCallEnds`, `ShutdownCompletes`, `ToolCallEnds` and
`RerunRepairs`, which are liveness under fairness and beyond the prover, and
the statements that are refuted.

## 5. What the checks found

* `_inject_limit` (`query_guard.py:101-109`) works on raw text, against "Max 1000
  rows returned": the LIMIT it appends to a query that ends in a `--` comment is part
  of the comment (TLC's counterexample); a LIMIT in a subquery, a comment or a string
  stands in for the query's own; and the number it reads may be the beginning of an
  expression. The instance has all of these shapes.
* `_partial_email` (`engine.py:35`): a text that begins with `@` raises after the
  SELECT ran; the call fails and leaves no entry.
* `query` (`db_tools.py:233`): an empty result is answered without an entry,
  against "All queries are audited" (`server.py:71`).
* `run_select` (`pgwire.py:86`): a server that closes the connection after the
  query was sent makes the client read the end of the stream for ever, without a
  pause and with no effect of the timeout. `pg_oauth_client.py` has the same loop.
* `up.sh:24` calls `.env` safe to delete to rotate: with a kept volume the server
  cannot log in, exits, and the script waits for it for ever (line 57).
* `seed.py:88` empties `audit_logs`, "Append-only" (`01_schema.sql:77`), on every
  start of the stack, while the server is already answering.

Also met while reading, plain from one line and without a run: a large first
LIMIT raises every later one to the cap; tokens without `sub` share one rate
window (`identity.py:52`); `_write_audit` is awaited, so its failure fails the
answer, against "fire-and-forget" (`db_tools.py:240`); the three catalogue tools
and the reports do not do all that `db_tools.py:4-9` says "every tool" does
(audit entry, guardrails); `query_hash` is of the rewritten text
(`query_guard.py:166`), not the raw one (`01_schema.sql:85`); an analyst sees the
last four characters of `national_id` (`engine.py:107`), which `engine.py:9`
calls redacted; the report names the masked columns, not those "present
(regardless of whether masked)" (`engine.py:161`); an interrupted first run of
`up.sh` leaves a blank `.env` that later runs take for a good one; `seed.py` run by
hand as its line 6 shows logs in with `mcp_secret` at localhost, where compose
publishes no port and `up.sh` has generated another password.

## 6. Not modelled

* **OAuth front end.** `KeycloakAuthProvider` is FastMCP's, and the realm template
  is configuration; the repository holds no step of registration, login, refresh or
  verification. What reaches its code is the claims of a verified token, and those
  are inputs of the models. A role withdrawn while a tier-1 token lives still
  counts until it expires; no step of the server could notice.
* **The text of SQL.** `_extract_table_names`, the tokeniser and the hash work on
  strings; the models start from what they find. Which names a pattern finds in
  which text is a question for tests.
* **Smoke test, helper scripts, certificates.** Straight-line clients without
  state; the login of `drive.py` is `Tier2!Login`.
* `/health`, logging, host, port, proxies and indexes carry no state that a
  property is about. Of the schema, `audit_logs` and the keys that decide what
  concurrent seeders may do are modelled; types, checks and defaults are data.
* An initialisation of the volume that is cut off half-way is Docker's and the
  image's; the repository neither causes nor repairs it.

What could follow, in this order: a server run over two processes that share one
database (the limiter's windows are per process), multi-statement results in
`PgWire` if `run_select` is ever given them, and the composition of `Stack` with
the whole of `McpServer` in place of `WriteAudit`.
