------------------------------ MODULE Guardrails ------------------------------
(***************************************************************************)
(* guardrails/query_guard.py: validate_and_rewrite and the sliding-window  *)
(* rate limiter in front of it.  The function is synchronous code in a     *)
(* single-threaded event loop, so one call is one step.                    *)
(*                                                                         *)
(* A query is abstracted to what the checks tell apart:                    *)
(*   stmts     how many statements the text holds (0: it is blank)         *)
(*   type      the type of the first statement                             *)
(*   keywords  the forbidden words found in it                             *)
(*   tables    the names _extract_table_names finds after FROM and JOIN    *)
(*   limits    what the pattern LIMIT <digits> finds in it, in textual     *)
(*             order (see Limits)                                          *)
(*   commented whether it ends inside a -- comment                         *)
(* A text is identified with its abstraction, and its SHA-256 with it.     *)
(***************************************************************************)
EXTENDS AccessPolicy, Sequences, FiniteSets

CONSTANTS
  UserIds,          \* the keys of the rate limiter's windows
  RATE_LIMIT_RPM,   \* settings.rate_limit_rpm
  WINDOW,           \* the window's length (60 s in the code)
  MAX_ROWS,         \* settings.max_rows
  Queries,          \* the queries that callers send
  RoleSets,         \* the sets of db_ roles that callers hold
  MaxTime           \* bound of the clock

ASSUME RateAssumption == RATE_LIMIT_RPM \in Nat /\ WINDOW \in Nat
ASSUME RowsAssumption == MAX_ROWS \in Nat

\* A place in the text where the pattern matches: the number it reads there;
\* the bound that place really sets, and the one it sets once the number is
\* replaced by the cap (LIMIT 1+5000 is read as 1 and is a bound of 5001);
\* and whether it bounds the whole query, a subquery, or nothing, being text
\* of a comment or a string.  LIMITs the pattern does not see (LIMIT ALL) are
\* left out: next to an appended one they are a syntax error.
Limits == [read : Nat, n : Nat, capped : Nat, place : {"top", "sub", "text"}]

ASSUME QueriesAssumption ==
    \A q \in Queries :
        /\ {"limits", "commented"} \subseteq DOMAIN q
        /\ q.limits \in Seq(Limits) /\ q.commented \in BOOLEAN
ASSUME TimeAssumption == MaxTime \in Nat

VARIABLES
  now,              \* time.monotonic()
  _rate_windows,    \* user id -> timestamps the limiter still holds
  admitted,         \* history: user id -> every timestamp this process admitted
  last              \* history: the latest call and its outcome

limiter == <<_rate_windows, admitted>>
vars == <<now, limiter, last>>

Verdicts == {"rate_limited", "empty", "multiple", "not_select", "forbidden",
             "denied", "ok"}

NoCall == [verdict |-> "none"]

-----------------------------------------------------------------------------
(* _check_rate_limit *)

\* Faulty variant: an entry exactly as old as the window is evicted.
BugEvictsEarly(dq, k) ==
    /\ k \in 0 .. Len(dq)
    /\ \A i \in 1 .. k : now - dq[i] >= WINDOW
    /\ k < Len(dq) => now - dq[k + 1] < WINDOW

\* The loop that evicts expired entries removes exactly the first k of dq.
ExpiredPrefix(dq, k) ==
    /\ k \in 0 .. Len(dq)
    /\ \A i \in 1 .. k : now - dq[i] > WINDOW
    /\ k < Len(dq) => now - dq[k + 1] <= WINDOW

\* The shape of one call of the limiter: how many calls fit, what time is
\* recorded, and whether a refused call is recorded too.
LimiterCall(u, admit, fits, stamp, countRefused) ==
    \E k \in 0 .. Len(_rate_windows[u]) :
        /\ ExpiredPrefix(_rate_windows[u], k)
        /\ LET dq == SubSeq(_rate_windows[u], k + 1, Len(_rate_windows[u])) IN
           /\ admit = (Len(dq) < fits)
           /\ _rate_windows' = [_rate_windows EXCEPT ![u] =
                                   IF admit \/ countRefused THEN Append(dq, stamp) ELSE dq]
           /\ admitted' = [admitted EXCEPT ![u] =
                                   IF admit THEN Append(@, now) ELSE @]

\* Faulty variants: one call too many fits; refused calls use the quota; the
\* start of the window is recorded instead of the call's time; all users
\* share one window.
BugOneTooMany(u, admit) == LimiterCall(u, admit, RATE_LIMIT_RPM + 1, now, FALSE)
BugCountsRefused(u, admit) == LimiterCall(u, admit, RATE_LIMIT_RPM, now, TRUE)
BugStampsWindowStart(u, admit) == LimiterCall(u, admit, RATE_LIMIT_RPM, now - WINDOW, FALSE)
BugOneWindow(u, admit) ==
    LimiterCall(CHOOSE v \in UserIds : TRUE, admit, RATE_LIMIT_RPM, now, FALSE)

\* Evict, then refuse if the window is full, else record the call.
_check_rate_limit(u, admit) == LimiterCall(u, admit, RATE_LIMIT_RPM, now, FALSE)

-----------------------------------------------------------------------------
(* The checks on the text, in the order the code makes them *)

IsPlainSelect(q) == q.stmts = 1 /\ q.type = "SELECT" /\ q.keywords = {}

Inspect(roles, q, verdict) ==
    \/ verdict = "empty" /\ q.stmts = 0
    \/ verdict = "multiple" /\ q.stmts > 1
    \/ verdict = "not_select" /\ q.stmts = 1 /\ q.type # "SELECT"
    \/ verdict = "forbidden" /\ q.stmts = 1 /\ q.type = "SELECT" /\ q.keywords # {}
    \/ verdict = "denied" /\ IsPlainSelect(q) /\ ~TablesAllowed(roles, q.tables)
    \/ verdict = "ok" /\ IsPlainSelect(q) /\ TablesAllowed(roles, q.tables)

\* The clause that is appended to the text: part of the comment, if it ends in one.
Appended(q) ==
    [read |-> MAX_ROWS, n |-> MAX_ROWS, capped |-> MAX_ROWS,
     place |-> IF q.commented THEN "text" ELSE "top"]

\* re.sub: every number the pattern matches becomes the cap.
AllCapped(limits) ==
    [i \in DOMAIN limits |-> [limits[i] EXCEPT !.read = MAX_ROWS, !.n = limits[i].capped]]

\* Rewrites a query whose first number read is above a threshold.
LimitAbove(q, threshold) ==
    IF q.limits = <<>> THEN [q EXCEPT !.limits = <<Appended(q)>>]
    ELSE IF q.limits[1].read > threshold THEN [q EXCEPT !.limits = AllCapped(@)]
    ELSE q

\* Faulty variant: a limit just above the cap is let through.
BugCapPlusOne(q) == LimitAbove(q, MAX_ROWS + 1)

\* Reads the FIRST match only: above the cap, every match becomes the cap;
\* otherwise nothing changes; with no match at all, the cap is appended.
_inject_limit(q) == LimitAbove(q, MAX_ROWS)

\* One whole call, with everything it changes.
validate_and_rewrite(u, roles, q, verdict) ==
    \/ /\ verdict = "rate_limited"
       /\ _check_rate_limit(u, FALSE)
    \/ /\ Inspect(roles, q, verdict)
       /\ _check_rate_limit(u, TRUE)

-----------------------------------------------------------------------------
Init ==
    /\ now = 0
    /\ _rate_windows = [u \in UserIds |-> <<>>]
    /\ admitted = [u \in UserIds |-> <<>>]
    /\ last = NoCall

Validate(u) ==
    \E roles \in RoleSets, q \in Queries, verdict \in Verdicts :
        /\ validate_and_rewrite(u, roles, q, verdict)
        /\ last' = [user |-> u, roles |-> roles, raw |-> q, at |-> now,
                    verdict |-> verdict, clean |-> _inject_limit(q)]
        /\ UNCHANGED now

Tick ==
    /\ now < MaxTime
    /\ now' = now + 1
    /\ UNCHANGED <<limiter, last>>

\* The windows live in the process: a restarted server has none.
Restart ==
    /\ _rate_windows' = [u \in UserIds |-> <<>>]
    /\ admitted' = [u \in UserIds |-> <<>>]
    /\ last' = NoCall
    /\ UNCHANGED now

Next == (\E u \in UserIds : Validate(u)) \/ Tick \/ Restart

Spec == Init /\ [][Next]_vars

-----------------------------------------------------------------------------
(* Type invariant: windows and histories are sequences of times. *)
TypeOK ==
    /\ now \in Nat
    /\ _rate_windows \in [UserIds -> Seq(Nat)]
    /\ admitted \in [UserIds -> Seq(Nat)]

(* "max N queries/min per user": among the calls one process admits for a  *)
(* user id, any RPM + 1 consecutive ones span more than the window.        *)
RateBound ==
    \A u \in UserIds : \A i \in DOMAIN admitted[u] :
        i + RATE_LIMIT_RPM \in DOMAIN admitted[u] =>
            admitted[u][i + RATE_LIMIT_RPM] - admitted[u][i] > WINDOW

(* The limiter refuses only a user whose quota is really used up: at that  *)
(* moment exactly RPM admitted calls lie in the closed window, so refused  *)
(* calls and evicted entries never prolong a refusal.                      *)
RefusedOnlyWhenFull ==
    last.verdict = "rate_limited" =>
        Cardinality({i \in DOMAIN admitted[last.user] :
                        /\ admitted[last.user][i] <= last.at
                        /\ last.at - admitted[last.user][i] <= WINDOW})
            = RATE_LIMIT_RPM

(* The limiter, with its window that forgets, decides as one that          *)
(* remembers all: a call is admitted exactly if fewer than RPM admitted    *)
(* calls of its user lie in the closed window, whatever the query says.    *)
RL == INSTANCE RateLimit WITH
        Quota <- RATE_LIMIT_RPM, Window <- WINDOW,
        answer <- IF last.verdict = "none" THEN <<>>
                  ELSE <<last.user, last.verdict # "rate_limited">>

ImplementsRateLimit == RL!Spec

(* The limiter's window is the recent end of the history, nothing lost,    *)
(* duplicated or reordered, and everything evicted is out of the window.   *)
WindowIsRecentHistory ==
    \A u \in UserIds :
        LET evicted == Len(admitted[u]) - Len(_rate_windows[u]) IN
        /\ Len(_rate_windows[u]) <= Len(admitted[u])
        /\ Len(_rate_windows[u]) <= RATE_LIMIT_RPM
        /\ \A i \in 1 .. Len(_rate_windows[u]) :
               _rate_windows[u][i] = admitted[u][evicted + i]
        /\ \A i \in 1 .. evicted : now - admitted[u][i] > WINDOW

(* The two access computations agree: a plain SELECT is denied to a caller *)
(* exactly when it names a table that list_tables hides from that caller.  *)
DenialMatchesListing ==
    /\ last.verdict = "ok" =>
           \A t \in last.raw.tables : ToolMayShow(last.roles, t)
    /\ last.verdict = "denied" =>
           \E t \in last.raw.tables : ~ToolMayShow(last.roles, t)

BoundsResult(q) ==
    \E i \in DOMAIN q.limits : q.limits[i].place = "top" /\ q.limits[i].n <= MAX_ROWS

\* The texts the rewriting is written for: every match is a top-level LIMIT
\* clause with a number and nothing else, and the text's end is not a comment.
IsFlat(q) ==
    /\ ~q.commented
    /\ \A i \in DOMAIN q.limits :
           q.limits[i].place = "top" /\ q.limits[i].n = q.limits[i].read
           /\ q.limits[i].capped = MAX_ROWS

(* _inject_limit's "Ensure the query has a LIMIT <= MAX_ROWS", for the     *)
(* texts it is written for; MaxRowsReturned below shows it of no others.   *)
FlatQueriesBounded ==
    (last.verdict = "ok" /\ IsFlat(last.raw)) => BoundsResult(last.clean)

-----------------------------------------------------------------------------
(* What the repository says, refuted by the run marked "violation" *)

(* db_tools.py:202: "Max 1000 rows returned": every accepted query comes   *)
(* out with a top-level bound of at most max_rows.                         *)
MaxRowsReturned == last.verdict = "ok" => BoundsResult(last.clean)
=============================================================================
