----------------------------- MODULE QuotaProofs -----------------------------
(***************************************************************************)
(* The quota seen from the calls the server is working on, for any number  *)
(* of calls, sub claims, quota and window: no more queries than the quota  *)
(* among them were made with one sub claim within one window.              *)
(* Where a query that is still running is young enough to count, the       *)
(* limiter has a time stamp of its own for it; so as many such queries     *)
(* cannot run as a window that lets one more in has stamps.                *)
(***************************************************************************)
EXTENDS AnswerProofs

\* The queries of sub claim u that are in progress.
Running(u) ==
    {q \in Reqs : /\ pc[q] \notin {"new", "done"}
                  /\ job[q].tool = "query" /\ SubClaim[job[q].user] = u}

Young(u, t) == {q \in Running(u) : t - job[q].at <= WINDOW}

MadeWithin(u, s) == {q \in Running(u) : job[q].at \in s .. s + WINDOW}

\* In window W, each of the calls S, made as j tells, has a stamp of its own.
StampEach(S, j, W) ==
    \E f \in [S -> 1 .. Len(W)] :
        /\ \A q, x \in S : f[q] = f[x] => q = x
        /\ \A q \in S : W[f[q]] = j[q].at

StampsInv == \A u \in UserIds : StampEach(Young(u, now), job, _rate_windows[u])

\* A running query was made in the past.
TimesInv ==
    \A q \in Reqs : (pc[q] \notin {"new", "done"} /\ job[q].tool = "query") =>
        job[q].at \in 0 .. now

WithinInv ==
    \A u \in UserIds, s \in Nat :
        /\ IsFiniteSet(MadeWithin(u, s))
        /\ Cardinality(MadeWithin(u, s)) <= RATE_LIMIT_RPM

QuotaInv == ServerInv /\ WindowsInv /\ TimesInv /\ StampsInv /\ WithinInv

LEMMA WithinByUser == ServerInv /\ WithinInv => RunningWithinQuota
<1> SUFFICES ASSUME ServerInv, WithinInv, NEW r \in InFlight
             PROVE  Cardinality(MadeWithin(SubClaim[job[r].user], job[r].at)) <= RATE_LIMIT_RPM
  <2>1. \A r \in InFlight :
            MadeWithin(SubClaim[job[r].user], job[r].at)
              = {q \in InFlight :
                    /\ job[q].tool = "query"
                    /\ SubClaim[job[q].user] = SubClaim[job[r].user]
                    /\ job[q].at \in job[r].at .. job[r].at + WINDOW}
    BY DEF MadeWithin, Running, InFlight
  <2> QED BY <2>1 DEF RunningWithinQuota
<1>1. pc[r] \notin {"new", "done"} /\ r \in Reqs
  BY DEF InFlight
<1>2. job[r].user \in Users
  BY <1>1 DEF ServerInv, TypeInv, DataOK, Jobs
<1>3. SubClaim[job[r].user] \in UserIds
  BY <1>2, SubClaimAssumption DEF Users
<1>4. job[r].at \in Nat
  BY <1>1 DEF ServerInv, TypeInv, DataOK, Jobs
<1> QED BY <1>3, <1>4 DEF WithinInv

-----------------------------------------------------------------------------
(* Stamps, for any set of calls *)

LEMMA NoneStamped == ASSUME NEW j, NEW W \in Seq(Nat) PROVE StampEach({}, j, W)
<1>1. [q \in {} |-> 1] \in [{} -> 1 .. Len(W)]
  OBVIOUS
<1> QED BY <1>1 DEF StampEach

LEMMA FewerStamped ==
    ASSUME NEW S, NEW T, T \subseteq S, NEW j, NEW k, \A q \in T : k[q] = j[q],
           NEW W \in Seq(Nat), StampEach(S, j, W)
    PROVE  StampEach(T, k, W)
<1>1. PICK f \in [S -> 1 .. Len(W)] :
        /\ \A q, x \in S : f[q] = f[x] => q = x
        /\ \A q \in S : W[f[q]] = j[q].at
  BY DEF StampEach
<1> DEFINE g == [q \in T |-> f[q]]
<1>2. /\ g \in [T -> 1 .. Len(W)]
      /\ \A q, x \in T : g[q] = g[x] => q = x
      /\ \A q \in T : W[g[q]] = k[q].at
  BY <1>1
<1> HIDE DEF g
<1> QED BY <1>2 DEF StampEach

(* As many calls with stamps, so many stamps at least. *)
LEMMA StampedAreFew ==
    ASSUME NEW S, NEW j, NEW W \in Seq(Nat), StampEach(S, j, W)
    PROVE  IsFiniteSet(S) /\ Cardinality(S) \in Nat /\ Cardinality(S) <= Len(W)
<1>1. PICK f \in [S -> 1 .. Len(W)] : \A q, x \in S : f[q] = f[x] => q = x
  BY DEF StampEach
<1>2. f \in Injection(S, 1 .. Len(W))
  BY <1>1 DEF Injection, IsInjective
<1>3. IsFiniteSet(1 .. Len(W)) /\ Cardinality(1 .. Len(W)) = Len(W)
  <2>1. PICK n \in Nat : n = Len(W)
    OBVIOUS
  <2>2. IsFiniteSet(1 .. n) /\ Cardinality(1 .. n) = n
    BY FS_Interval
  <2> QED BY <2>1, <2>2
<1>4. IsFiniteSet(S) /\ Cardinality(S) <= Len(W)
  BY <1>2, <1>3, FS_Injection
<1> QED BY <1>4, FS_CardinalityType

(* Eviction takes no stamp of a call that is young. *)
LEMMA EvictionKeepsStamps ==
    ASSUME NEW S, NEW j, NEW t \in Nat, NEW W \in Seq(Nat), NEW k \in 0 .. Len(W),
           \A i \in 1 .. k : t - W[i] > WINDOW,
           \A q \in S : t - j[q].at <= WINDOW,
           StampEach(S, j, W)
    PROVE  StampEach(S, j, SubSeq(W, k + 1, Len(W)))
<1> DEFINE dq == SubSeq(W, k + 1, Len(W))
<1>a. Len(dq) = Len(W) - k
  OBVIOUS
<1>b. \A i \in 1 .. Len(dq) : dq[i] = W[k + i]
  OBVIOUS
<1> HIDE DEF dq
<1>1. Len(dq) = Len(W) - k /\ \A i \in 1 .. Len(dq) : dq[i] = W[k + i]
  BY <1>a, <1>b
<1>2. PICK f \in [S -> 1 .. Len(W)] :
        /\ \A q, x \in S : f[q] = f[x] => q = x
        /\ \A q \in S : W[f[q]] = j[q].at
  BY DEF StampEach
<1>3. ASSUME NEW q \in S PROVE f[q] - k \in 1 .. Len(dq)
  <2>1. f[q] \in 1 .. Len(W) /\ ~(t - W[f[q]] > WINDOW)
    <3>1. W[f[q]] = j[q].at /\ t - j[q].at <= WINDOW /\ f[q] \in 1 .. Len(W)
      BY <1>2
    <3>2. W[f[q]] \in Nat
      BY <3>1
    <3> QED BY <3>1, <3>2, LimitAssumption
  <2>2. f[q] \notin 1 .. k
    BY <2>1
  <2> QED BY <1>1, <2>1, <2>2
<1> DEFINE g == [q \in S |-> f[q] - k]
<1>4. g \in [S -> 1 .. Len(dq)]
  BY <1>3
<1>5. ASSUME NEW q \in S PROVE dq[g[q]] = j[q].at
  <2>1. dq[f[q] - k] = W[k + (f[q] - k)] /\ f[q] \in Nat
    BY <1>1, <1>3
  <2>2. k + (f[q] - k) = f[q]
    BY <2>1
  <2> QED BY <1>2, <2>1, <2>2
<1>6. \A q, x \in S : g[q] = g[x] => q = x
  BY <1>2
<1> HIDE DEF g
<1>7. StampEach(S, j, dq)
  BY <1>4, <1>5, <1>6 DEF StampEach
<1> QED BY <1>7 DEF dq

(* A stamp more leaves the others, and is there for one call more. *)
LEMMA AppendAddsStamp ==
    ASSUME NEW S, NEW j, NEW k, \A q \in S : k[q] = j[q],
           NEW t \in Nat, NEW W \in Seq(Nat), StampEach(S, j, W),
           NEW r, r \in S \/ k[r].at = t
    PROVE  StampEach(S, j, Append(W, t)) /\ StampEach(S \cup {r}, k, Append(W, t))
<1> DEFINE V == Append(W, t)
<1>1. /\ Len(W) \in Nat /\ Len(V) = Len(W) + 1 /\ V[Len(W) + 1] = t
      /\ \A i \in 1 .. Len(W) : V[i] = W[i]
  OBVIOUS
<1> HIDE DEF V
<1>2. PICK f \in [S -> 1 .. Len(W)] :
        /\ \A q, x \in S : f[q] = f[x] => q = x
        /\ \A q \in S : W[f[q]] = j[q].at
  BY DEF StampEach
<1>3. StampEach(S, j, V)
  <2>1. f \in [S -> 1 .. Len(V)] /\ \A q \in S : V[f[q]] = j[q].at
    BY <1>1, <1>2
  <2> QED BY <1>2, <2>1 DEF StampEach
<1> DEFINE g == [q \in S \cup {r} |-> IF q \in S THEN f[q] ELSE Len(V)]
<1>4. g \in [S \cup {r} -> 1 .. Len(V)]
  BY <1>1
<1>5. \A q, x \in S \cup {r} : g[q] = g[x] => q = x
  BY <1>1, <1>2
<1>6. \A q \in S \cup {r} : V[g[q]] = k[q].at
  BY <1>1, <1>2
<1> HIDE DEF g
<1>7. StampEach(S \cup {r}, k, V)
  BY <1>4, <1>5, <1>6 DEF StampEach
<1> QED BY <1>3, <1>7 DEF V

-----------------------------------------------------------------------------
(* What a step does to the queries in progress *)

\* Calls go on or end, but none comes into progress except, perhaps, r.
OnlyNew(r) ==
    \A q \in Reqs : q # r /\ pc'[q] \notin {"new", "done"} => pc[q] \notin {"new", "done"}

\* No query comes into progress.
NoNewQuery == \A u : Running(u)' \subseteq Running(u)

LEMMA StepOfOne ==
    ASSUME ServerInv, NEW r \in Reqs, NEW p, pc' = [pc EXCEPT ![r] = p]
    PROVE  OnlyNew(r)
  BY DEF OnlyNew, ServerInv, TypeInv, PoolInv, PoolTypes

LEMMA OngoingStep ==
    ASSUME ServerInv, NEW r \in Reqs, Acquired(r) \/ Fetched(r) \/ Audited(r) \/ Cancel(r)
    PROVE  NoNewQuery
<1>1. \E p : pc' = [pc EXCEPT ![r] = p]
  BY DEF Acquired, Acquire, AcquireFails, Fetched, FetchRows, FetchCatalog,
         FetchAuditLog, FetchFails, Audited, CommitAudit, FinishAudit, AuditFails,
         Cancel, GoTo, Done
<1>2. pc[r] \notin {"new", "done"} /\ job' = job
  BY DEF Acquired, Acquire, AcquireFails, Fetched, FetchRows, FetchCatalog,
         FetchAuditLog, FetchFails, Audited, CommitAudit, FinishAudit, AuditFails,
         Cancel, InFlight
<1>3. OnlyNew(r)
  BY <1>1, StepOfOne
<1> QED BY <1>2, <1>3 DEF NoNewQuery, Running, OnlyNew

LEMMA ProcessHasNoQuery ==
    ASSUME ServerInv, SigTerm \/ ClosePool \/ Crash \/ Start \/ Tick \/ UNCHANGED vars
    PROVE  NoNewQuery
<1>1. CASE Crash
  BY <1>1 DEF Crash, NoNewQuery, Running, InFlight
<1>2. CASE SigTerm \/ ClosePool \/ Start \/ Tick \/ UNCHANGED vars
  BY <1>2 DEF SigTerm, ClosePool, Start, NewProcess, Tick, vars, NoNewQuery, Running
<1> QED BY <1>1, <1>2

(* A call of any other tool, or one the guardrails answer. *)
LEMMA OtherCallHasNoQuery ==
    ASSUME ServerInv, NEW r \in Reqs, Past, pc[r] = "new",
           NEW p, pc' = [pc EXCEPT ![r] = p], p = "done" \/ job'[r].tool # "query"
    PROVE  NoNewQuery
<1>1. OnlyNew(r)
  BY StepOfOne
<1>2. \A q \in Reqs : pc[q] # "new" => job'[q] = job[q]
  BY DEF Past, Keeps
<1>3. pc'[r] = p
  BY DEF ServerInv, TypeInv, PoolInv, PoolTypes
<1> QED BY <1>1, <1>2, <1>3 DEF NoNewQuery, Running, OnlyNew

-----------------------------------------------------------------------------
(* Steps that bring no query into progress *)

LEMMA WithinShrinks ==
    ASSUME WithinInv, Past, NoNewQuery PROVE WithinInv'
<1> SUFFICES ASSUME NEW u \in UserIds, NEW s \in Nat
             PROVE  /\ IsFiniteSet(MadeWithin(u, s))'
                    /\ Cardinality(MadeWithin(u, s))' <= RATE_LIMIT_RPM
  BY DEF WithinInv
<1>1. MadeWithin(u, s)' \subseteq MadeWithin(u, s)
  BY DEF MadeWithin, NoNewQuery, Running, Past, Keeps
<1>2. IsFiniteSet(MadeWithin(u, s)) /\ Cardinality(MadeWithin(u, s)) <= RATE_LIMIT_RPM
  BY DEF WithinInv
<1>3. /\ IsFiniteSet(MadeWithin(u, s)')
      /\ Cardinality(MadeWithin(u, s)') <= Cardinality(MadeWithin(u, s))
  BY <1>1, <1>2, FS_Subset
<1>4. Cardinality(MadeWithin(u, s)') \in Nat /\ Cardinality(MadeWithin(u, s)) \in Nat
  BY <1>2, <1>3, FS_CardinalityType
<1> QED BY <1>2, <1>3, <1>4, LimitAssumption

LEMMA TimesStayPast ==
    ASSUME ServerInv, TimesInv, Past, now' \in {now, now + 1},
           \A u : \A q \in Running(u)' : q \in Running(u) \/ job'[q].at = now'
    PROVE  TimesInv'
<1> SUFFICES ASSUME NEW q \in Reqs, pc'[q] \notin {"new", "done"}, job'[q].tool = "query"
             PROVE  job'[q].at \in 0 .. now'
  BY DEF TimesInv
<1>1. now \in Nat
  BY DEF ServerInv, TypeInv, DataOK
<1>2. PICK u : u = SubClaim[job'[q].user]
  OBVIOUS
<1>3. CASE job'[q].at = now'
  BY <1>1, <1>3
<1>4. CASE q \in Running(u)
  BY <1>1, <1>4 DEF Running, Past, Keeps, TimesInv
<1>5. q \in Running(u)'
  BY <1>2 DEF Running
<1> QED BY <1>3, <1>4, <1>5

(* As time passes and calls end, fewer queries need a stamp. *)
LEMMA StampsOutlive ==
    ASSUME ServerInv, TimesInv, Past, NEW u, Running(u)' \subseteq Running(u),
           now' \in {now, now + 1}, NEW W \in Seq(Nat), StampEach(Young(u, now), job, W),
           NEW S, S = Young(u, now)', NEW k, k = job'
    PROVE  StampEach(S, k, W)
<1>1. now \in Nat
  BY DEF ServerInv, TypeInv, DataOK
<1>2. ASSUME NEW q \in S PROVE q \in Young(u, now) /\ k[q] = job[q]
  <2>1. q \in Running(u) /\ now' - k[q].at <= WINDOW
    BY <1>2 DEF Young
  <2>2. k[q] = job[q] /\ job[q].at \in 0 .. now
    BY <2>1 DEF Past, Keeps, Running, TimesInv
  <2>3. now - job[q].at <= WINDOW
    BY <1>1, <2>1, <2>2, LimitAssumption
  <2> QED BY <2>1, <2>2, <2>3 DEF Young
<1> QED BY <1>2, FewerStamped

LEMMA QuietKeepsQuota ==
    ASSUME QuotaInv, ServerInv', WindowsInv', Past, NoNewQuery,
           _rate_windows' = _rate_windows, now' \in {now, now + 1}
    PROVE  QuotaInv'
<1>1. TimesInv'
  BY TimesStayPast DEF QuotaInv, NoNewQuery
<1>2. StampsInv'
  <2> SUFFICES ASSUME NEW u \in UserIds PROVE StampEach(Young(u, now), job, _rate_windows[u])'
    BY DEF StampsInv
  <2>1. PICK W \in Seq(Nat) : W = _rate_windows[u]
    BY DEF QuotaInv, WindowsInv
  <2>2. PICK S, k : S = Young(u, now)' /\ k = job'
    OBVIOUS
  <2>3. StampEach(Young(u, now), job, W)
    BY <2>1 DEF QuotaInv, StampsInv
  <2>4. StampEach(S, k, W)
    BY <2>1, <2>2, <2>3, StampsOutlive DEF QuotaInv, NoNewQuery
  <2> QED BY <2>1, <2>2, <2>4 DEF StampEach
<1>3. WithinInv'
  BY WithinShrinks DEF QuotaInv
<1> QED BY <1>1, <1>2, <1>3 DEF QuotaInv

-----------------------------------------------------------------------------
(* A call of query: what it does to the quota of its sub claim *)

(* One more query, made now, does not exceed the quota of any window it is *)
(* made in: all others of that window are young, and have stamps.          *)
LEMMA WithinAfterQuery ==
    ASSUME QuotaInv, Past, NEW u \in UserIds, NEW t \in Nat, t = now,
           NEW W \in Seq(Nat), StampEach(Young(u, t), job, W), Len(W) < RATE_LIMIT_RPM,
           NEW r \in Reqs, job'[r].at = t,
           \A v \in UserIds : Running(v)' \subseteq Running(v) \cup (IF v = u THEN {r} ELSE {})
    PROVE  WithinInv'
<1> USE LimitAssumption
<1> SUFFICES ASSUME NEW v \in UserIds, NEW s \in Nat
             PROVE  /\ IsFiniteSet(MadeWithin(v, s))'
                    /\ Cardinality(MadeWithin(v, s))' <= RATE_LIMIT_RPM
  BY DEF WithinInv
<1>1. PICK M : M = MadeWithin(v, s)'
  OBVIOUS
<1>2. ASSUME NEW q \in M, q # r \/ v # u
      PROVE  q \in Running(v) /\ job[q].at \in s .. s + WINDOW /\ job[q].at \in Nat
  <2>1. q \in Running(v) /\ job'[q].at \in s .. s + WINDOW
    BY <1>1, <1>2 DEF MadeWithin
  <2>2. job'[q] = job[q]
    BY <2>1 DEF Past, Keeps, Running
  <2> QED BY <2>1, <2>2
<1>3. CASE v = u /\ t \in s .. s + WINDOW
  <2>1. M \subseteq Young(u, t) \cup {r}
    <3>1. ASSUME NEW q \in M, q # r PROVE t - job[q].at <= WINDOW
      BY <1>2, <1>3, <3>1
    <3> QED BY <1>2, <1>3, <3>1 DEF Young
  <2>2. PICK Y : Y = Young(u, t)
    OBVIOUS
  <2>3. IsFiniteSet(Y) /\ Cardinality(Y) \in Nat /\ Cardinality(Y) <= Len(W)
    BY <2>2, StampedAreFew
  <2>4. PICK Z : Z = Y \cup {r}
    OBVIOUS
  <2>5. IsFiniteSet(Z) /\ Cardinality(Z) \in Nat /\ Cardinality(Z) <= Cardinality(Y) + 1
    <3>1. /\ IsFiniteSet(Z)
          /\ Cardinality(Z) = IF r \in Y THEN Cardinality(Y) ELSE Cardinality(Y) + 1
      BY <2>3, <2>4, FS_AddElement, Zenon
    <3> QED BY <2>3, <3>1
  <2>6. IsFiniteSet(M) /\ Cardinality(M) <= Cardinality(Z)
    BY <2>1, <2>2, <2>4, <2>5, FS_Subset
  <2>7. Cardinality(M) \in Nat /\ Len(W) \in Nat
    BY <2>6, FS_CardinalityType
  <2> QED BY <1>1, <2>3, <2>5, <2>6, <2>7
<1>4. CASE ~(v = u /\ t \in s .. s + WINDOW)
  <2>1. ASSUME NEW q \in M PROVE q \in MadeWithin(v, s)
    <3>1. q # r \/ v # u
      BY <1>1, <1>4, <2>1 DEF MadeWithin
    <3> QED BY <1>2, <2>1, <3>1 DEF MadeWithin
  <2>2. PICK N : N = MadeWithin(v, s)
    OBVIOUS
  <2>3. IsFiniteSet(N) /\ Cardinality(N) <= RATE_LIMIT_RPM
    BY <2>2 DEF QuotaInv, WithinInv
  <2>4. M \subseteq N
    BY <2>1, <2>2
  <2>5. IsFiniteSet(M) /\ Cardinality(M) <= Cardinality(N)
    BY <2>3, <2>4, FS_Subset
  <2>6. Cardinality(M) \in Nat /\ Cardinality(N) \in Nat
    BY <2>3, <2>5, FS_CardinalityType
  <2> QED BY <1>1, <2>3, <2>5, <2>6
<1> QED BY <1>3, <1>4

LEMMA QueryKeepsQuota ==
    ASSUME QuotaInv, ServerInv', WindowsInv', Past, NEW r \in Reqs, NEW c \in Callers,
           NEW q \in Queries, CallQuery(r, c, q)
    PROVE  QuotaInv'
<1>1. PICK u \in UserIds : u = SubClaim[c.user]
  BY SubClaimAssumption
<1>2. PICK t \in Nat : t = now /\ t = now'
  BY DEF QuotaInv, ServerInv, TypeInv, DataOK, CallQuery, Arrive
<1>3. PICK W \in Seq(Nat) : W = _rate_windows[u]
  BY DEF QuotaInv, WindowsInv
<1>4. PICK verdict \in G!Verdicts :
        /\ Arrive(r, c, "query", q.columns)
        /\ G!validate_and_rewrite(u, c.roles, q, verdict)
        /\ IF verdict = "ok" THEN GoTo(r, "acquire")
           ELSE Done(r, Answer(IF verdict = "rate_limited" THEN verdict ELSE "error"))
  BY <1>1 DEF CallQuery
<1>5. PICK admit \in BOOLEAN :
        G!_check_rate_limit(u, admit) /\ (verdict = "ok" => admit)
  BY <1>4 DEF G!validate_and_rewrite, G!Inspect
<1>6. PICK k \in 0 .. Len(W) :
        /\ G!ExpiredPrefix(W, k)
        /\ admit = (Len(SubSeq(W, k + 1, Len(W))) < RATE_LIMIT_RPM)
        /\ _rate_windows' = [_rate_windows EXCEPT ![u] =
            IF admit THEN Append(SubSeq(W, k + 1, Len(W)), t) ELSE SubSeq(W, k + 1, Len(W))]
  BY <1>2, <1>3, <1>5 DEF G!_check_rate_limit, G!LimiterCall
<1> DEFINE dq == SubSeq(W, k + 1, Len(W))
           new == IF admit THEN Append(dq, t) ELSE dq
<1>7. dq \in Seq(Nat) /\ StampEach(Young(u, t), job, dq)
  <2>1. \A i \in 1 .. k : t - W[i] > WINDOW
    BY <1>2, <1>6 DEF G!ExpiredPrefix
  <2>2. \A x \in Young(u, t) : t - job[x].at <= WINDOW
    BY DEF Young
  <2>3. StampEach(Young(u, t), job, W)
    BY <1>2, <1>3 DEF QuotaInv, StampsInv
  <2>4. StampEach(Young(u, t), job, dq)
    BY <2>1, <2>2, <2>3, EvictionKeepsStamps
  <2> QED BY <2>4
<1>8. /\ admit = (Len(dq) < RATE_LIMIT_RPM)
      /\ _rate_windows' = [_rate_windows EXCEPT ![u] = new]
  BY <1>6
<1> HIDE DEF dq
<1>9. /\ pc[r] = "new" /\ job'[r].tool = "query" /\ job'[r].user = c.user /\ job'[r].at = t
      /\ pc' = [pc EXCEPT ![r] = IF verdict = "ok" THEN "acquire" ELSE "done"]
  BY <1>2, <1>4 DEF Arrive, GoTo, Done, QuotaInv, ServerInv, TypeInv, DataOK
<1>10. \A v : Running(v)' \subseteq Running(v) \cup (IF v = u /\ verdict = "ok" THEN {r} ELSE {})
  <2>1. OnlyNew(r) /\ (pc'[r] \notin {"new", "done"} => verdict = "ok")
    BY <1>9, StepOfOne DEF QuotaInv, ServerInv, TypeInv, PoolInv, PoolTypes
  <2>2. \A x \in Reqs : pc[x] # "new" => job'[x] = job[x]
    BY DEF Past, Keeps
  <2> QED BY <1>1, <1>9, <2>1, <2>2 DEF Running, OnlyNew
<1>11. TimesInv'
  BY <1>2, <1>9, <1>10, TimesStayPast DEF QuotaInv
<1>12. PICK S, j : S = Young(u, now)' /\ j = job'
  OBVIOUS
<1>13. \A x \in S \ {r} : x \in Young(u, t) /\ j[x] = job[x]
  <2>1. \A x \in Running(u) : job'[x] = job[x]
    BY DEF Past, Keeps, Running
  <2> QED BY <1>2, <1>10, <1>12, <2>1 DEF Young
<1>14. verdict # "ok" => S \subseteq Young(u, t)
  <2>1. pc'[r] = "done" \/ verdict = "ok"
    BY <1>9 DEF QuotaInv, ServerInv, TypeInv, PoolInv, PoolTypes
  <2>2. r \in S => pc'[r] # "done"
    BY <1>12 DEF Young, Running
  <2> QED BY <1>13, <2>1, <2>2
<1>15. r \notin Young(u, t) /\ j[r].at = t
  BY <1>9, <1>12 DEF Young, Running
<1>16. new \in Seq(Nat) /\ StampEach(S, j, new)
  <2>1. PICK Y : Y = Young(u, t)
    OBVIOUS
  <2>2. PICK h : h = [x \in Y \cup {r} |-> IF x = r THEN j[r] ELSE job[x]]
    OBVIOUS
  <2>3. /\ \A x \in Y : h[x] = job[x]
        /\ h[r].at = t
        /\ S \subseteq Y \cup {r} /\ \A x \in S : j[x] = h[x]
    BY <1>13, <1>15, <2>1, <2>2
  <2>4. CASE admit
    <3>1. StampEach(Y \cup {r}, h, Append(dq, t))
      BY <1>7, <2>1, <2>3, AppendAddsStamp
    <3>2. Append(dq, t) \in Seq(Nat)
      BY <1>7
    <3>3. PICK V \in Seq(Nat) : V = Append(dq, t)
      BY <3>2
    <3>4. StampEach(S, j, V)
      BY <2>3, <3>1, <3>3, FewerStamped
    <3> QED BY <2>4, <3>2, <3>3, <3>4
  <2>5. CASE ~admit
    <3>1. S \subseteq Y /\ \A x \in S : j[x] = job[x]
      BY <1>5, <1>13, <1>14, <1>15, <2>1, <2>5
    <3>2. StampEach(S, j, dq)
      BY <1>7, <2>1, <3>1, FewerStamped
    <3> QED BY <1>7, <2>5, <3>2
  <2> QED BY <2>4, <2>5
<1> HIDE DEF new
<1>17. StampsInv'
  <2> SUFFICES ASSUME NEW v \in UserIds PROVE StampEach(Young(v, now), job, _rate_windows[v])'
    BY DEF StampsInv
  <2>1. CASE v = u
    <3>1. _rate_windows'[v] = new
      BY <1>8, <2>1 DEF QuotaInv, WindowsInv
    <3> QED BY <1>12, <1>16, <2>1, <3>1 DEF StampEach
  <2>2. CASE v # u
    <3>0. PICK T : T = Young(v, now)'
      OBVIOUS
    <3>1. PICK V \in Seq(Nat) : V = _rate_windows[v]
      BY DEF QuotaInv, WindowsInv
    <3>2. Running(v)' \subseteq Running(v)
      BY <1>10, <2>2
    <3>3. StampEach(Young(v, now), job, V)
      BY <3>1 DEF QuotaInv, StampsInv
    <3>4. StampEach(T, j, V)
      BY <1>2, <1>12, <3>0, <3>1, <3>2, <3>3, StampsOutlive DEF QuotaInv
    <3>5. V = _rate_windows'[v]
      BY <1>8, <2>2, <3>1 DEF QuotaInv, WindowsInv
    <3>6. T = Young(v, now)' /\ j = job' /\ V = _rate_windows'[v]
      BY <1>12, <3>0, <3>5
    <3> QED BY <3>4, <3>6 DEF StampEach
  <2> QED BY <2>1, <2>2
<1>18. WithinInv'
  <2>1. CASE verdict = "ok"
    <3>1. Len(dq) < RATE_LIMIT_RPM
      BY <1>5, <1>8, <2>1
    <3>2. \A v \in UserIds : Running(v)' \subseteq Running(v) \cup (IF v = u THEN {r} ELSE {})
      BY <1>10
    <3> QED BY <1>2, <1>7, <1>9, <3>1, <3>2, WithinAfterQuery
  <2>2. CASE verdict # "ok"
    <3>1. NoNewQuery
      BY <1>10, <2>2 DEF NoNewQuery
    <3> QED BY <3>1, WithinShrinks DEF QuotaInv
  <2> QED BY <2>1, <2>2
<1> QED BY <1>11, <1>17, <1>18 DEF QuotaInv

-----------------------------------------------------------------------------
(* A new process starts with empty windows, and with no query in progress. *)
LEMMA StartKeepsQuota ==
    ASSUME QuotaInv, ServerInv', WindowsInv', Past, Start PROVE QuotaInv'
<1>1. NoNewQuery
  BY ProcessHasNoQuery DEF QuotaInv
<1>2. TimesInv' /\ WithinInv'
  BY <1>1, TimesStayPast, WithinShrinks DEF QuotaInv, NoNewQuery, Start, NewProcess
<1>3. \A u : Running(u)' = {}
  BY DEF Start, NewProcess, Running, QuotaInv, ServerInv, TypeInv, PoolInv, DownIsQuiet
<1>5. StampsInv'
  <2> SUFFICES ASSUME NEW u \in UserIds PROVE StampEach(Young(u, now), job, _rate_windows[u])'
    BY DEF StampsInv
  <2>0. PICK j : j = job'
    OBVIOUS
  <2>1. PICK W \in Seq(Nat) : W = _rate_windows'[u]
    BY DEF WindowsInv
  <2>2. Young(u, now)' = {}
    BY <1>3 DEF Young
  <2>3. StampEach({}, j, W)
    BY NoneStamped
  <2> QED BY <2>0, <2>1, <2>2, <2>3 DEF StampEach
<1> QED BY <1>2, <1>5 DEF QuotaInv

LEMMA CallKeepsQuota ==
    ASSUME QuotaInv, ServerInv', WindowsInv', Past, NEW r \in Reqs, Call(r)
    PROVE  QuotaInv'
<1>1. CASE \E c \in Callers, q \in Queries : CallQuery(r, c, q)
  BY <1>1, QueryKeepsQuota
<1>2. ASSUME NEW c \in Callers,
             \/ CallReport(r, c)
             \/ CallListTables(r, c)
             \/ \E table \in TableNames : CallDescribeTable(r, c, table)
             \/ CallGetAuditLog(r, c)
      PROVE  QuotaInv'
  <2>1. _rate_windows' = _rate_windows /\ now' = now /\ pc[r] = "new"
    BY <1>2 DEF CallReport, CallListTables, CallDescribeTable, CallGetAuditLog, Arrive
  <2>2. PICK tool, columns : tool \in Tools \ {"query"} /\ Arrive(r, c, tool, columns)
    BY <1>2 DEF CallReport, CallListTables, CallDescribeTable, CallGetAuditLog,
                Tools, AuditedTools
  <2>3. job'[r].tool # "query"
    BY <2>2 DEF Arrive, QuotaInv, ServerInv, TypeInv, DataOK
  <2>4. \E p : pc' = [pc EXCEPT ![r] = p]
    BY <1>2 DEF CallReport, CallListTables, CallDescribeTable, CallGetAuditLog, GoTo, Done
  <2>5. NoNewQuery
    BY <2>1, <2>3, <2>4, OtherCallHasNoQuery DEF QuotaInv
  <2> QED BY <2>1, <2>5, QuietKeepsQuota
<1> QED BY <1>1, <1>2 DEF Call

LEMMA QuotaInit == Init => QuotaInv
<1> SUFFICES ASSUME Init PROVE QuotaInv
  OBVIOUS
<1>1. ServerInv /\ WindowsInv
  BY ServerInit, RateInit DEF RateInv
<1>2. \A u : Running(u) = {}
  BY DEF Init, Running
<1>3. \A u, s : MadeWithin(u, s) = {}
  BY <1>2 DEF MadeWithin
<1>4. WithinInv
  BY <1>3, FS_EmptySet, LimitAssumption DEF WithinInv
<1>5. \A u : Young(u, now) = {}
  BY <1>2 DEF Young
<1>6. StampsInv
  BY <1>1, <1>5, NoneStamped DEF StampsInv, WindowsInv
<1>7. TimesInv
  BY DEF Init, TimesInv
<1> QED BY <1>1, <1>4, <1>6, <1>7 DEF QuotaInv

LEMMA QuotaNext == QuotaInv /\ [Next]_vars => QuotaInv'
<1> SUFFICES ASSUME QuotaInv, [Next]_vars PROVE QuotaInv'
  OBVIOUS
<1>1. ServerInv' /\ WindowsInv' /\ Past
  BY ServerNext, PastIsKept, WindowsNext DEF QuotaInv
<1>2. ASSUME NEW r \in Reqs, Acquired(r) \/ Fetched(r) \/ Audited(r) \/ Cancel(r)
      PROVE  QuotaInv'
  <2>1. UNCHANGED limiter
    BY <1>2 DEF Acquired, Acquire, AcquireFails, Fetched, FetchRows, FetchCatalog,
                FetchAuditLog, FetchFails, Audited, CommitAudit, FinishAudit,
                AuditFails, Cancel
  <2>2. NoNewQuery
    BY <1>2, OngoingStep DEF QuotaInv
  <2> QED BY <1>1, <2>1, <2>2, QuietKeepsQuota DEF limiter
<1>3. CASE SigTerm \/ ClosePool \/ Crash \/ Tick \/ UNCHANGED vars
  <2>1. NoNewQuery
    BY <1>3, ProcessHasNoQuery DEF QuotaInv
  <2>2. _rate_windows' = _rate_windows /\ now' \in {now, now + 1}
    BY <1>3 DEF SigTerm, ClosePool, Crash, Tick, vars, limiter
  <2> QED BY <1>1, <2>1, <2>2, QuietKeepsQuota
<1> QED BY <1>1, <1>2, <1>3, CallKeepsQuota, StartKeepsQuota DEF Next

(* For any quota, window, sub claims and number of calls, through crashes, *)
(* stops and restarts: the queries the server is working on that were made *)
(* with one sub claim within one window are never more than the quota.     *)
THEOREM RunningWithinQuotaHolds == Spec => []RunningWithinQuota
<1>1. QuotaInv => RunningWithinQuota
  BY WithinByUser DEF QuotaInv
<1> QED BY <1>1, QuotaInit, QuotaNext, PTL DEF Spec
=============================================================================
