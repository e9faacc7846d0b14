---------------------------- MODULE AnswerProofs ----------------------------
(***************************************************************************)
(* Two answers a caller may dispute, for any number of calls: what the     *)
(* audit log leaves out, and a refusal by the rate limiter.  Both rest on  *)
(* what no step does to calls already made (Past), and on the ledger's     *)
(* invariant.  An entry is missing from the log's answer only because      *)
(* newer ones filled it; and each time stamp in a user's window is that    *)
(* of a different query of theirs, so a full window is their own doing.    *)
(***************************************************************************)
EXTENDS McpServerProofs, FiniteSetTheorems

Logged(q) == \E e \in audit : e.entry.req = q

\* A call knows of answers that were given before it: their entries exist.
SeenInv == \A r \in Reqs : pc[r] # "new" => \A q \in job[r].seen : Logged(q)

LogInv == ServerInv /\ SeenInv /\ AuditLogComplete

-----------------------------------------------------------------------------
(* Who was told has an entry. *)
LEMMA ToldIsLogged ==
    ASSUME LedgerInv, NEW q \in Reqs, Told(q) PROVE Logged(q)
<1>1. PICK e \in audit : e.entry = Entry(q)
  BY DEF LedgerInv, Written
<1>2. Entry(q).req = q
  BY DEF Entry
<1> QED BY <1>1, <1>2 DEF Logged

Refused(r) == reply[r] # NULL /\ reply[r].kind = "rate_limited"

\* What every step does to the past of the calls: nothing.
Keeps ==
    /\ audit \subseteq audit'
    /\ \A r \in Reqs : pc[r] # "new" => pc'[r] # "new" /\ job'[r] = job[r]
    /\ \A r \in Reqs : pc[r] # "new" => (Refused(r)' <=> Refused(r))
    /\ \A r \in Reqs : pc[r] = "done" => reply'[r] = reply[r]
    /\ \A r \in Reqs : (pc[r] = "new" /\ pc'[r] # "new") =>
           \A q \in job'[r].seen : q \in Reqs /\ Told(q)

\* The only new answer with a log is get_audit_log's.
Reads ==
    \A r \in Reqs : (reply'[r] # NULL /\ reply'[r].kind = "log" /\ reply'[r] # reply[r]) =>
        pc[r] = "fetch" /\ Newest(reply'[r].entries)

\* Only a call's first step can refuse it.
Refuses == \A r \in Reqs : (pc[r] = "new" /\ Refused(r)') => Call(r)

Past == Keeps /\ Reads /\ Refuses

(* A step of call r alone, one that answers no log and refuses nothing. *)
LEMMA PastOfOne ==
    ASSUME ServerInv, NEW r \in Reqs, pc[r] \notin {"new", "done"},
           NEW p \in PcValues \ {"new"}, pc' = [pc EXCEPT ![r] = p],
           audit \subseteq audit', job' = job,
           \/ reply' = reply
           \/ \E a \in Answers : reply' = [reply EXCEPT ![r] = a]
                           /\ a.kind \notin {"log", "rate_limited"}
    PROVE  Past
<1>1. /\ \A q \in Reqs : pc[q] = "new" => pc'[q] = "new"
      /\ p # "new" => \A q \in Reqs : pc[q] # "new" => pc'[q] # "new"
  BY DEF ServerInv, TypeInv, PoolInv, PoolTypes
<1>2. \A q \in Reqs : q # r => reply'[q] = reply[q]
  BY DEF ServerInv, TypeInv, DataOK
<1>3. Reads
  <2>1. CASE reply' = reply
    BY <2>1 DEF Reads
  <2>2. ASSUME NEW a \in Answers, reply' = [reply EXCEPT ![r] = a],
               a.kind \notin {"log", "rate_limited"}
        PROVE  Reads
    <3>1. reply'[r] = a
      BY <2>2 DEF ServerInv, TypeInv, DataOK
    <3> QED BY <1>2, <2>2, <3>1 DEF Reads
  <2> QED BY <2>1, <2>2
<1>4. ASSUME NEW q \in Reqs PROVE Refused(q)' <=> Refused(q)
  <2>1. CASE q # r \/ reply' = reply
    BY <1>2, <2>1 DEF Refused
  <2>2. ASSUME NEW a \in Answers, q = r, reply' = [reply EXCEPT ![r] = a],
               a.kind \notin {"log", "rate_limited"}
        PROVE  ~Refused(q)' /\ ~Refused(q)
    <3>1. reply'[r] = a /\ reply[r] = NULL
      BY <2>2 DEF ServerInv, TypeInv, DataOK
    <3> QED BY <2>2, <3>1 DEF Refused
  <2> QED BY <2>1, <2>2
<1>5. Refuses
  BY <1>4 DEF Refuses, Refused, ServerInv, TypeInv, DataOK
<1> QED BY <1>1, <1>2, <1>3, <1>4, <1>5 DEF Past, Keeps

LEMMA PastOfCall ==
    ASSUME ServerInv, NEW r \in Reqs, Call(r) PROVE Past
<1>1. /\ PoolInv /\ pc[r] = "new" /\ audit' = audit
      /\ \E c \in Callers, tool \in Tools, columns \in ResultColumns : Arrive(r, c, tool, columns)
      /\ \/ GoTo(r, "acquire")
         \/ \E kind \in {"error", "rate_limited"} : Done(r, Answer(kind))
  BY CallStep DEF ServerInv, TypeInv
<1>2. /\ \A q \in Reqs : q # r => job'[q] = job[q]
      /\ \A q \in job'[r].seen : q \in Reqs /\ Told(q)
  BY <1>1 DEF Arrive, ServerInv, TypeInv, DataOK, Told
<1>3. \A q \in Reqs : q # r => pc'[q] = pc[q] /\ reply'[q] = reply[q]
  BY <1>1 DEF GoTo, Done, ServerInv, TypeInv, PoolInv, PoolTypes, DataOK
<1>4. reply'[r] = reply[r] \/ reply'[r].kind # "log"
  <2>1. \A kind \in {"error", "rate_limited"} : Answer(kind).kind # "log"
    BY AnswersTyped
  <2> QED BY <1>1, <2>1 DEF GoTo, Done, ServerInv, TypeInv, DataOK
<1>5. Keeps
  BY <1>1, <1>2, <1>3 DEF Keeps, Refused
<1>6. Reads
  BY <1>3, <1>4 DEF Reads
<1>7. Refuses
  BY <1>3 DEF Refuses, Refused, ServerInv, TypeInv, DataOK
<1> QED BY <1>5, <1>6, <1>7 DEF Past

LEMMA PastOfAcquired ==
    ASSUME ServerInv, NEW r \in Reqs, Acquired(r) PROVE Past
<1>1. CASE Acquire(r)
  BY <1>1, PastOfOne DEF Acquire, GoTo, PcValues, Awaits
<1>2. CASE AcquireFails(r)
  <2>1. /\ pc[r] \notin {"new", "done"} /\ UNCHANGED <<job, audit>>
        /\ \E kind \in {"error", "raised"} : Done(r, Answer(kind))
    BY <1>2 DEF AcquireFails, FailureAnswers
  <2>2. \A kind \in {"error", "raised"} :
          Answer(kind) \in Answers /\ Answer(kind).kind \notin {"log", "rate_limited"}
    BY AnswersTyped
  <2> QED BY <2>1, <2>2, PastOfOne DEF Done, PcValues
<1> QED BY <1>1, <1>2 DEF Acquired

LEMMA PastOfFetched ==
    ASSUME ServerInv, NEW r \in Reqs, Fetched(r) PROVE Past
<1>1. pc[r] = "fetch" /\ UNCHANGED <<job, audit>>
  BY DEF Fetched, FetchRows, FetchCatalog, FetchAuditLog, FetchFails
<1>2. \/ GoTo(r, "acquire_audit")
      \/ \E kind \in {"empty", "raised", "listing", "error"} : Done(r, Answer(kind))
      \/ \E entries \in SUBSET audit :
            Newest(entries) /\ Done(r, [Answer("log") EXCEPT !.entries = entries])
  BY DEF Fetched, FetchRows, FetchCatalog, FetchAuditLog, FetchFails, FailureAnswers
<1>3. CASE GoTo(r, "acquire_audit")
  BY <1>1, <1>3, PastOfOne DEF GoTo, PcValues, Awaits
<1>4. ASSUME NEW kind \in {"empty", "raised", "listing", "error"}, Done(r, Answer(kind))
      PROVE  Past
  <2>1. Answer(kind) \in Answers /\ Answer(kind).kind \notin {"log", "rate_limited"}
    BY AnswersTyped
  <2> QED BY <1>1, <1>4, <2>1, PastOfOne DEF Done, PcValues
<1>5. ASSUME NEW entries \in SUBSET audit, Newest(entries),
             Done(r, [Answer("log") EXCEPT !.entries = entries])
      PROVE  Past
  <2>1. /\ reply'[r].entries = entries
        /\ \A q \in Reqs : q # r => reply'[q] = reply[q] /\ pc'[q] = pc[q]
    BY <1>5 DEF Done, Answer, ServerInv, TypeInv, DataOK, PoolInv, PoolTypes
  <2>2. ~Refused(r)' /\ ~Refused(r) /\ pc'[r] # "new"
    BY <1>1, <1>5 DEF Refused, Done, Answer, ServerInv, TypeInv, DataOK, PoolInv, PoolTypes
  <2>3. Refuses
    BY <2>1, <2>2 DEF Refuses, Refused, ServerInv, TypeInv, DataOK
  <2> QED BY <1>1, <1>5, <2>1, <2>2, <2>3 DEF Past, Keeps, Reads, Refused
<1> QED BY <1>2, <1>3, <1>4, <1>5

LEMMA PastOfAudited ==
    ASSUME ServerInv, NEW r \in Reqs, Audited(r) PROVE Past
<1>1. CASE CommitAudit(r)
  <2>1. /\ pc[r] = "insert" /\ GoTo(r, "inserted") /\ job' = job
        /\ audit \subseteq audit'
    BY <1>1 DEF CommitAudit
  <2> QED BY <2>1, PastOfOne DEF GoTo, PcValues, Awaits
<1>2. CASE FinishAudit(r)
  <2> DEFINE a == [Answer("data") EXCEPT !.n = result[r].n, !.masked = result[r].masked]
  <2>1. pc[r] = "inserted" /\ Done(r, a) /\ UNCHANGED <<job, audit>>
    BY <1>2 DEF FinishAudit
  <2>2. result[r] \in Results
    BY <2>1 DEF ServerInv, TypeInv, DataOK, WithRows
  <2>3. a \in Answers /\ a.kind \notin {"log", "rate_limited"}
    BY <2>2, RowCountsAssumption DEF Answer, Answers, Results
  <2> HIDE DEF a
  <2> QED BY <2>1, <2>3, PastOfOne DEF Done, PcValues
<1>3. CASE AuditFails(r)
  <2>1. /\ pc[r] \notin {"new", "done"} /\ UNCHANGED <<job, audit>>
        /\ Done(r, Answer("raised"))
    BY <1>3 DEF AuditFails
  <2>2. Answer("raised") \in Answers /\ Answer("raised").kind \notin {"log", "rate_limited"}
    BY AnswersTyped
  <2> QED BY <2>1, <2>2, PastOfOne DEF Done, PcValues
<1> QED BY <1>1, <1>2, <1>3 DEF Audited

LEMMA PastOfCancel ==
    ASSUME ServerInv, NEW r \in Reqs, Cancel(r) PROVE Past
<1>1. /\ pc[r] \notin {"new", "done"} /\ UNCHANGED <<job, audit>>
      /\ Done(r, Answer("cancelled"))
  BY DEF Cancel, InFlight
<1>2. Answer("cancelled") \in Answers /\ Answer("cancelled").kind \notin {"log", "rate_limited"}
  BY AnswersTyped
<1> QED BY <1>1, <1>2, PastOfOne DEF Done, PcValues

(* A crash answers nobody with a log and withdraws no entry. *)
LEMMA PastOfCrash ==
    ASSUME ServerInv, Crash PROVE Past
<1>1. /\ audit \subseteq audit' /\ job' = job
      /\ \A r \in Reqs : pc'[r] = IF r \in InFlight THEN "done" ELSE pc[r]
      /\ \A r \in Reqs : reply'[r] = IF r \in InFlight THEN Answer("lost") ELSE reply[r]
  BY DEF Crash
<1>2. \A r \in Reqs : r \in InFlight <=> pc[r] \notin {"new", "done"}
  BY DEF InFlight
<1>3. Answer("lost").kind \notin {"log", "rate_limited"}
  BY AnswersTyped
<1>4. \A r \in Reqs : pc[r] # "done" => reply[r] = NULL
  BY DEF ServerInv, TypeInv, DataOK
<1> QED BY <1>1, <1>2, <1>3, <1>4 DEF Past, Keeps, Reads, Refuses, Refused

LEMMA PastOfProcess ==
    ASSUME ServerInv, SigTerm \/ ClosePool \/ Start \/ Tick \/ UNCHANGED vars
    PROVE  Past
<1>1. UNCHANGED <<pc, job, audit, reply>>
  BY DEF SigTerm, ClosePool, Start, NewProcess, Tick, vars
<1>2. \A r \in Reqs : pc[r] # "done" => reply[r] = NULL
  BY DEF ServerInv, TypeInv, DataOK
<1> QED BY <1>1, <1>2 DEF Past, Keeps, Reads, Refuses, Refused

LEMMA PastIsKept == ServerInv /\ [Next]_vars => Past
<1> SUFFICES ASSUME ServerInv, [Next]_vars PROVE Past
  OBVIOUS
<1>1. ASSUME NEW r \in Reqs,
             Call(r) \/ Acquired(r) \/ Fetched(r) \/ Audited(r) \/ Cancel(r)
      PROVE  Past
  BY <1>1, PastOfCall, PastOfAcquired, PastOfFetched, PastOfAudited, PastOfCancel
<1> QED BY <1>1, PastOfCrash, PastOfProcess DEF Next

-----------------------------------------------------------------------------
LEMMA SeenNext ==
    ASSUME ServerInv, SeenInv, Past PROVE SeenInv'
<1> SUFFICES ASSUME NEW r \in Reqs, pc'[r] # "new", NEW q \in job'[r].seen
             PROVE  Logged(q)'
  BY DEF SeenInv
<1>1. Logged(q)
  <2>1. CASE pc[r] = "new"
    BY <2>1, ToldIsLogged DEF Past, Keeps, ServerInv
  <2>2. CASE pc[r] # "new"
    BY <2>2 DEF Past, Keeps, SeenInv
  <2> QED BY <2>1, <2>2
<1> QED BY <1>1 DEF Logged, Past, Keeps

\* Either an entry of q is in the answer, or newer ones fill it.
Excused(q, rows, entries) ==
    \E e \in rows :
        /\ e.entry.req = q
        /\ \/ e \in entries
           \/ /\ Cardinality(entries) = AuditLimit
              /\ \A f \in entries : e.created_at <= f.created_at

(* The newest entries excuse every entry they leave out. *)
LEMMA NewestExcuses ==
    ASSUME NEW q, Logged(q), NEW entries, Newest(entries)
    PROVE  Excused(q, audit, entries)
<1>1. PICK e \in audit : e.entry.req = q
  BY DEF Logged
<1>2. CASE e \in entries
  BY <1>1, <1>2 DEF Excused
<1>3. CASE e \notin entries
  <2>1. entries # audit /\ e \in audit \ entries
    BY <1>1, <1>3
  <2>2. Cardinality(entries) = AuditLimit
    BY <2>1 DEF Newest
  <2>3. \A f \in entries : e.created_at <= f.created_at
    BY <2>1 DEF Newest
  <2> QED BY <1>1, <2>2, <2>3 DEF Excused
<1> QED BY <1>2, <1>3

LEMMA CompleteNext ==
    ASSUME LogInv, Past PROVE AuditLogComplete'
<1> USE DEF LogInv
<1>0. AuditLogComplete <=>
        \A r \in Reqs : (reply[r] # NULL /\ reply[r].kind = "log") =>
            \A q \in job[r].seen : Excused(q, audit, reply[r].entries)
  BY DEF AuditLogComplete, Excused
<1>1. ASSUME NEW r \in Reqs, reply'[r] # NULL, reply'[r].kind = "log",
             NEW q \in job'[r].seen
      PROVE  Excused(q, audit', reply'[r].entries)
  <2>1. CASE reply'[r] = reply[r]
    <3>1. pc[r] # "new"
      BY <1>1, <2>1 DEF ServerInv, TypeInv, DataOK
    <3>2. Excused(q, audit, reply'[r].entries)
      BY <1>0, <1>1, <2>1, <3>1 DEF Past, Keeps
    <3> QED BY <3>2 DEF Excused, Past, Keeps
  <2>2. CASE reply'[r] # reply[r]
    <3>1. pc[r] = "fetch" /\ Newest(reply'[r].entries)
      BY <1>1, <2>2 DEF Past, Reads
    <3>2. Logged(q)
      BY <1>1, <3>1 DEF Past, Keeps, SeenInv
    <3>3. Excused(q, audit, reply'[r].entries)
      BY <3>1, <3>2, NewestExcuses
    <3> QED BY <3>3 DEF Excused, Past, Keeps
  <2> QED BY <2>1, <2>2
<1> QED BY <1>1 DEF AuditLogComplete, Excused

LEMMA LogInit == Init => LogInv
<1>1. Init => SeenInv /\ AuditLogComplete
  BY DEF Init, SeenInv, AuditLogComplete
<1> QED BY <1>1, ServerInit DEF LogInv

LEMMA LogNext == LogInv /\ [Next]_vars => LogInv'
  BY ServerNext, PastIsKept, SeenNext, CompleteNext DEF LogInv

(* Whatever the number of calls, connections and crashes: the entry of     *)
(* every call whose rows were out before the log was asked for is in the   *)
(* log's answer, or the answer is full of entries at least as recent.      *)
THEOREM AuditLogCompleteHolds == Spec => []AuditLogComplete
<1>1. LogInv => AuditLogComplete
  BY DEF LogInv
<1> QED BY <1>1, LogInit, LogNext, PTL DEF Spec

-----------------------------------------------------------------------------
(* Executed queries without an entry *)

Emptied(r) == reply[r] # NULL /\ reply[r].kind = "empty"

(* Only a SELECT that returned no row is answered as empty. *)
LEMMA EmptiedByNoRow ==
    ASSUME ServerInv, [Next]_vars, NEW r \in Reqs, ~Emptied(r), Emptied(r)'
    PROVE  0 \in RowCounts
<1>1. reply'[r] # reply[r]
  BY DEF Emptied
<1>2. ASSUME NEW q \in Reqs, NEW a, Done(q, a), a.kind # "empty" PROVE FALSE
  BY <1>1, <1>2 DEF Done, Emptied, ServerInv, TypeInv, DataOK
<1>3. ASSUME NEW q \in Reqs, FetchRows(q) PROVE 0 \in RowCounts
  BY <1>1, <1>2, <1>3, AnswersTyped DEF FetchRows, GoTo
<1>4. ASSUME NEW q \in Reqs, Call(q) PROVE FALSE
  <2>1. \/ GoTo(q, "acquire")
        \/ \E kind \in {"error", "rate_limited"} : Done(q, Answer(kind))
    BY <1>4, CallStep DEF ServerInv, TypeInv
  <2> QED BY <1>1, <1>2, <2>1, AnswersTyped DEF GoTo
<1>5. ASSUME NEW q \in Reqs, FetchAuditLog(q) PROVE FALSE
  <2>1. PICK entries : Done(q, [Answer("log") EXCEPT !.entries = entries])
    BY <1>5 DEF FetchAuditLog
  <2>2. [Answer("log") EXCEPT !.entries = entries].kind = "log"
    BY DEF Answer
  <2> QED BY <1>2, <2>1, <2>2
<1>6. ASSUME NEW q \in Reqs, FinishAudit(q) PROVE FALSE
  <2>1. PICK n, m : Done(q, [Answer("data") EXCEPT !.n = n, !.masked = m])
    BY <1>6 DEF FinishAudit
  <2>2. [Answer("data") EXCEPT !.n = n, !.masked = m].kind = "data"
    BY DEF Answer
  <2> QED BY <1>2, <2>1, <2>2
<1>7. ASSUME NEW q \in Reqs,
             \/ Acquired(q) \/ FetchCatalog(q) \/ FetchFails(q)
             \/ CommitAudit(q) \/ AuditFails(q) \/ Cancel(q)
      PROVE  FALSE
  <2>1. \/ reply' = reply
        \/ \E kind \in {"error", "raised", "listing", "cancelled"} : Done(q, Answer(kind))
    BY <1>7 DEF Acquired, Acquire, AcquireFails, FetchCatalog, FetchFails, CommitAudit,
                AuditFails, Cancel, FailureAnswers, GoTo
  <2> QED BY <1>1, <1>2, <2>1, AnswersTyped
<1>8. CASE Crash
  <2>1. reply'[r] = Answer("lost")
    BY <1>1, <1>8 DEF Crash
  <2> QED BY <2>1, AnswersTyped DEF Emptied
<1>9. CASE SigTerm \/ ClosePool \/ Start \/ Tick \/ UNCHANGED vars
  BY <1>1, <1>9 DEF SigTerm, ClosePool, Start, NewProcess, Tick, vars
<1> QED BY <1>3, <1>4, <1>5, <1>6, <1>7, <1>8, <1>9 DEF Next, Fetched, Audited

(* Every query answered with its result has its entry, as the server tells *)
(* its clients, except one that returned no row: where every SELECT        *)
(* returns one, none of the answered is missing, whatever fails, crashes   *)
(* or is cancelled.  (A query that was executed but not answered, because  *)
(* a mask or the INSERT raised, may leave no entry.)                       *)
THEOREM AllQueriesAuditedUnlessEmpty ==
    ASSUME 0 \notin RowCounts PROVE Spec => []AllQueriesAudited
<1> DEFINE Inv == ServerInv /\ \A r \in Reqs : ~Emptied(r)
<1>1. Init => Inv
  BY ServerInit DEF Init, Emptied
<1>2. Inv /\ [Next]_vars => Inv'
  BY ServerNext, EmptiedByNoRow
<1>3. Inv => AllQueriesAudited
  <2> SUFFICES ASSUME Inv, NEW r \in Reqs, reply[r] # NULL, reply[r].kind \in {"data", "empty"}
               PROVE  Logged(r)
    BY DEF AllQueriesAudited, Logged
  <2>1. Told(r)
    BY DEF Emptied, Told
  <2> QED BY <2>1, ToldIsLogged DEF ServerInv
<1> HIDE DEF Inv
<1> QED BY <1>1, <1>2, <1>3, PTL DEF Spec

-----------------------------------------------------------------------------
(* Refusals *)

\* The calls that count against call r.
Own(r) ==
    {q \in Reqs \ ({r} \cup former) :
        /\ pc[q] # "new"
        /\ job[q].tool = "query" /\ SubClaim[job[q].user] = SubClaim[job[r].user]
        /\ ~Refused(q)
        /\ job[q].at \in job[r].at - WINDOW .. job[r].at}

OwnQuota == \A r \in Reqs \ former : Refused(r) => Cardinality(Own(r)) >= RATE_LIMIT_RPM

LEMMA PersonalByOwn == OwnQuota => RateLimitIsPersonal
<1>1. \A q \in Reqs : ~Refused(q) <=> reply[q] = NULL \/ reply[q].kind # "rate_limited"
  BY DEF Refused
<1>2. ASSUME NEW r \in Reqs
      PROVE  Own(r) = {q \in Reqs \ ({r} \cup former) :
                        /\ pc[q] # "new"
                        /\ job[q].tool = "query"
                        /\ SubClaim[job[q].user] = SubClaim[job[r].user]
                        /\ reply[q] = NULL \/ reply[q].kind # "rate_limited"
                        /\ job[q].at \in job[r].at - WINDOW .. job[r].at}
  BY <1>1 DEF Own
<1> QED BY <1>2 DEF RateLimitIsPersonal, Refused, OwnQuota

\* Call q is the query that left time stamp t in the window of sub u.
Counts(q, u, t) ==
    /\ pc[q] # "new" /\ q \notin former
    /\ job[q].tool = "query" /\ SubClaim[job[q].user] = u /\ job[q].at = t
    /\ ~Refused(q)

\* Each of the window's time stamps is a different query's.
Accounted(u, W) ==
    \E f \in [1 .. Len(W) -> Reqs] :
        /\ \A i, j \in 1 .. Len(W) : f[i] = f[j] => i = j
        /\ \A i \in 1 .. Len(W) : Counts(f[i], u, W[i])

InOrder(W, t) ==
    /\ \A i, j \in 1 .. Len(W) : i <= j => W[i] <= W[j]
    /\ \A i \in 1 .. Len(W) : W[i] <= t

WindowsInv ==
    /\ _rate_windows \in [UserIds -> Seq(Nat)]
    /\ \A u \in UserIds :
          InOrder(_rate_windows[u], now) /\ Accounted(u, _rate_windows[u])

LEMMA CountsIsKept ==
    ASSUME Past, former' = former, NEW q \in Reqs, NEW u, NEW t, Counts(q, u, t)
    PROVE  Counts(q, u, t)'
  BY DEF Past, Keeps, Counts

LEMMA AccountedIsKept ==
    ASSUME Past, former' = former, NEW u, NEW W \in Seq(Nat), Accounted(u, W)
    PROVE  Accounted(u, W)'
<1>1. PICK f \in [1 .. Len(W) -> Reqs] :
        /\ \A i, j \in 1 .. Len(W) : f[i] = f[j] => i = j
        /\ \A i \in 1 .. Len(W) : Counts(f[i], u, W[i])
  BY DEF Accounted
<1>2. \A i \in 1 .. Len(W) : Counts(f[i], u, W[i])'
  BY <1>1, CountsIsKept
<1> QED BY <1>1, <1>2 DEF Accounted

LEMMA NothingToAccount == ASSUME NEW u, NEW t \in Nat PROVE InOrder(<<>>, t) /\ Accounted(u, <<>>)
<1> DEFINE W == <<>>
<1>1. Len(W) = 0
  OBVIOUS
<1> HIDE DEF W
<1>2. \A i : i \notin 1 .. Len(W)
  BY <1>1
<1>3. InOrder(W, t)
  BY <1>2 DEF InOrder
<1>4. [i \in 1 .. Len(W) |-> NULL] \in [1 .. Len(W) -> Reqs]
  BY <1>2
<1>5. Accounted(u, W)
  BY <1>2, <1>4 DEF Accounted
<1> QED BY <1>3, <1>5 DEF W

(* Evicting the expired end of a window leaves the rest accounted for. *)
LEMMA EvictionKeepsAccount ==
    ASSUME NEW u, NEW t \in Nat, NEW W \in Seq(Nat), NEW k \in 0 .. Len(W),
           InOrder(W, t), Accounted(u, W)
    PROVE  LET dq == SubSeq(W, k + 1, Len(W))
           IN  /\ dq \in Seq(Nat) /\ Len(dq) = Len(W) - k
               /\ \A i \in 1 .. Len(dq) : dq[i] = W[k + i]
               /\ InOrder(dq, t) /\ Accounted(u, dq)
<1> DEFINE dq == SubSeq(W, k + 1, Len(W))
<1>a. dq \in Seq(Nat) /\ Len(dq) = Len(W) - k
  OBVIOUS
<1>b. \A i \in 1 .. Len(dq) : dq[i] = W[k + i]
  OBVIOUS
<1> HIDE DEF dq
<1>1. /\ dq \in Seq(Nat) /\ Len(dq) = Len(W) - k
      /\ \A i \in 1 .. Len(dq) : dq[i] = W[k + i]
  BY <1>a, <1>b
<1>2. \A i \in 1 .. Len(dq) : k + i \in 1 .. Len(W)
  BY <1>1
<1>3. InOrder(dq, t)
  <2>1. \A i \in 1 .. Len(W) : W[i] <= t
    BY DEF InOrder
  <2>2. ASSUME NEW i \in 1 .. Len(dq), NEW j \in 1 .. Len(dq), i <= j PROVE dq[i] <= dq[j]
    <3>1. k + i \in 1 .. Len(W) /\ k + j \in 1 .. Len(W) /\ k + i <= k + j
      BY <1>1, <1>2, <2>2
    <3>2. W[k + i] <= W[k + j]
      BY <3>1 DEF InOrder
    <3> QED BY <1>1, <3>2
  <2>3. \A i \in 1 .. Len(dq) : dq[i] <= t
    BY <1>1, <1>2, <2>1
  <2> QED BY <2>2, <2>3 DEF InOrder
<1>4. PICK f \in [1 .. Len(W) -> Reqs] :
        /\ \A i, j \in 1 .. Len(W) : f[i] = f[j] => i = j
        /\ \A i \in 1 .. Len(W) : Counts(f[i], u, W[i])
  BY DEF Accounted
<1>5. Accounted(u, dq)
  <2> DEFINE g == [i \in 1 .. Len(dq) |-> f[k + i]]
  <2>1. g \in [1 .. Len(dq) -> Reqs]
    BY <1>2
  <2>2. \A i, j \in 1 .. Len(dq) : g[i] = g[j] => i = j
    BY <1>2, <1>4
  <2>3. \A i \in 1 .. Len(dq) : Counts(g[i], u, dq[i])
    BY <1>1, <1>2, <1>4
  <2> HIDE DEF g
  <2> QED BY <2>1, <2>2, <2>3 DEF Accounted
<1> QED BY <1>1, <1>3, <1>5 DEF dq

(* Recording an admitted query accounts for it too. *)
LEMMA AdmissionKeepsAccount ==
    ASSUME NEW u, NEW t \in Nat, NEW W \in Seq(Nat), InOrder(W, t), Accounted(u, W),
           NEW r \in Reqs, pc[r] = "new", Past, former' = former, Counts(r, u, t)'
    PROVE  /\ Append(W, t) \in Seq(Nat)
           /\ InOrder(Append(W, t), t) /\ Accounted(u, Append(W, t))'
<1> DEFINE V == Append(W, t)
<1>1. /\ V \in Seq(Nat) /\ Len(V) = Len(W) + 1 /\ V[Len(W) + 1] = t
      /\ \A i \in 1 .. Len(W) : V[i] = W[i]
  OBVIOUS
<1> HIDE DEF V
<1>2. \A i \in 1 .. Len(V) : i \in 1 .. Len(W) \/ i = Len(W) + 1
  BY <1>1
<1>3. InOrder(V, t)
  BY <1>1, <1>2 DEF InOrder
<1>4. PICK f \in [1 .. Len(W) -> Reqs] :
        /\ \A i, j \in 1 .. Len(W) : f[i] = f[j] => i = j
        /\ \A i \in 1 .. Len(W) : Counts(f[i], u, W[i])
  BY DEF Accounted
<1>5. ASSUME NEW i \in 1 .. Len(W) PROVE f[i] # r /\ Counts(f[i], u, W[i])'
  <2>1. PICK q \in Reqs : q = f[i] BY <1>4
  <2>2. PICK s \in Nat : s = W[i] OBVIOUS
  <2>3. Counts(q, u, s) BY <1>4, <2>1, <2>2
  <2>4. q # r BY <2>3 DEF Counts
  <2>5. Counts(q, u, s)' BY <2>3, CountsIsKept
  <2> QED BY <2>1, <2>2, <2>4, <2>5
<1>6. Accounted(u, V)'
  <2> DEFINE g == [i \in 1 .. Len(V) |-> IF i \in 1 .. Len(W) THEN f[i] ELSE r]
  <2>1. g \in [1 .. Len(V) -> Reqs]
    OBVIOUS
  <2>2. \A i, j \in 1 .. Len(V) : g[i] = g[j] => i = j
    BY <1>2, <1>4, <1>5
  <2>3. \A i \in 1 .. Len(V) : Counts(g[i], u, V[i])'
    BY <1>1, <1>2, <1>5
  <2> HIDE DEF g
  <2> QED BY <2>1, <2>2, <2>3 DEF Accounted
<1> QED BY <1>1, <1>3, <1>6 DEF V

LEMMA WindowsPrimed ==
    ASSUME NEW t \in Nat, t = now', _rate_windows' \in [UserIds -> Seq(Nat)],
           \A u \in UserIds : \E V \in Seq(Nat) :
               V = _rate_windows'[u] /\ InOrder(V, t) /\ Accounted(u, V)'
    PROVE  WindowsInv'
<1> SUFFICES ASSUME NEW u \in UserIds
             PROVE  InOrder(_rate_windows[u], now)' /\ Accounted(u, _rate_windows[u])'
  BY DEF WindowsInv
<1>1. PICK V \in Seq(Nat) : V = _rate_windows'[u] /\ InOrder(V, t) /\ Accounted(u, V)'
  OBVIOUS
<1>2. InOrder(_rate_windows[u], now)'
  BY <1>1 DEF InOrder
<1>3. Accounted(u, _rate_windows[u])'
  <2>1. PICK f \in [1 .. Len(V) -> Reqs] :
          /\ \A i, j \in 1 .. Len(V) : f[i] = f[j] => i = j
          /\ \A i \in 1 .. Len(V) : Counts(f[i], u, V[i])'
    BY <1>1 DEF Accounted
  <2>2. \A i \in 1 .. Len(V) : Counts(f[i], u, _rate_windows[u][i])'
    BY <1>1, <2>1 DEF Counts
  <2> QED BY <1>1, <2>1, <2>2 DEF Accounted
<1> QED BY <1>2, <1>3

(* What a call of query does to its user's window. *)
LEMMA QueryStep ==
    ASSUME ServerInv, WindowsInv, Past, NEW r \in Reqs, NEW c \in Callers,
           NEW q \in Queries, CallQuery(r, c, q)
    PROVE  WindowsInv'
<1>1. PICK u \in UserIds : u = SubClaim[c.user]
  BY SubClaimAssumption
<1>2. PICK t \in Nat : t = now /\ t = now'
  BY DEF ServerInv, TypeInv, DataOK, CallQuery, Arrive
<1>3. PICK W \in Seq(Nat) : W = _rate_windows[u]
  BY DEF WindowsInv
<1>4. InOrder(W, t) /\ Accounted(u, W)
  BY <1>2, <1>3 DEF WindowsInv
<1>5. PICK verdict \in G!Verdicts :
        /\ Arrive(r, c, "query", q.columns)
        /\ G!validate_and_rewrite(u, c.roles, q, verdict)
        /\ IF verdict = "ok" THEN GoTo(r, "acquire")
           ELSE Done(r, Answer(IF verdict = "rate_limited" THEN verdict ELSE "error"))
  BY <1>1 DEF CallQuery
<1>6. PICK admit \in BOOLEAN :
        G!_check_rate_limit(u, admit) /\ (admit => verdict # "rate_limited")
  BY <1>5 DEF G!validate_and_rewrite, G!Inspect
<1>7. PICK k \in 0 .. Len(W) :
        _rate_windows' = [_rate_windows EXCEPT ![u] =
            IF admit THEN Append(SubSeq(W, k + 1, Len(W)), t) ELSE SubSeq(W, k + 1, Len(W))]
  BY <1>2, <1>3, <1>6 DEF G!_check_rate_limit, G!LimiterCall
<1>0. former' = former
  BY <1>5 DEF Arrive, lives
<1> DEFINE dq == SubSeq(W, k + 1, Len(W))
           new == IF admit THEN Append(dq, t) ELSE dq
<1>8. dq \in Seq(Nat) /\ InOrder(dq, t) /\ Accounted(u, dq)
  BY <1>4, EvictionKeepsAccount
<1>9. _rate_windows' = [_rate_windows EXCEPT ![u] = new]
  BY <1>7
<1> HIDE DEF dq
<1>10. pc[r] = "new" /\ (admit => Counts(r, u, t)')
  <2>0. r \notin former'
    BY <1>0, <1>5 DEF Arrive, ServerInv, TypeInv, FormerOK
  <2>1. /\ pc[r] = "new" /\ job'[r].tool = "query" /\ job'[r].user = c.user
        /\ job'[r].at = t
    BY <1>2, <1>5 DEF Arrive, ServerInv, TypeInv, DataOK
  <2>2. pc'[r] # "new"
    BY <1>5 DEF GoTo, Done, ServerInv, TypeInv, PoolInv, PoolTypes
  <2>3. ASSUME admit PROVE ~Refused(r)'
    <3>1. CASE verdict = "ok"
      BY <1>5, <2>1, <3>1 DEF GoTo, Refused, ServerInv, TypeInv, DataOK
    <3>2. CASE verdict # "ok"
      <4>1. Done(r, Answer("error")) /\ Answer("error").kind = "error"
        BY <1>5, <1>6, <2>3, <3>2, AnswersTyped
      <4> QED BY <4>1 DEF Done, Refused, ServerInv, TypeInv, DataOK
    <3> QED BY <3>1, <3>2
  <2> QED BY <1>1, <2>0, <2>1, <2>2, <2>3 DEF Counts
<1>11. new \in Seq(Nat) /\ InOrder(new, t) /\ Accounted(u, new)'
  <2>1. CASE admit
    <3>1. /\ Append(dq, t) \in Seq(Nat) /\ InOrder(Append(dq, t), t)
          /\ Accounted(u, Append(dq, t))'
      BY <1>0, <1>8, <1>10, <2>1, AdmissionKeepsAccount
    <3> QED BY <2>1, <3>1
  <2>2. CASE ~admit
    <3>1. Accounted(u, dq)'
      BY <1>0, <1>8, AccountedIsKept
    <3> QED BY <1>8, <2>2, <3>1
  <2> QED BY <2>1, <2>2
<1> HIDE DEF new
<1>12. _rate_windows' \in [UserIds -> Seq(Nat)]
  BY <1>9, <1>11 DEF WindowsInv
<1>13. ASSUME NEW v \in UserIds
       PROVE  \E V \in Seq(Nat) : V = _rate_windows'[v] /\ InOrder(V, t) /\ Accounted(v, V)'
  <2>1. CASE v = u
    <3>1. new = _rate_windows'[v]
      BY <1>9, <2>1 DEF WindowsInv
    <3> QED BY <1>11, <2>1, <3>1
  <2>2. CASE v # u
    <3>1. PICK V \in Seq(Nat) : V = _rate_windows[v]
      BY DEF WindowsInv
    <3>2. V = _rate_windows'[v] /\ InOrder(V, t) /\ Accounted(v, V)
      BY <1>2, <1>9, <2>2, <3>1 DEF WindowsInv
    <3>3. Accounted(v, V)'
      BY <1>0, <3>2, AccountedIsKept
    <3> QED BY <3>2, <3>3
  <2> QED BY <2>1, <2>2
<1> QED BY <1>2, <1>12, <1>13, WindowsPrimed

(* A step that leaves the windows alone leaves them accounted for. *)
LEMMA OtherStep ==
    ASSUME ServerInv, WindowsInv, Past,
           _rate_windows' = _rate_windows, now' \in {now, now + 1}, former' = former
    PROVE  WindowsInv'
<1>1. PICK t \in Nat : t = now' /\ now \in Nat /\ now <= t
  BY DEF ServerInv, TypeInv, DataOK
<1>2. ASSUME NEW u \in UserIds
      PROVE  \E V \in Seq(Nat) : V = _rate_windows'[u] /\ InOrder(V, t) /\ Accounted(u, V)'
  <2>1. PICK V \in Seq(Nat) : V = _rate_windows[u]
    BY DEF WindowsInv
  <2>2. InOrder(V, now) /\ Accounted(u, V)
    BY <2>1 DEF WindowsInv
  <2>3. InOrder(V, t)
    <3>1. \A i \in 1 .. Len(V) : V[i] \in Nat
      OBVIOUS
    <3> QED BY <1>1, <2>2, <3>1 DEF InOrder
  <2>4. Accounted(u, V)'
    BY <2>2, AccountedIsKept
  <2> QED BY <2>1, <2>3, <2>4
<1> QED BY <1>1, <1>2, WindowsPrimed DEF WindowsInv

\* A new process has empty windows, and nothing to account for.
LEMMA StartStep ==
    ASSUME ServerInv, WindowsInv, Past, Start PROVE WindowsInv'
<1>1. PICK t \in Nat : t = now'
  BY DEF ServerInv, TypeInv, DataOK, Start, NewProcess
<1>2. _rate_windows' = [u \in UserIds |-> <<>>]
  BY DEF Start, NewProcess
<1>3. ASSUME NEW u \in UserIds
      PROVE  \E V \in Seq(Nat) : V = _rate_windows'[u] /\ InOrder(V, t) /\ Accounted(u, V)'
  <2>0. PICK V \in Seq(Nat) : V = <<>>
    <3>1. <<>> \in Seq(Nat)
      OBVIOUS
    <3> QED BY <3>1, Zenon
  <2>1. InOrder(V, t)
    BY <2>0, NothingToAccount
  <2>2. Accounted(u, V)'
    <3>1. \A i : i \notin 1 .. Len(V)
      <4>1. Len(V) = 0
        BY <2>0
      <4> QED BY <4>1
    <3>2. [i \in 1 .. Len(V) |-> NULL] \in [1 .. Len(V) -> Reqs]
      BY <3>1
    <3> QED BY <3>1, <3>2 DEF Accounted
  <2> QED BY <1>2, <2>0, <2>1, <2>2
<1> QED BY <1>1, <1>2, <1>3, WindowsPrimed

LEMMA WindowsNext ==
    ASSUME ServerInv, WindowsInv, Past, [Next]_vars PROVE WindowsInv'
<1> SUFFICES ASSUME former' = former PROVE WindowsInv'
  BY FormerStep, StartStep DEF ServerInv, TypeInv
<1>1. ASSUME NEW r \in Reqs, Call(r) PROVE WindowsInv'
  <2>1. CASE \E c \in Callers, q \in Queries : CallQuery(r, c, q)
    BY <2>1, QueryStep
  <2>2. CASE ~\E c \in Callers, q \in Queries : CallQuery(r, c, q)
    <3>1. _rate_windows' = _rate_windows /\ now' = now
      BY <1>1, <2>2 DEF Call, CallReport, CallListTables, CallDescribeTable,
                        CallGetAuditLog, Arrive
    <3> QED BY <3>1, OtherStep
  <2> QED BY <2>1, <2>2
<1>2. ASSUME NEW r \in Reqs, Acquired(r) \/ Fetched(r) \/ Audited(r) \/ Cancel(r)
      PROVE  WindowsInv'
  <2>1. UNCHANGED limiter
    BY <1>2 DEF Acquired, Acquire, AcquireFails, Fetched, FetchRows, FetchCatalog,
                FetchAuditLog, FetchFails, Audited, CommitAudit, FinishAudit,
                AuditFails, Cancel
  <2> QED BY <2>1, OtherStep DEF limiter
<1>3. CASE SigTerm \/ ClosePool \/ Crash \/ Tick \/ UNCHANGED vars
  BY <1>3, OtherStep DEF SigTerm, ClosePool, Crash, Tick, vars, limiter
<1> QED BY <1>1, <1>2, <1>3, StartStep DEF Next

(* However many calls there may be, so far finitely many have been made.   *)
Made == {q \in Reqs : pc[q] # "new"}

LEMMA MadeOneByOne ==
    ASSUME ServerInv, [Next]_vars, IsFiniteSet(Made) PROVE IsFiniteSet(Made)'
<1>1. ASSUME NEW r \in Reqs, NEW p, pc' = [pc EXCEPT ![r] = p] PROVE IsFiniteSet(Made)'
  <2>1. Made' \subseteq Made \cup {r}
    BY <1>1 DEF Made, ServerInv, TypeInv, PoolInv, PoolTypes
  <2>2. IsFiniteSet(Made \cup {r})
    BY FS_AddElement
  <2> QED BY <2>1, <2>2, FS_Subset
<1>2. ASSUME NEW r \in Reqs, Call(r) \/ Acquired(r) \/ Fetched(r) \/ Audited(r) \/ Cancel(r)
      PROVE  \E p : pc' = [pc EXCEPT ![r] = p]
  BY <1>2 DEF Call, CallQuery, CallReport, CallListTables, CallDescribeTable, CallGetAuditLog,
              Acquired, Acquire, AcquireFails, Fetched, FetchRows, FetchCatalog,
              FetchAuditLog, FetchFails, Audited, CommitAudit, FinishAudit, AuditFails,
              Cancel, GoTo, Done
<1>3. CASE SigTerm \/ ClosePool \/ Crash \/ Start \/ Tick \/ UNCHANGED vars
  <2>1. Made' = Made
    BY <1>3 DEF SigTerm, ClosePool, Crash, Start, NewProcess, Tick, vars, Made, InFlight
  <2> QED BY <2>1
<1> QED BY <1>1, <1>2, <1>3 DEF Next

LEMMA OwnIsFinite ==
    ASSUME IsFiniteSet(Made)', NEW r PROVE IsFiniteSet(Own(r)')
<1>1. Own(r)' \subseteq Made'
  BY DEF Own, Made
<1> QED BY <1>1, FS_Subset

(* A user who is refused finds as many queries of their own as the quota   *)
(* in the window before.                                                   *)
LEMMA RefusalIsOwn ==
    ASSUME ServerInv, WindowsInv, Past, IsFiniteSet(Made)',
           NEW r \in Reqs, pc[r] = "new", Refused(r)'
    PROVE  Cardinality(Own(r)') >= RATE_LIMIT_RPM
<1> USE LimitAssumption
<1>1. Call(r)
  BY DEF Past, Refuses
<1>2. PICK c \in Callers, q \in Queries : CallQuery(r, c, q)
  <2>1. CASE \E c \in Callers :
                \/ CallReport(r, c)
                \/ CallListTables(r, c)
                \/ \E table \in TableNames : CallDescribeTable(r, c, table)
                \/ CallGetAuditLog(r, c)
    <3>1. GoTo(r, "acquire") \/ Done(r, Answer("error"))
      BY <2>1 DEF CallReport, CallListTables, CallDescribeTable, CallGetAuditLog
    <3>2. Answer("error").kind = "error"
      BY AnswersTyped
    <3>3. ~Refused(r)'
      BY <3>1, <3>2 DEF GoTo, Done, Refused, ServerInv, TypeInv, DataOK
    <3> QED BY <3>3
  <2> QED BY <1>1, <2>1 DEF Call
<1>3. PICK u \in UserIds : u = SubClaim[c.user]
  BY SubClaimAssumption
<1>4. PICK t \in Nat : t = now /\ t = now'
  BY <1>2 DEF ServerInv, TypeInv, DataOK, CallQuery, Arrive
<1>5. PICK W \in Seq(Nat) : W = _rate_windows[u]
  BY DEF WindowsInv
<1>6. InOrder(W, t) /\ Accounted(u, W)
  BY <1>4, <1>5 DEF WindowsInv
<1>7. /\ job'[r].user = c.user /\ job'[r].at = t
      /\ G!_check_rate_limit(u, FALSE)
  <2>1. PICK verdict \in G!Verdicts :
          /\ Arrive(r, c, "query", q.columns)
          /\ G!validate_and_rewrite(u, c.roles, q, verdict)
          /\ IF verdict = "ok" THEN GoTo(r, "acquire")
             ELSE Done(r, Answer(IF verdict = "rate_limited" THEN verdict ELSE "error"))
    BY <1>2, <1>3 DEF CallQuery
  <2>2. verdict = "rate_limited"
    <3>1. Answer("error").kind = "error"
      BY AnswersTyped
    <3> QED BY <2>1, <3>1 DEF GoTo, Done, Refused, ServerInv, TypeInv, DataOK
  <2>3. job'[r].user = c.user /\ job'[r].at = t
    BY <1>4, <2>1 DEF Arrive, ServerInv, TypeInv, DataOK
  <2>4. ~G!Inspect(c.roles, q, "rate_limited")
    BY DEF G!Inspect
  <2>5. G!_check_rate_limit(u, FALSE)
    BY <2>1, <2>2, <2>4 DEF G!validate_and_rewrite
  <2> QED BY <2>3, <2>5
<1>0. former' = former
  BY <1>2 DEF CallQuery, Arrive, lives
<1>8. PICK k \in 0 .. Len(W) :
        /\ k < Len(W) => t - W[k + 1] <= WINDOW
        /\ ~(Len(SubSeq(W, k + 1, Len(W))) < RATE_LIMIT_RPM)
  BY <1>4, <1>5, <1>7 DEF G!_check_rate_limit, G!LimiterCall, G!ExpiredPrefix
<1>9. Len(W) - k >= RATE_LIMIT_RPM
  <2>1. Len(SubSeq(W, k + 1, Len(W))) = Len(W) - k
    OBVIOUS
  <2> QED BY <1>8, <2>1
<1>10. PICK f \in [1 .. Len(W) -> Reqs] :
        /\ \A i, j \in 1 .. Len(W) : f[i] = f[j] => i = j
        /\ \A i \in 1 .. Len(W) : Counts(f[i], u, W[i])
  BY <1>6 DEF Accounted
<1> DEFINE g == [i \in 1 .. RATE_LIMIT_RPM |-> f[k + i]]
<1>11. ASSUME NEW i \in 1 .. RATE_LIMIT_RPM
       PROVE  k + i \in 1 .. Len(W) /\ f[k + i] \in Own(r)'
  <2>1. k + i \in 1 .. Len(W) /\ k + 1 \in 1 .. Len(W) /\ k + 1 <= k + i
    BY <1>9
  <2>2. W[k + i] \in t - WINDOW .. t
    <3>1. W[k + i] \in Nat /\ W[k + 1] \in Nat
      BY <2>1
    <3>2. W[k + 1] <= W[k + i] /\ W[k + i] <= t
      BY <1>6, <2>1 DEF InOrder
    <3>3. t - W[k + 1] <= WINDOW
      BY <1>8, <2>1
    <3> QED BY <3>1, <3>2, <3>3
  <2>3. PICK x \in Reqs : x = f[k + i] /\ Counts(x, u, W[k + i])
    BY <1>10, <2>1
  <2>4. x # r
    BY <2>3 DEF Counts
  <2>5. SubClaim[job[x].user] = SubClaim[c.user]
    BY <1>3, <2>3 DEF Counts
  <2>6. Counts(x, u, W[k + i])' /\ job'[x] = job[x]
    BY <1>0, <2>3, CountsIsKept DEF Counts, Past, Keeps
  <2>7. x \in Own(r)'
    BY <1>7, <2>2, <2>4, <2>5, <2>6 DEF Own, Counts
  <2> QED BY <2>1, <2>3, <2>7
<1>12. g \in Injection(1 .. RATE_LIMIT_RPM, Own(r)')
  <2>1. g \in [1 .. RATE_LIMIT_RPM -> Own(r)']
    BY <1>11
  <2>2. \A i, j \in 1 .. RATE_LIMIT_RPM : g[i] = g[j] => i = j
    BY <1>10, <1>11
  <2> QED BY <2>1, <2>2 DEF Injection, IsInjective
<1>13. IsFiniteSet(Own(r)')
  BY OwnIsFinite
<1>14. Cardinality(1 .. RATE_LIMIT_RPM) <= Cardinality(Own(r)')
  BY <1>12, <1>13, FS_Injection
<1>15. Cardinality(1 .. RATE_LIMIT_RPM) = RATE_LIMIT_RPM
  BY FS_Interval
<1>16. Cardinality(Own(r)') \in Nat
  BY <1>13, FS_CardinalityType
<1> QED BY <1>14, <1>15, <1>16

(* No later step takes back a call that counted against a refused one. *)
LEMMA OwnGrows ==
    ASSUME Past, former' = former, IsFiniteSet(Made)', NEW r \in Reqs, pc[r] # "new",
           Cardinality(Own(r)) >= RATE_LIMIT_RPM
    PROVE  Cardinality(Own(r)') >= RATE_LIMIT_RPM
<1>1. Own(r) \subseteq Own(r)'
  BY DEF Own, Past, Keeps
<1>2. IsFiniteSet(Own(r)')
  BY OwnIsFinite
<1>3. Cardinality(Own(r)) <= Cardinality(Own(r)') /\ IsFiniteSet(Own(r))
  BY <1>1, <1>2, FS_Subset
<1>4. Cardinality(Own(r)) \in Nat /\ Cardinality(Own(r)') \in Nat
  BY <1>2, <1>3, FS_CardinalityType
<1> QED BY <1>3, <1>4, LimitAssumption

RateInv == ServerInv /\ WindowsInv /\ IsFiniteSet(Made) /\ OwnQuota

LEMMA RateInit == Init => RateInv
<1> SUFFICES ASSUME Init PROVE WindowsInv /\ IsFiniteSet(Made) /\ OwnQuota
  BY ServerInit DEF RateInv
<1>1. OwnQuota
  BY DEF Init, OwnQuota, Refused
<1>2. now = 0 /\ \A u \in UserIds : _rate_windows[u] = <<>>
  BY DEF Init
<1>3. \A u \in UserIds : InOrder(_rate_windows[u], now) /\ Accounted(u, _rate_windows[u])
  BY <1>2, NothingToAccount
<1>4. _rate_windows \in [UserIds -> Seq(Nat)]
  BY DEF Init
<1>5. IsFiniteSet(Made)
  <2>1. Made = {}
    BY DEF Init, Made
  <2> QED BY <2>1, FS_EmptySet
<1> QED BY <1>1, <1>3, <1>4, <1>5 DEF WindowsInv

LEMMA RateNext == RateInv /\ [Next]_vars => RateInv'
<1> SUFFICES ASSUME RateInv, [Next]_vars PROVE RateInv'
  OBVIOUS
<1>1. ServerInv' /\ Past /\ WindowsInv' /\ IsFiniteSet(Made)'
  BY ServerNext, PastIsKept, WindowsNext, MadeOneByOne DEF RateInv
<1>2. ASSUME NEW r \in Reqs, r \notin former', Refused(r)'
      PROVE  Cardinality(Own(r)') >= RATE_LIMIT_RPM
  <2>1. CASE pc[r] = "new"
    BY <1>1, <1>2, <2>1, RefusalIsOwn DEF RateInv
  <2>2. CASE pc[r] # "new"
    <3>1. Refused(r)
      BY <1>1, <1>2, <2>2 DEF Past, Keeps
    <3>2. former' = former
      <4>1. ~Start
        BY <1>2, <2>2 DEF Start, NewProcess
      <4> QED BY <4>1, FormerStep DEF RateInv, ServerInv, TypeInv
    <3>3. Cardinality(Own(r)) >= RATE_LIMIT_RPM
      BY <1>2, <3>1, <3>2 DEF RateInv, OwnQuota
    <3> QED BY <1>1, <2>2, <3>2, <3>3, OwnGrows
  <2> QED BY <2>1, <2>2
<1> QED BY <1>1, <1>2 DEF RateInv, OwnQuota

LEMMA RateInvariant == Spec => []RateInv
  BY RateInit, RateNext, PTL DEF Spec

(* Whatever the quota, the window and the sub claims of the tokens: who is *)
(* refused has made as many queries of the same process, with the same sub *)
(* claim and within the window, as the quota allows.                       *)
THEOREM RateLimitIsPersonalHolds == Spec => []RateLimitIsPersonal
<1>1. RateInv => RateLimitIsPersonal
  BY PersonalByOwn DEF RateInv
<1> QED BY <1>1, RateInvariant, PTL

\* Every user's tokens carry a sub claim that no other user's do.
OwnSubs == \A c, d \in Callers : SubClaim[c.user] = SubClaim[d.user] => c.user = d.user

\* The calls of query by r's own user that count against call r.
OwnByUser(r) == {q \in Own(r) : job[q].user = job[r].user}

(* The quota is a user's, as the documentation has it, where no two users  *)
(* share a sub claim (identity.py:52 gives all tokens without one the same *)
(* empty claim): who is refused has used it up alone, in one process.      *)
THEOREM RefusalsByUser ==
    ASSUME OwnSubs
    PROVE  Spec => [](\A r \in Reqs \ former :
                          Refused(r) => Cardinality(OwnByUser(r)) >= RATE_LIMIT_RPM)
<1>1. ASSUME RateInv, NEW r \in Reqs \ former, Refused(r)
      PROVE  Cardinality(OwnByUser(r)) >= RATE_LIMIT_RPM
  <2>1. pc[r] # "new"
    BY <1>1 DEF Refused, RateInv, ServerInv, TypeInv, DataOK
  <2>2. \A q \in Reqs : pc[q] # "new" => job[q].user \in Users
    BY <1>1 DEF RateInv, ServerInv, TypeInv, DataOK, Jobs
  <2>3. OwnByUser(r) = Own(r)
    BY <2>1, <2>2 DEF OwnByUser, Own, OwnSubs, Users
  <2> QED BY <1>1, <2>3 DEF RateInv, OwnQuota
<1>2. RateInv => \A r \in Reqs \ former : Refused(r) => Cardinality(OwnByUser(r)) >= RATE_LIMIT_RPM
  BY <1>1
<1> QED BY <1>2, RateInvariant, PTL
=============================================================================
