---------------------------- MODULE McpServerProofs ----------------------------
(***************************************************************************)
(* Proofs about the server for any number of calls, callers, connections,  *)
(* users and crashes.  Three layers: the pool's invariant rests on the     *)
(* program counters alone; types rest on the pool (a released connection   *)
(* is one); and the ledger's invariant, which says what is in audit_logs   *)
(* at each program counter, gives the refinement of AuditLedger.           *)
(***************************************************************************)
EXTENDS McpServer, TLAPS

PcValues == {"new", "done"} \cup Awaits

Holding == {"fetch", "insert", "inserted"}

PoolTypes ==
    /\ phase \in {"up", "stopping", "down"}
    /\ pc \in [Reqs -> PcValues]
    /\ held \in [Reqs -> Conns \cup {NULL}]
    /\ idle \in SUBSET Conns

\* A process that is down has no call in progress.
DownIsQuiet == phase = "down" => \A r \in Reqs : pc[r] \in {"new", "done"}

PoolInv == PoolTypes /\ PoolPartition /\ DownIsQuiet

-----------------------------------------------------------------------------
(* What a handler's step may do to the pool *)

(* A step that neither takes nor gives back a connection. *)
LEMMA KeepStep ==
    ASSUME PoolInv, NEW r \in Reqs, NEW p \in PcValues,
           pc' = [pc EXCEPT ![r] = p], UNCHANGED <<phase, pool>>,
           p \in Holding <=> pc[r] \in Holding,
           phase = "down" => p \in {"new", "done"}
    PROVE  PoolInv'
<1>1. PoolTypes'
  BY DEF PoolInv, PoolTypes, pool
<1>2. PoolPartition'
  BY DEF PoolInv, PoolTypes, PoolPartition, pool, Holding
<1>3. DownIsQuiet'
  BY DEF PoolInv, PoolTypes, DownIsQuiet, PcValues
<1> QED BY <1>1, <1>2, <1>3 DEF PoolInv

(* A step that takes an idle connection. *)
LEMMA TakeStep ==
    ASSUME PoolInv, NEW r \in Reqs, NEW p \in Holding, NEW conn \in idle,
           pc[r] \in {"acquire", "acquire_audit"},
           pc' = [pc EXCEPT ![r] = p], phase' = phase,
           idle' = idle \ {conn}, held' = [held EXCEPT ![r] = conn]
    PROVE  PoolInv'
<1>1. /\ held[r] = NULL /\ conn \in Conns /\ conn # NULL /\ p \in PcValues
      /\ \A q \in Reqs : held[q] # conn
  BY ConnsAssumption DEF PoolInv, PoolTypes, PoolPartition, Holding, PcValues, Awaits
<1>2. PoolTypes'
  BY <1>1 DEF PoolInv, PoolTypes
<1>3. \A q \in Reqs : held'[q] = IF q = r THEN conn ELSE held[q]
  BY DEF PoolInv, PoolTypes
<1>4. PoolPartition'
  <2>1. ASSUME NEW d \in Conns
        PROVE  d \in idle' <=> \A q \in Reqs : held'[q] # d
    <3>1. d \in idle <=> \A q \in Reqs : held[q] # d
      BY DEF PoolInv, PoolPartition
    <3>2. held[r] # d
      BY <1>1, ConnsAssumption
    <3> QED BY <1>1, <1>3, <3>1, <3>2
  <2>2. ASSUME NEW x \in Reqs, NEW y \in Reqs, held'[x] = held'[y], held'[x] # NULL
        PROVE  x = y
    <3>1. held[x] = held[y] /\ held[x] # NULL => x = y
      BY DEF PoolInv, PoolPartition
    <3> QED BY <1>1, <1>3, <2>2, <3>1
  <2>3. ASSUME NEW q \in Reqs
        PROVE  held'[q] # NULL <=> pc'[q] \in {"fetch", "insert", "inserted"}
    <3>1. CASE q = r
      BY <1>1, <1>3, <3>1 DEF PoolInv, PoolTypes, Holding
    <3>2. CASE q # r
      BY <1>3, <3>2 DEF PoolInv, PoolTypes, PoolPartition
    <3> QED BY <3>1, <3>2
  <2> QED BY <2>1, <2>2, <2>3 DEF PoolPartition
<1>5. DownIsQuiet'
  BY DEF PoolInv, PoolTypes, DownIsQuiet
<1> QED BY <1>2, <1>4, <1>5 DEF PoolInv

(* A step that gives the held connection back. *)
LEMMA GiveStep ==
    ASSUME PoolInv, NEW r \in Reqs, NEW p \in PcValues \ Holding,
           pc[r] \in Holding, pc' = [pc EXCEPT ![r] = p], phase' = phase, Release(r)
    PROVE  PoolInv' /\ held[r] \in Conns
<1>1. held[r] \in Conns /\ held[r] # NULL
  BY DEF PoolInv, PoolTypes, PoolPartition, Holding
<1>2. PoolTypes'
  BY <1>1 DEF PoolInv, PoolTypes, Release
<1>3. \A q \in Reqs : held'[q] = IF q = r THEN NULL ELSE held[q]
  BY DEF PoolInv, PoolTypes, Release
<1>4. PoolPartition'
  <2>1. ASSUME NEW d \in Conns
        PROVE  d \in idle' <=> \A q \in Reqs : held'[q] # d
    <3>1. d \in idle <=> \A q \in Reqs : held[q] # d
      BY DEF PoolInv, PoolPartition
    <3>2. d \in idle' <=> d \in idle \/ d = held[r]
      BY DEF Release
    <3>3. \A q \in Reqs : held[q] = held[r] => q = r
      BY <1>1 DEF PoolInv, PoolPartition
    <3>4. d # NULL
      BY ConnsAssumption
    <3> QED BY <1>3, <3>1, <3>2, <3>3, <3>4
  <2>2. ASSUME NEW x \in Reqs, NEW y \in Reqs, held'[x] = held'[y], held'[x] # NULL
        PROVE  x = y
    <3>1. held[x] = held[y] /\ held[x] # NULL => x = y
      BY DEF PoolInv, PoolPartition
    <3> QED BY <1>3, <2>2, <3>1
  <2>3. ASSUME NEW q \in Reqs
        PROVE  held'[q] # NULL <=> pc'[q] \in {"fetch", "insert", "inserted"}
    <3>1. CASE q = r
      BY <1>3, <3>1 DEF PoolInv, PoolTypes, Holding
    <3>2. CASE q # r
      BY <1>3, <3>2 DEF PoolInv, PoolTypes, PoolPartition
    <3> QED BY <3>1, <3>2
  <2> QED BY <2>1, <2>2, <2>3 DEF PoolPartition
<1>5. DownIsQuiet'
  BY DEF PoolInv, PoolTypes, DownIsQuiet, Holding
<1> QED BY <1>1, <1>2, <1>4, <1>5 DEF PoolInv

-----------------------------------------------------------------------------
(* Every step of the server is one of those *)

(* A call's first step takes no connection. *)
LEMMA CallStep ==
    ASSUME PoolInv, NEW r \in Reqs, Call(r)
    PROVE  /\ PoolInv'
           /\ phase = "up" /\ pc[r] = "new"
           /\ UNCHANGED <<phase, pool, result, audit, lives, now>>
           /\ \E c \in Callers, tool \in Tools, columns \in ResultColumns :
                 Arrive(r, c, tool, columns)
           /\ \/ GoTo(r, "acquire")
              \/ \E kind \in {"error", "rate_limited"} : Done(r, Answer(kind))
<1>1. PICK c \in Callers :
        \/ \E q \in Queries : CallQuery(r, c, q)
        \/ CallReport(r, c)
        \/ CallListTables(r, c)
        \/ \E table \in TableNames : CallDescribeTable(r, c, table)
        \/ CallGetAuditLog(r, c)
  BY DEF Call
<1>2. /\ \E tool \in Tools, columns \in ResultColumns : Arrive(r, c, tool, columns)
      /\ \/ GoTo(r, "acquire")
         \/ \E kind \in {"error", "rate_limited"} : Done(r, Answer(kind))
  BY <1>1 DEF CallQuery, CallReport, CallListTables, CallDescribeTable,
              CallGetAuditLog, Tools, AuditedTools, ResultColumns
<1>3. /\ phase = "up" /\ pc[r] = "new"
      /\ UNCHANGED <<phase, pool, result, audit, lives, now>>
  BY <1>2 DEF Arrive
<1>4. PICK p \in {"acquire", "done"} : pc' = [pc EXCEPT ![r] = p]
  BY <1>2 DEF GoTo, Done
<1>5. p \in PcValues /\ p \notin Holding /\ pc[r] \notin Holding
  BY <1>3, <1>4 DEF PcValues, Awaits, Holding
<1>6. PoolInv'
  BY <1>3, <1>4, <1>5, KeepStep
<1> QED BY <1>2, <1>3, <1>6

(* What ends a fetch gives its connection back. *)
LEMMA FetchedStep ==
    ASSUME PoolInv, NEW r \in Reqs, Fetched(r)
    PROVE  PoolInv' /\ held[r] \in Conns
<1>1. /\ pc[r] = "fetch" /\ Release(r) /\ phase' = phase
      /\ \E p \in {"done", "acquire_audit"} : pc' = [pc EXCEPT ![r] = p]
  BY DEF Fetched, FetchRows, FetchCatalog, FetchAuditLog, FetchFails, Done, GoTo
<1> QED BY <1>1, GiveStep DEF PcValues, Awaits, Holding

LEMMA AcquireStep ==
    ASSUME PoolInv, NEW r \in Reqs, Acquired(r) PROVE PoolInv'
<1>1. CASE Acquire(r)
  <2>1. PICK conn \in idle : idle' = idle \ {conn} /\ held' = [held EXCEPT ![r] = conn]
    BY <1>1 DEF Acquire
  <2>2. /\ pc[r] \in {"acquire", "acquire_audit"} /\ phase' = phase
        /\ \E p \in Holding : pc' = [pc EXCEPT ![r] = p]
    BY <1>1 DEF Acquire, GoTo, Holding
  <2> QED BY <2>1, <2>2, TakeStep
<1>2. CASE AcquireFails(r)
  <2>1. /\ pc[r] \in {"acquire", "acquire_audit"} /\ UNCHANGED <<phase, pool>>
        /\ pc' = [pc EXCEPT ![r] = "done"]
    BY <1>2 DEF AcquireFails, Done
  <2> QED BY <2>1, KeepStep DEF PcValues, Holding
<1> QED BY <1>1, <1>2 DEF Acquired

LEMMA AuditedStep ==
    ASSUME PoolInv, NEW r \in Reqs, Audited(r) PROVE PoolInv'
<1>1. CASE CommitAudit(r)
  <2>1. pc[r] = "insert" /\ UNCHANGED <<phase, pool>> /\ pc' = [pc EXCEPT ![r] = "inserted"]
    BY <1>1 DEF CommitAudit, GoTo
  <2>2. phase # "down"
    BY <2>1 DEF PoolInv, DownIsQuiet
  <2> QED BY <2>1, <2>2, KeepStep DEF PcValues, Awaits, Holding
<1>2. CASE FinishAudit(r) \/ AuditFails(r)
  <2>1. pc[r] \in Holding /\ Release(r) /\ phase' = phase /\ pc' = [pc EXCEPT ![r] = "done"]
    BY <1>2 DEF FinishAudit, AuditFails, Done, Holding
  <2> QED BY <2>1, GiveStep DEF PcValues, Holding
<1> QED BY <1>1, <1>2 DEF Audited

LEMMA CancelStep ==
    ASSUME PoolInv, NEW r \in Reqs, Cancel(r) PROVE PoolInv'
<1>1. /\ pc[r] \in Awaits /\ phase' = phase /\ pc' = [pc EXCEPT ![r] = "done"]
      /\ IF held[r] = NULL THEN UNCHANGED pool ELSE Release(r)
      /\ held[r] # NULL <=> pc[r] \in Holding
  BY DEF Cancel, Done, InFlight, PoolInv, PoolTypes, PoolPartition, PcValues, Holding
<1>2. CASE held[r] = NULL
  BY <1>1, <1>2, KeepStep DEF PcValues, Holding
<1>3. CASE held[r] # NULL
  BY <1>1, <1>3, GiveStep DEF PcValues, Holding
<1> QED BY <1>2, <1>3

(* Whatever happens to the process, the pool starts whole again. *)
LEMMA ProcessStep ==
    ASSUME PoolInv, SigTerm \/ ClosePool \/ Crash \/ Start \/ Tick PROVE PoolInv'
<1>1. CASE SigTerm
  BY <1>1 DEF SigTerm, PoolInv, PoolTypes, PoolPartition, DownIsQuiet, pool
<1>2. CASE ClosePool
  BY <1>2 DEF ClosePool, InFlight, PoolInv, PoolTypes, PoolPartition, DownIsQuiet, pool
<1>3. CASE Crash
  <2>1. /\ \A r \in Reqs : pc'[r] \in {"new", "done"} /\ held'[r] = NULL
        /\ pc' \in [Reqs -> PcValues] /\ held' \in [Reqs -> Conns \cup {NULL}]
        /\ idle' = Conns /\ phase' = "down"
    <3>1. pc' = [r \in Reqs |-> IF r \in InFlight THEN "done" ELSE pc[r]]
      BY <1>3 DEF Crash
    <3> QED BY <1>3, <3>1 DEF Crash, InFlight, PoolInv, PoolTypes, PcValues
  <2> QED BY <2>1, ConnsAssumption DEF PoolInv, PoolTypes, PoolPartition, DownIsQuiet
<1>4. CASE Start
  <2>1. \A r \in Reqs : held[r] = NULL
    BY <1>4 DEF Start, NewProcess, PoolInv, PoolPartition, DownIsQuiet
  <2>2. idle' = Conns /\ held' = held /\ pc' = pc /\ phase' = "up"
    BY <1>4 DEF Start, NewProcess
  <2> QED BY <2>1, <2>2, ConnsAssumption DEF PoolInv, PoolTypes, PoolPartition, DownIsQuiet
<1>5. CASE Tick
  BY <1>5 DEF Tick, PoolInv, PoolTypes, PoolPartition, DownIsQuiet, pool
<1> QED BY <1>1, <1>2, <1>3, <1>4, <1>5

LEMMA PoolInit == Init => PoolInv
  BY ConnsAssumption
  DEF Init, PoolInv, PoolTypes, PoolPartition, DownIsQuiet, PcValues

LEMMA PoolNext == PoolInv /\ [Next]_vars => PoolInv'
<1> SUFFICES ASSUME PoolInv, [Next]_vars PROVE PoolInv'
  OBVIOUS
<1>1. CASE UNCHANGED vars
  BY <1>1 DEF vars, pool, PoolInv, PoolTypes, PoolPartition, DownIsQuiet
<1>2. ASSUME NEW r \in Reqs,
             Call(r) \/ Acquired(r) \/ Fetched(r) \/ Audited(r) \/ Cancel(r)
      PROVE  PoolInv'
  BY <1>2, CallStep, AcquireStep, FetchedStep, AuditedStep, CancelStep
<1> QED BY <1>1, <1>2, ProcessStep DEF Next

LEMMA PoolInvariant == Spec => []PoolInv
  BY PoolInit, PoolNext, PTL DEF Spec

(* The pool's connections are always idle or held by exactly one call that *)
(* is running a statement: none is lost or shared on any path of any       *)
(* handler, errors, cancellations and crashes included.                    *)
THEOREM PoolPartitionHolds == Spec => []PoolPartition
<1>1. PoolInv => PoolPartition
  BY DEF PoolInv
<1> QED BY <1>1, PoolInvariant, PTL

(* The pool cannot deadlock, though acquire() has no timeout and a call    *)
(* takes a connection twice: whenever a call waits for one, one is idle or *)
(* another call is running a statement, which ends within its timeout.     *)
THEOREM WaitersHaveLenders ==
    Spec => [](\A r \in Reqs : pc[r] \in {"acquire", "acquire_audit"} =>
                  idle # {} \/ \E q \in Reqs \ {r} : held[q] \in Conns /\ pc[q] \in Holding)
<1>1. ASSUME PoolInv, NEW r \in Reqs, pc[r] \in {"acquire", "acquire_audit"}, idle = {}
      PROVE  \E q \in Reqs \ {r} : held[q] \in Conns /\ pc[q] \in Holding
  <2>1. PICK conn \in Conns : conn # NULL
    BY ConnsAssumption
  <2>2. PICK q \in Reqs : held[q] = conn
    BY <1>1, <2>1 DEF PoolInv, PoolPartition
  <2>3. pc[q] \in Holding
    BY <1>1, <2>1, <2>2 DEF Holding, PoolInv, PoolPartition
  <2> QED BY <1>1, <2>1, <2>2, <2>3 DEF Holding
<1>2. PoolInv => \A r \in Reqs : pc[r] \in {"acquire", "acquire_audit"} =>
          idle # {} \/ \E q \in Reqs \ {r} : held[q] \in Conns /\ pc[q] \in Holding
  BY <1>1
<1> QED BY <1>2, PoolInvariant, PTL

-----------------------------------------------------------------------------
(* Types *)

WithRows == {"acquire_audit", "insert", "inserted"}

DataOK ==
    /\ job \in [Reqs -> Jobs \cup {NULL}]
    /\ \A r \in Reqs : pc[r] # "new" => job[r] \in Jobs
    /\ result \in [Reqs -> Results \cup {NULL}]
    /\ \A r \in Reqs : pc[r] \in WithRows =>
           result[r] \in Results /\ job[r].tool \in AuditedTools
    /\ audit \in SUBSET AuditRows
    /\ reply \in [Reqs -> Answers \cup {NULL}]
    /\ \A r \in Reqs : pc[r] # "done" => reply[r] = NULL
    /\ now \in Nat

\* An earlier process's calls have been made.
FormerOK == former \in SUBSET {r \in Reqs : pc[r] # "new"}

LEMMA TypeOKSplit == TypeOK <=> PoolTypes /\ DataOK /\ FormerOK
  BY DEF TypeOK, PoolTypes, DataOK, FormerOK, PcValues, WithRows

LEMMA AnswersTyped ==
    ASSUME NEW kind \in {"empty", "listing", "log", "error", "rate_limited",
                         "raised", "cancelled", "lost"}
    PROVE  Answer(kind) \in Answers /\ Answer(kind).kind = kind
  BY DEF Answer, Answers

(* A handler that ends, with whatever answer. *)
LEMMA DoneTyped ==
    ASSUME PoolInv, DataOK, NEW r \in Reqs, NEW a \in Answers, Done(r, a),
           pc[r] # "new", UNCHANGED <<job, result, audit, now>>
    PROVE  DataOK'
<1>1. \A q \in Reqs : pc'[q] = IF q = r THEN "done" ELSE pc[q]
  BY DEF PoolInv, PoolTypes, Done
<1>2. reply' \in [Reqs -> Answers \cup {NULL}]
  BY DEF DataOK, Done
<1>3. \A q \in Reqs : pc'[q] # "done" => reply'[q] = NULL
  BY <1>1 DEF DataOK, Done
<1>4. \A q \in Reqs : (pc'[q] \in WithRows => pc[q] \in WithRows) /\ (pc'[q] # "new" => pc[q] # "new")
  BY <1>1 DEF WithRows
<1> QED BY <1>2, <1>3, <1>4 DEF DataOK

(* A handler that goes on to another await. *)
LEMMA GoToTyped ==
    ASSUME PoolInv, DataOK, NEW r \in Reqs, NEW p \in Awaits, GoTo(r, p),
           pc[r] \notin {"new", "done"},
           UNCHANGED <<job, now>>,
           audit' \in SUBSET AuditRows,
           result' \in [Reqs -> Results \cup {NULL}],
           \A q \in Reqs \ {r} : result'[q] = result[q],
           p \in WithRows => result'[r] \in Results /\ job[r].tool \in AuditedTools
    PROVE  DataOK'
<1>1. \A q \in Reqs : pc'[q] = IF q = r THEN p ELSE pc[q]
  BY DEF PoolInv, PoolTypes, GoTo
<1>2. p \notin {"new", "done"}
  BY DEF Awaits
<1>3. \A q \in Reqs : pc'[q] \in WithRows => result'[q] \in Results /\ job[q].tool \in AuditedTools
  BY <1>1 DEF DataOK
<1>4. \A q \in Reqs : pc'[q] # "done" => reply'[q] = NULL
  BY <1>1 DEF DataOK, GoTo
<1>5. \A q \in Reqs : pc'[q] # "new" => job'[q] \in Jobs
  BY <1>1 DEF DataOK
<1> QED BY <1>3, <1>4, <1>5 DEF DataOK, GoTo

LEMMA CallTyped ==
    ASSUME PoolInv, DataOK, NEW r \in Reqs, Call(r) PROVE DataOK'
<1>1. /\ phase = "up" /\ pc[r] = "new"
      /\ UNCHANGED <<result, audit, now>>
      /\ \/ GoTo(r, "acquire")
         \/ \E kind \in {"error", "rate_limited"} : Done(r, Answer(kind))
  BY CallStep
<1>2. \E x \in Jobs : job' = [job EXCEPT ![r] = x]
  <2>1. PICK c \in Callers, tool \in Tools, columns \in ResultColumns :
          Arrive(r, c, tool, columns)
    BY CallStep
  <2> DEFINE seen == {q \in Reqs : reply[q] # NULL /\ reply[q].kind = "data"}
             x == [tool |-> tool, user |-> c.user, roles |-> c.roles,
                   columns |-> columns, at |-> now, seen |-> seen]
  <2>2. job' = [job EXCEPT ![r] = x]
    BY <2>1 DEF Arrive
  <2>3. x \in Jobs
    <3>1. c.user \in Users /\ c.roles \in SUBSET DbRoles /\ seen \in SUBSET Reqs /\ now \in Nat
      BY RolesAssumption DEF Users, DataOK
    <3> HIDE DEF seen
    <3> QED BY <3>1 DEF Jobs
  <2> QED BY <2>2, <2>3
<1>3. PICK p \in {"acquire", "done"} : pc' = [pc EXCEPT ![r] = p]
  BY <1>1 DEF GoTo, Done
<1>4. \A q \in Reqs : pc'[q] = IF q = r THEN p ELSE pc[q]
  BY <1>3 DEF PoolInv, PoolTypes
<1>5. /\ job' \in [Reqs -> Jobs \cup {NULL}]
      /\ \A q \in Reqs : pc'[q] # "new" => job'[q] \in Jobs
      /\ \A q \in Reqs \ {r} : job'[q] = job[q]
  BY <1>2, <1>4 DEF DataOK
<1>6. reply' \in [Reqs -> Answers \cup {NULL}] /\ \A q \in Reqs : pc'[q] # "done" => reply'[q] = NULL
  <2>1. CASE GoTo(r, "acquire")
    BY <1>1, <2>1 DEF GoTo, DataOK, PoolInv, PoolTypes
  <2>2. ASSUME NEW kind \in {"error", "rate_limited"}, Done(r, Answer(kind))
        PROVE  /\ reply' \in [Reqs -> Answers \cup {NULL}]
               /\ \A q \in Reqs : pc'[q] # "done" => reply'[q] = NULL
    BY <2>2, AnswersTyped DEF Done, DataOK, PoolInv, PoolTypes
  <2> QED BY <1>1, <2>1, <2>2
<1>7. \A q \in Reqs : pc'[q] \in WithRows =>
          result'[q] \in Results /\ job'[q].tool \in AuditedTools
  <2> SUFFICES ASSUME NEW q \in Reqs, pc'[q] \in WithRows
               PROVE  result'[q] \in Results /\ job'[q].tool \in AuditedTools
    OBVIOUS
  <2>1. q # r /\ pc[q] \in WithRows
    BY <1>3, <1>4 DEF WithRows
  <2> QED BY <1>1, <1>5, <2>1 DEF DataOK
<1> QED BY <1>1, <1>5, <1>6, <1>7 DEF DataOK

(* The entry a call writes. *)
LEMMA EntryTyped ==
    ASSUME DataOK, NEW r \in Reqs, pc[r] \in WithRows
    PROVE  Entry(r) \in Entries /\ Entry(r).req = r
<1>1. result[r] \in Results /\ job[r] \in Jobs /\ job[r].tool \in AuditedTools
  BY DEF DataOK, WithRows
<1>2. SubClaim[job[r].user] \in UserIds
  BY <1>1, SubClaimAssumption DEF Jobs, Users
<1> QED BY <1>1, <1>2 DEF Entry, Entries, Results, Jobs

LEMMA FetchedTyped ==
    ASSUME PoolInv, DataOK, NEW r \in Reqs, Fetched(r) PROVE DataOK'
<1>1. CASE FetchRows(r)
  <2>1. /\ pc[r] = "fetch" /\ UNCHANGED <<job, audit, now>>
        /\ job[r].tool \in AuditedTools
    BY <1>1 DEF FetchRows, limiter, AuditedTools
  <2>2. PICK n \in RowCounts :
          \/ \E kind \in {"empty", "raised"} : Done(r, Answer(kind)) /\ result' = result
          \/ /\ result' = [result EXCEPT ![r] = [n |-> n, masked |-> Masked(r)]]
             /\ GoTo(r, "acquire_audit")
    BY <1>1 DEF FetchRows
  <2>3. CASE \E kind \in {"empty", "raised"} : Done(r, Answer(kind)) /\ result' = result
    BY <2>1, <2>3, AnswersTyped, DoneTyped
  <2>4. CASE /\ result' = [result EXCEPT ![r] = [n |-> n, masked |-> Masked(r)]]
             /\ GoTo(r, "acquire_audit")
    <3>1. [n |-> n, masked |-> Masked(r)] \in Results
      BY DEF Results, Masked, accessed_sensitive
    <3>2. /\ result' \in [Reqs -> Results \cup {NULL}]
          /\ result'[r] \in Results
          /\ \A q \in Reqs \ {r} : result'[q] = result[q]
      BY <2>4, <3>1 DEF DataOK
    <3> QED BY <2>1, <2>4, <3>2, GoToTyped DEF Awaits, DataOK
  <2> QED BY <2>2, <2>3, <2>4
<1>2. CASE FetchCatalog(r)
  <2>1. /\ pc[r] = "fetch" /\ UNCHANGED <<job, result, audit, now>>
        /\ \E kind \in {"listing", "error"} : Done(r, Answer(kind))
    BY <1>2 DEF FetchCatalog, limiter
  <2> QED BY <2>1, AnswersTyped, DoneTyped
<1>3. CASE FetchAuditLog(r)
  <2>1. PICK entries \in SUBSET audit : Done(r, [Answer("log") EXCEPT !.entries = entries])
    BY <1>3 DEF FetchAuditLog
  <2>2. [Answer("log") EXCEPT !.entries = entries] \in Answers
    BY DEF Answer, Answers, DataOK
  <2>3. pc[r] = "fetch" /\ UNCHANGED <<job, result, audit, now>>
    BY <1>3 DEF FetchAuditLog, limiter
  <2> QED BY <2>1, <2>2, <2>3, DoneTyped
<1>4. CASE FetchFails(r)
  <2>1. /\ pc[r] = "fetch" /\ UNCHANGED <<job, result, audit, now>>
        /\ \E kind \in {"error", "raised"} : Done(r, Answer(kind))
    BY <1>4 DEF FetchFails, FailureAnswers, limiter
  <2> QED BY <2>1, AnswersTyped, DoneTyped
<1> QED BY <1>1, <1>2, <1>3, <1>4 DEF Fetched

LEMMA AcquiredTyped ==
    ASSUME PoolInv, DataOK, NEW r \in Reqs, Acquired(r) PROVE DataOK'
<1>1. CASE Acquire(r)
  <2>1. /\ pc[r] \in {"acquire", "acquire_audit"} /\ UNCHANGED <<job, result, audit, now>>
        /\ GoTo(r, IF pc[r] = "acquire" THEN "fetch" ELSE "insert")
    BY <1>1 DEF Acquire, limiter
  <2>2. CASE pc[r] = "acquire"
    BY <2>1, <2>2, GoToTyped DEF Awaits, WithRows, DataOK
  <2>3. CASE pc[r] = "acquire_audit"
    BY <2>1, <2>3, GoToTyped DEF Awaits, WithRows, DataOK
  <2> QED BY <2>1, <2>2, <2>3
<1>2. CASE AcquireFails(r)
  <2>1. /\ pc[r] \in {"acquire", "acquire_audit"} /\ UNCHANGED <<job, result, audit, now>>
        /\ \E kind \in {"error", "raised"} : Done(r, Answer(kind))
    BY <1>2 DEF AcquireFails, FailureAnswers, limiter
  <2> QED BY <2>1, AnswersTyped, DoneTyped
<1> QED BY <1>1, <1>2 DEF Acquired

LEMMA AuditedTyped ==
    ASSUME PoolInv, DataOK, NEW r \in Reqs, Audited(r) PROVE DataOK'
<1>1. CASE CommitAudit(r)
  <2>1. /\ pc[r] = "insert" /\ GoTo(r, "inserted") /\ UNCHANGED <<job, result, now>>
        /\ \E t \in job[r].at .. now : audit' = audit \cup {Stamped(r, t)}
    BY <1>1 DEF CommitAudit, limiter
  <2>2. pc[r] \in WithRows /\ job[r].at \in Nat
    BY <2>1 DEF WithRows, DataOK, Jobs
  <2>3. audit' \in SUBSET AuditRows
    BY <2>1, <2>2, EntryTyped DEF DataOK, Stamped, AuditRows
  <2> QED BY <2>1, <2>2, <2>3, GoToTyped DEF Awaits, DataOK
<1>2. CASE FinishAudit(r)
  <2>1. /\ pc[r] = "inserted" /\ UNCHANGED <<job, result, audit, now>>
        /\ Done(r, [Answer("data") EXCEPT !.n = result[r].n, !.masked = result[r].masked])
    BY <1>2 DEF FinishAudit, limiter
  <2>2. result[r] \in Results
    BY <2>1 DEF DataOK, WithRows
  <2>3. [Answer("data") EXCEPT !.n = result[r].n, !.masked = result[r].masked] \in Answers
    BY <2>2, RowCountsAssumption DEF Answer, Answers, Results
  <2> QED BY <2>1, <2>3, DoneTyped
<1>3. CASE AuditFails(r)
  <2>1. /\ pc[r] \in {"insert", "inserted"} /\ UNCHANGED <<job, result, audit, now>>
        /\ Done(r, Answer("raised"))
    BY <1>3 DEF AuditFails, limiter
  <2> QED BY <2>1, AnswersTyped, DoneTyped
<1> QED BY <1>1, <1>2, <1>3 DEF Audited

LEMMA CancelTyped ==
    ASSUME PoolInv, DataOK, NEW r \in Reqs, Cancel(r) PROVE DataOK'
<1>1. /\ pc[r] # "new" /\ UNCHANGED <<job, result, audit, now>>
      /\ Done(r, Answer("cancelled"))
  BY DEF Cancel, InFlight, limiter
<1> QED BY <1>1, AnswersTyped, DoneTyped

LEMMA ProcessTyped ==
    ASSUME PoolInv, DataOK, SigTerm \/ ClosePool \/ Crash \/ Start \/ Tick PROVE DataOK'
<1>1. CASE SigTerm \/ ClosePool \/ Start
  BY <1>1 DEF SigTerm, ClosePool, Start, NewProcess, limiter, DataOK
<1>2. CASE Tick
  BY <1>2 DEF Tick, DataOK
<1>3. CASE Crash
  <2>1. PICK S \in SUBSET {r \in Reqs : pc[r] = "insert"} :
          audit' = audit \cup {Stamped(r, now) : r \in S}
    BY <1>3 DEF Crash
  <2>2. audit' \in SUBSET AuditRows
    <3>1. \A r \in S : Stamped(r, now) \in AuditRows
      BY EntryTyped DEF Stamped, AuditRows, WithRows, DataOK
    <3> QED BY <2>1, <3>1 DEF DataOK
  <2>3. UNCHANGED <<job, result, now>>
    BY <1>3 DEF Crash, limiter
  <2>4. \A r \in Reqs : pc'[r] = IF r \in InFlight THEN "done" ELSE pc[r]
    BY <1>3 DEF Crash
  <2>5. \A r \in Reqs : pc'[r] \in {"new", "done"} /\ (pc'[r] # "new" => pc[r] # "new")
    BY <2>4 DEF InFlight
  <2>6. /\ reply' = [r \in Reqs |-> IF r \in InFlight THEN Answer("lost") ELSE reply[r]]
        /\ Answer("lost") \in Answers
    BY <1>3, AnswersTyped DEF Crash
  <2>7. reply' \in [Reqs -> Answers \cup {NULL}]
    BY <2>6 DEF DataOK
  <2>8. \A r \in Reqs : pc'[r] # "done" => reply'[r] = NULL
    BY <2>4, <2>6 DEF DataOK
  <2> QED BY <2>2, <2>3, <2>5, <2>7, <2>8 DEF DataOK, WithRows
<1> QED BY <1>1, <1>2, <1>3

\* Only a new process changes what counts as an earlier one's call.
LEMMA FormerStep ==
    ASSUME PoolInv, [Next]_vars
    PROVE  /\ former' = former \/ Start
           /\ \A q \in Reqs : pc[q] # "new" => pc'[q] # "new"
<1>1. ASSUME NEW r \in Reqs,
             Call(r) \/ Acquired(r) \/ Fetched(r) \/ Audited(r) \/ Cancel(r)
      PROVE  UNCHANGED lives /\ \E p \in PcValues \ {"new"} : pc' = [pc EXCEPT ![r] = p]
  <2>1. CASE Call(r)
    BY <2>1, CallStep DEF GoTo, Done, PcValues, Awaits
  <2>2. CASE Acquired(r)
    BY <2>2 DEF Acquired, Acquire, AcquireFails, GoTo, Done, PcValues, Awaits
  <2>3. CASE Fetched(r)
    BY <2>3 DEF Fetched, FetchRows, FetchCatalog, FetchAuditLog, FetchFails, GoTo, Done,
                PcValues, Awaits
  <2>4. CASE Audited(r) \/ Cancel(r)
    BY <2>4 DEF Audited, CommitAudit, FinishAudit, AuditFails, Cancel, GoTo, Done,
                PcValues, Awaits
  <2> QED BY <1>1, <2>1, <2>2, <2>3, <2>4
<1>2. ASSUME NEW r \in Reqs,
             Call(r) \/ Acquired(r) \/ Fetched(r) \/ Audited(r) \/ Cancel(r)
      PROVE  former' = former /\ \A q \in Reqs : pc[q] # "new" => pc'[q] # "new"
  BY <1>1, <1>2 DEF lives, PoolInv, PoolTypes
<1>3. CASE SigTerm \/ ClosePool \/ Crash \/ Tick \/ UNCHANGED vars
  BY <1>3 DEF SigTerm, ClosePool, Crash, Tick, vars, lives, InFlight
<1>4. CASE Start
  BY <1>4 DEF Start, NewProcess
<1> QED BY <1>2, <1>3, <1>4 DEF Next

TypeInv == PoolInv /\ DataOK /\ FormerOK

LEMMA TypeInit == Init => TypeInv
<1>1. Init => DataOK
  BY DEF Init, DataOK, WithRows
<1>2. Init => FormerOK
  BY DEF Init, FormerOK
<1> QED BY <1>1, <1>2, PoolInit DEF TypeInv

LEMMA TypeNext == TypeInv /\ [Next]_vars => TypeInv'
<1> SUFFICES ASSUME TypeInv, [Next]_vars PROVE DataOK' /\ FormerOK'
  BY PoolNext DEF TypeInv
<1>1. CASE UNCHANGED vars
  BY <1>1 DEF vars, limiter, lives, TypeInv, DataOK, FormerOK
<1>2. ASSUME NEW r \in Reqs,
             Call(r) \/ Acquired(r) \/ Fetched(r) \/ Audited(r) \/ Cancel(r)
      PROVE  DataOK'
  BY <1>2, CallTyped, AcquiredTyped, FetchedTyped, AuditedTyped, CancelTyped DEF TypeInv
<1>3. FormerOK'
  <2>1. CASE former' = former
    BY <2>1, FormerStep DEF TypeInv, FormerOK
  <2>2. CASE Start
    BY <2>2 DEF Start, NewProcess, FormerOK
  <2> QED BY <2>1, <2>2, FormerStep DEF TypeInv
<1> QED BY <1>1, <1>2, <1>3, ProcessTyped DEF Next, TypeInv

LEMMA TypeInvariant == Spec => []TypeInv
  BY TypeInit, TypeNext, PTL DEF Spec

(* Every variable keeps its type, audit entries and answers included.      *)
THEOREM TypeCorrect == Spec => []TypeOK
<1>1. TypeInv => TypeOK
  BY TypeOKSplit DEF TypeInv, PoolInv
<1> QED BY <1>1, TypeInvariant, PTL

-----------------------------------------------------------------------------
(* The ledger.  An entry is in audit_logs from "inserted" on; it stays     *)
(* what the call's job and result say, because those no longer change; and *)
(* an answer with data repeats them.                                       *)

Written == {e.entry : e \in audit}

Told(r) == reply[r] # NULL /\ reply[r].kind = "data"

Revealed == {ShownTo(r) : r \in {q \in Reqs : Told(q)}}

LedgerInv ==
    /\ \A x \in Written :
           x.req \in Reqs /\ pc[x.req] \in {"inserted", "done"} /\ x = Entry(x.req)
    /\ \A r \in Reqs : pc[r] = "inserted" => Entry(r) \in Written
    /\ \A r \in Reqs : Told(r) =>
           pc[r] = "done" /\ ShownTo(r) = Entry(r) /\ Entry(r) \in Written

(* A step of call r that writes and shows nothing. *)
LEMMA QuietStep ==
    ASSUME TypeInv, LedgerInv, NEW r \in Reqs, NEW p \in PcValues, p # "inserted",
           pc[r] # "done", pc' = [pc EXCEPT ![r] = p], audit' = audit,
           \A q \in Reqs \ {r} : job'[q] = job[q] /\ result'[q] = result[q]
                                   /\ reply'[q] = reply[q],
           pc[r] = "inserted" =>
               p = "done" /\ job'[r] = job[r] /\ result'[r] = result[r],
           ~Told(r)'
    PROVE  LedgerInv' /\ Written' = Written /\ Revealed' = Revealed
<1>1. \A q \in Reqs : pc'[q] = IF q = r THEN p ELSE pc[q]
  BY DEF TypeInv, PoolInv, PoolTypes
<1>2. Written' = Written
  BY DEF Written
<1>3. ~Told(r)
  BY DEF LedgerInv
<1>4. \A q \in Reqs \ {r} :
        /\ Told(q)' <=> Told(q)
        /\ ShownTo(q)' = ShownTo(q)
        /\ Entry(q)' = Entry(q)
  BY DEF Told, ShownTo, Entry
<1>5. pc[r] = "inserted" => Entry(r)' = Entry(r)
  BY DEF Entry
<1>6. Revealed' = Revealed
  <2>1. \A x : x \in Revealed' <=> \E q \in Reqs : Told(q)' /\ x = ShownTo(q)'
    BY DEF Revealed
  <2>2. \A x : x \in Revealed <=> \E q \in Reqs : Told(q) /\ x = ShownTo(q)
    BY DEF Revealed
  <2>3. \A x : x \in Revealed' <=> x \in Revealed
    BY <1>3, <1>4, <2>1, <2>2
  <2> QED BY <2>3
<1>7. ASSUME NEW x \in Written
      PROVE  x.req \in Reqs /\ pc'[x.req] \in {"inserted", "done"} /\ x = Entry(x.req)'
  <2>1. x.req \in Reqs /\ pc[x.req] \in {"inserted", "done"} /\ x = Entry(x.req)
    BY DEF LedgerInv
  <2>2. CASE x.req = r
    BY <1>1, <1>5, <2>1, <2>2
  <2>3. CASE x.req # r
    <3>1. Entry(x.req)' = Entry(x.req)
      BY <1>4, <2>1, <2>3
    <3> QED BY <1>1, <2>1, <2>3, <3>1
  <2> QED BY <2>2, <2>3
<1>8. ASSUME NEW q \in Reqs, pc'[q] = "inserted" PROVE Entry(q)' \in Written
  <2>1. q # r /\ pc[q] = "inserted"
    BY <1>1, <1>8
  <2> QED BY <1>4, <2>1 DEF LedgerInv
<1>9. ASSUME NEW q \in Reqs, Told(q)'
      PROVE  pc'[q] = "done" /\ ShownTo(q)' = Entry(q)' /\ Entry(q)' \in Written
  <2>1. q # r /\ Told(q)
    BY <1>4, <1>9
  <2> QED BY <1>1, <1>4, <2>1 DEF LedgerInv
<1> QED BY <1>2, <1>6, <1>7, <1>8, <1>9 DEF LedgerInv

(* A handler that ends without data writes and shows nothing. *)
LEMMA QuietDone ==
    ASSUME TypeInv, LedgerInv, NEW r \in Reqs, NEW a \in Answers, a.kind # "data",
           Done(r, a), pc[r] # "done", UNCHANGED <<result, audit>>,
           \A q \in Reqs \ {r} : job'[q] = job[q],
           pc[r] # "new" => job' = job
    PROVE  LedgerInv' /\ Written' = Written /\ Revealed' = Revealed
<1>1. /\ pc' = [pc EXCEPT ![r] = "done"]
      /\ reply'[r] = a /\ \A q \in Reqs \ {r} : reply'[q] = reply[q]
  BY DEF Done, TypeInv, DataOK
<1>2. ~Told(r)'
  BY <1>1 DEF Told
<1> QED BY <1>1, <1>2, QuietStep DEF PcValues

(* So does one that goes on to another await without having written. *)
LEMMA QuietGoTo ==
    ASSUME TypeInv, LedgerInv, NEW r \in Reqs,
           NEW p \in {"acquire", "fetch", "acquire_audit", "insert"},
           GoTo(r, p), pc[r] \notin {"inserted", "done"}, audit' = audit,
           \A q \in Reqs \ {r} : job'[q] = job[q] /\ result'[q] = result[q]
    PROVE  LedgerInv' /\ Written' = Written /\ Revealed' = Revealed
<1>1. pc' = [pc EXCEPT ![r] = p] /\ reply' = reply
  BY DEF GoTo
<1>2. ~Told(r)'
  BY <1>1 DEF Told, TypeInv, DataOK
<1> QED BY <1>1, <1>2, QuietStep DEF PcValues, Awaits

Quiet == LedgerInv' /\ Written' = Written /\ Revealed' = Revealed

LEMMA QuietCall ==
    ASSUME TypeInv, LedgerInv, NEW r \in Reqs, Call(r) PROVE Quiet
<1>1. /\ pc[r] = "new" /\ UNCHANGED <<result, audit>>
      /\ \E c \in Callers, tool \in Tools, columns \in ResultColumns : Arrive(r, c, tool, columns)
      /\ \/ GoTo(r, "acquire")
         \/ \E kind \in {"error", "rate_limited"} : Done(r, Answer(kind))
  BY CallStep DEF TypeInv
<1>2. \A q \in Reqs \ {r} : job'[q] = job[q]
  BY <1>1 DEF Arrive, TypeInv, DataOK
<1>3. CASE GoTo(r, "acquire")
  BY <1>1, <1>2, <1>3, QuietGoTo DEF Quiet
<1>4. ASSUME NEW kind \in {"error", "rate_limited"}, Done(r, Answer(kind))
      PROVE  Quiet
  <2>1. Answer(kind) \in Answers /\ Answer(kind).kind # "data"
    BY AnswersTyped
  <2> QED BY <1>1, <1>2, <1>4, <2>1, QuietDone DEF Quiet
<1> QED BY <1>1, <1>3, <1>4

LEMMA QuietAcquired ==
    ASSUME TypeInv, LedgerInv, NEW r \in Reqs, Acquired(r) PROVE Quiet
<1>1. CASE Acquire(r)
  <2>1. /\ pc[r] \in {"acquire", "acquire_audit"} /\ UNCHANGED <<job, result, audit>>
        /\ \E p \in {"fetch", "insert"} : GoTo(r, p)
    BY <1>1 DEF Acquire
  <2> QED BY <2>1, QuietGoTo DEF Quiet
<1>2. CASE AcquireFails(r)
  <2>1. /\ pc[r] \in {"acquire", "acquire_audit"} /\ UNCHANGED <<job, result, audit>>
        /\ \E kind \in {"error", "raised"} : Done(r, Answer(kind))
    BY <1>2 DEF AcquireFails, FailureAnswers
  <2>2. \A kind \in {"error", "raised"} : Answer(kind) \in Answers /\ Answer(kind).kind # "data"
    BY AnswersTyped
  <2> QED BY <2>1, <2>2, QuietDone DEF Quiet
<1> QED BY <1>1, <1>2 DEF Acquired

LEMMA QuietFetched ==
    ASSUME TypeInv, LedgerInv, NEW r \in Reqs, Fetched(r) PROVE Quiet
<1>1. pc[r] = "fetch" /\ UNCHANGED <<job, audit>>
  BY DEF Fetched, FetchRows, FetchCatalog, FetchAuditLog, FetchFails
<1>2. \/ /\ GoTo(r, "acquire_audit")
         /\ \E x : result' = [result EXCEPT ![r] = x]
      \/ /\ \E kind \in {"empty", "raised", "listing", "error"} : Done(r, Answer(kind))
         /\ result' = result
      \/ /\ \E entries \in SUBSET audit : Done(r, [Answer("log") EXCEPT !.entries = entries])
         /\ result' = result
  BY DEF Fetched, FetchRows, FetchCatalog, FetchAuditLog, FetchFails, FailureAnswers
<1>3. CASE /\ GoTo(r, "acquire_audit")
           /\ \E x : result' = [result EXCEPT ![r] = x]
  <2>1. \A q \in Reqs \ {r} : job'[q] = job[q] /\ result'[q] = result[q]
    BY <1>1, <1>3 DEF TypeInv, DataOK
  <2> QED BY <1>1, <1>3, <2>1, QuietGoTo DEF Quiet
<1>4. ASSUME NEW kind \in {"empty", "raised", "listing", "error"},
             Done(r, Answer(kind)), result' = result
      PROVE  Quiet
  <2>1. Answer(kind) \in Answers /\ Answer(kind).kind # "data"
    BY AnswersTyped
  <2> QED BY <1>1, <1>4, <2>1, QuietDone DEF Quiet
<1>5. ASSUME NEW entries \in SUBSET audit,
             Done(r, [Answer("log") EXCEPT !.entries = entries]), result' = result
      PROVE  Quiet
  <2> DEFINE a == [Answer("log") EXCEPT !.entries = entries]
  <2>1. a \in Answers /\ a.kind # "data"
    BY DEF Answer, Answers, TypeInv, DataOK
  <2> QED BY <1>1, <1>5, <2>1, QuietDone DEF Quiet
<1> QED BY <1>2, <1>3, <1>4, <1>5

LEMMA QuietEnd ==
    ASSUME TypeInv, LedgerInv, NEW r \in Reqs, AuditFails(r) \/ Cancel(r) PROVE Quiet
<1>1. /\ pc[r] # "done" /\ UNCHANGED <<job, result, audit>>
      /\ \E kind \in {"raised", "cancelled"} : Done(r, Answer(kind))
  BY DEF AuditFails, Cancel, InFlight
<1>2. \A kind \in {"raised", "cancelled"} : Answer(kind) \in Answers /\ Answer(kind).kind # "data"
  BY AnswersTyped
<1> QED BY <1>1, <1>2, QuietDone DEF Quiet

(* The entries of several INSERTs at once, whatever becomes of the calls.  *)
Writes(S) == Written' = Written \cup {Entry(r) : r \in S}

LEMMA WriteStep ==
    ASSUME TypeInv, LedgerInv, NEW S \in SUBSET {r \in Reqs : pc[r] = "insert"},
           Writes(S), UNCHANGED <<job, result>>,
           \A r \in S : pc'[r] \in {"inserted", "done"},
           \A r \in Reqs : pc[r] \in {"inserted", "done"} => pc'[r] \in {"inserted", "done"},
           \A r \in Reqs : pc'[r] = "inserted" => pc[r] = "inserted" \/ r \in S,
           \A r \in Reqs : pc[r] = "done" => pc'[r] = "done" /\ reply'[r] = reply[r],
           \A r \in Reqs : pc[r] # "done" => ~Told(r)'
    PROVE  LedgerInv' /\ Revealed' = Revealed
<1>1. \A r \in Reqs : Entry(r)' = Entry(r) /\ (pc[r] = "done" => ShownTo(r)' = ShownTo(r))
  BY DEF Entry, ShownTo
<1>2. \A r \in Reqs : Told(r)' <=> Told(r)
  BY DEF Told, LedgerInv
<1>3. Revealed' = Revealed
  <2>1. \A r \in Reqs : Told(r) => ShownTo(r)' = ShownTo(r)
    BY <1>1 DEF LedgerInv
  <2>2. \A x : x \in Revealed' <=> x \in Revealed
    BY <1>2, <2>1 DEF Revealed
  <2> QED BY <2>2
<1>4. ASSUME NEW x \in Written'
      PROVE  x.req \in Reqs /\ pc'[x.req] \in {"inserted", "done"} /\ x = Entry(x.req)'
  <2>1. CASE x \in Written
    BY <1>1, <2>1 DEF LedgerInv
  <2>2. ASSUME NEW r \in S, x = Entry(r)
        PROVE  x.req \in Reqs /\ pc'[x.req] \in {"inserted", "done"} /\ x = Entry(x.req)'
    <3>1. x.req = r
      BY <2>2 DEF Entry
    <3> QED BY <1>1, <2>2, <3>1
  <2> QED BY <2>1, <2>2 DEF Writes
<1>5. \A r \in Reqs : pc'[r] = "inserted" => Entry(r)' \in Written'
  BY <1>1 DEF LedgerInv, Writes
<1>6. \A r \in Reqs : Told(r)' =>
          pc'[r] = "done" /\ ShownTo(r)' = Entry(r)' /\ Entry(r)' \in Written'
  BY <1>1, <1>2 DEF LedgerInv, Writes
<1> QED BY <1>3, <1>4, <1>5, <1>6 DEF LedgerInv

LEMMA CommitWrites ==
    ASSUME TypeInv, LedgerInv, NEW r \in Reqs, CommitAudit(r)
    PROVE  Writes({r}) /\ LedgerInv' /\ Revealed' = Revealed
<1>1. /\ pc[r] = "insert" /\ pc' = [pc EXCEPT ![r] = "inserted"]
      /\ UNCHANGED <<job, result, reply>>
      /\ \E t : audit' = audit \cup {Stamped(r, t)}
  BY DEF CommitAudit, GoTo
<1>2. Writes({r})
  <2>1. PICK t : audit' = audit \cup {Stamped(r, t)}
    BY <1>1
  <2>2. Stamped(r, t).entry = Entry(r)
    BY DEF Stamped
  <2>3. \A x : x \in Written' <=> x \in Written \cup {Entry(r)}
    BY <2>1, <2>2 DEF Written
  <2> QED BY <2>3 DEF Writes
<1>3. \A q \in Reqs : pc'[q] = IF q = r THEN "inserted" ELSE pc[q]
  BY <1>1 DEF TypeInv, PoolInv, PoolTypes
<1>4. \A q \in Reqs : pc[q] # "done" => ~Told(q)'
  BY <1>1 DEF Told, TypeInv, DataOK
<1> QED BY <1>1, <1>2, <1>3, <1>4, WriteStep

LEMMA CrashWrites ==
    ASSUME TypeInv, LedgerInv, Crash
    PROVE  /\ \E S \in SUBSET {r \in Reqs : pc[r] = "insert"} : Writes(S)
           /\ LedgerInv' /\ Revealed' = Revealed
<1>1. PICK S \in SUBSET {r \in Reqs : pc[r] = "insert"} :
        audit' = audit \cup {Stamped(r, now) : r \in S}
  BY DEF Crash
<1>2. Writes(S)
  <2>1. \A r : Stamped(r, now).entry = Entry(r)
    BY DEF Stamped
  <2>2. \A x : x \in Written' <=> \/ \E e \in audit : x = e.entry
                                  \/ \E r \in S : x = Stamped(r, now).entry
    BY <1>1 DEF Written
  <2>3. \A x : x \in Written' <=> x \in Written \cup {Entry(r) : r \in S}
    BY <2>1, <2>2 DEF Written
  <2>4. Written' = Written \cup {Entry(r) : r \in S}
    BY <2>3
  <2> QED BY <2>4 DEF Writes
<1>3. UNCHANGED <<job, result>>
  BY DEF Crash
<1>4. /\ \A r \in Reqs : pc'[r] = IF r \in InFlight THEN "done" ELSE pc[r]
      /\ \A r \in Reqs : reply'[r] = IF r \in InFlight THEN Answer("lost") ELSE reply[r]
  BY DEF Crash
<1>5. \A r \in Reqs : r \in InFlight <=> pc[r] \notin {"new", "done"}
  BY DEF InFlight
<1>6. \A r \in Reqs : pc[r] # "done" => ~Told(r)'
  <2>1. Answer("lost").kind # "data"
    BY DEF Answer
  <2> QED BY <1>4, <2>1 DEF Told, TypeInv, DataOK
<1> QED BY <1>1, <1>2, <1>3, <1>4, <1>5, <1>6, WriteStep

(* The one step that shows rows shows what an entry in audit_logs says.    *)
LEMMA FinishShows ==
    ASSUME TypeInv, LedgerInv, NEW r \in Reqs, FinishAudit(r)
    PROVE  /\ LedgerInv' /\ Written' = Written
           /\ Entry(r) \in Written \ Revealed
           /\ Revealed' = Revealed \cup {Entry(r)}
<1>1. /\ pc[r] = "inserted" /\ pc' = [pc EXCEPT ![r] = "done"]
      /\ UNCHANGED <<job, result, audit>>
      /\ reply' = [reply EXCEPT ![r] = [Answer("data") EXCEPT !.n = result[r].n,
                                                              !.masked = result[r].masked]]
  BY DEF FinishAudit, Done
<1>2. /\ \A q \in Reqs : pc'[q] = IF q = r THEN "done" ELSE pc[q]
      /\ \A q \in Reqs \ {r} : reply'[q] = reply[q]
      /\ reply'[r].kind = "data" /\ reply'[r].n = result[r].n
      /\ reply'[r].masked = result[r].masked
  BY <1>1 DEF TypeInv, PoolInv, PoolTypes, DataOK, Answer
<1>3. Written' = Written /\ \A q \in Reqs : Entry(q)' = Entry(q)
  BY <1>1 DEF Written, Entry
<1>4. Entry(r) \in Written /\ ~Told(r)
  BY <1>1 DEF LedgerInv
<1>5. Entry(r) \notin Revealed
  <2>1. \A q \in Reqs : ShownTo(q).req = q /\ Entry(r).req = r
    BY DEF ShownTo, Entry
  <2> QED BY <1>4, <2>1 DEF Revealed
<1>6. ShownTo(r)' = Entry(r)
  BY <1>1, <1>2 DEF ShownTo, Entry
<1>7. \A q \in Reqs \ {r} : (Told(q)' <=> Told(q)) /\ ShownTo(q)' = ShownTo(q)
  BY <1>1, <1>2 DEF Told, ShownTo
<1>8. Told(r)'
  <2>1. result[r] \in Results
    BY <1>1 DEF TypeInv, DataOK, WithRows
  <2>2. [Answer("data") EXCEPT !.n = result[r].n, !.masked = result[r].masked] \in Answers
    BY <2>1, RowCountsAssumption DEF Answer, Answers, Results
  <2>3. reply'[r] \in Answers
    BY <1>1, <2>2 DEF TypeInv, DataOK
  <2> QED BY <1>2, <2>3, NullAssumption DEF Told
<1>9. Revealed' = Revealed \cup {Entry(r)}
  <2>1. \A x : x \in Revealed' <=> \E q \in Reqs : Told(q)' /\ x = ShownTo(q)'
    BY DEF Revealed
  <2>2. \A x : x \in Revealed <=> \E q \in Reqs : Told(q) /\ x = ShownTo(q)
    BY DEF Revealed
  <2>3. \A x : x \in Revealed' <=> x \in Revealed \cup {Entry(r)}
    BY <1>4, <1>6, <1>7, <1>8, <2>1, <2>2
  <2> QED BY <2>3
<1>10. LedgerInv'
  <2>1. \A x \in Written :
          x.req \in Reqs /\ pc'[x.req] \in {"inserted", "done"} /\ x = Entry(x.req)'
    BY <1>2, <1>3 DEF LedgerInv
  <2>2. \A q \in Reqs : pc'[q] = "inserted" => Entry(q)' \in Written
    BY <1>2, <1>3 DEF LedgerInv
  <2>3. \A q \in Reqs : Told(q)' =>
          pc'[q] = "done" /\ ShownTo(q)' = Entry(q)' /\ Entry(q)' \in Written
    BY <1>2, <1>3, <1>4, <1>6, <1>7 DEF LedgerInv
  <2> QED BY <1>3, <2>1, <2>2, <2>3 DEF LedgerInv
<1> QED BY <1>3, <1>4, <1>5, <1>9, <1>10

LEMMA ProcessQuiet ==
    ASSUME TypeInv, LedgerInv, SigTerm \/ ClosePool \/ Start \/ Tick \/ UNCHANGED vars
    PROVE  Quiet
<1>1. UNCHANGED <<pc, job, result, audit, reply>>
  BY DEF SigTerm, ClosePool, Start, NewProcess, Tick, vars
<1> QED BY <1>1 DEF Quiet, LedgerInv, Written, Revealed, Told, ShownTo, Entry

ServerInv == TypeInv /\ LedgerInv

LEMMA ServerInit == Init => ServerInv
<1>1. Init => LedgerInv
  BY DEF Init, LedgerInv, Written, Told
<1> QED BY <1>1, TypeInit DEF ServerInv

LEMMA ServerNext == ServerInv /\ [Next]_vars => ServerInv'
<1> SUFFICES ASSUME ServerInv, [Next]_vars PROVE LedgerInv'
  BY TypeNext DEF ServerInv
<1> USE DEF ServerInv
<1>1. ASSUME NEW r \in Reqs,
             Call(r) \/ Acquired(r) \/ Fetched(r) \/ Audited(r) \/ Cancel(r)
      PROVE  LedgerInv'
  <2>1. CASE Audited(r)
    BY <2>1, CommitWrites, FinishShows, QuietEnd DEF Audited, Quiet
  <2>2. CASE Call(r) \/ Acquired(r) \/ Fetched(r) \/ Cancel(r)
    BY <2>2, QuietCall, QuietAcquired, QuietFetched, QuietEnd DEF Quiet
  <2> QED BY <1>1, <2>1, <2>2
<1>2. CASE Crash
  BY <1>2, CrashWrites
<1>3. CASE SigTerm \/ ClosePool \/ Start \/ Tick \/ UNCHANGED vars
  BY <1>3, ProcessQuiet DEF Quiet
<1> QED BY <1>1, <1>2, <1>3 DEF Next

LEMMA ServerInvariant == Spec => []ServerInv
  BY ServerInit, ServerNext, PTL DEF Spec

-----------------------------------------------------------------------------
(* Refinement *)

(* Any growth of audit_logs is a Write of the abstract ledger. *)
LEMMA GrowthIsWrite ==
    ASSUME ServerInv', NEW S, Writes(S), Revealed' = Revealed
    PROVE  Ledger!Write
<1>1. Written' \in SUBSET Entries
  BY DEF ServerInv, TypeInv, DataOK, AuditRows, Written
<1>2. Written \subseteq Written'
  BY DEF Writes
<1>3. \A e, f \in Written' : e.req = f.req => e = f
  <2>1. \A x \in Written' : x = Entry(x.req)'
    BY DEF ServerInv, LedgerInv
  <2>2. ASSUME NEW e \in Written', NEW f \in Written', e.req = f.req PROVE e = f
    <3>1. e = Entry(e.req)' /\ f = Entry(f.req)'
      BY <2>1
    <3>2. Entry(e.req)' = Entry(f.req)'
      BY <2>2
    <3> QED BY <3>1, <3>2
  <2> QED BY <2>2
<1> QED BY <1>1, <1>2, <1>3 DEF Ledger!Write, Written, Revealed, Told

LEMMA StepRefines ==
    ASSUME ServerInv, ServerInv', [Next]_vars
    PROVE  [Ledger!Next]_(Ledger!vars)
<1> USE DEF ServerInv
<1>1. CASE Written' = Written /\ Revealed' = Revealed
  BY <1>1 DEF Ledger!vars, Written, Revealed, Told
<1>2. ASSUME NEW S, Writes(S), Revealed' = Revealed PROVE Ledger!Next
  BY <1>2, GrowthIsWrite DEF Ledger!Next
<1>3. ASSUME NEW r \in Reqs, FinishAudit(r) PROVE Ledger!Next
  <2>1. /\ Entry(r) \in Written \ Revealed
        /\ Revealed' = Revealed \cup {Entry(r)} /\ Written' = Written
    BY <1>3, FinishShows
  <2> DEFINE entry == Entry(r)
  <2>2. entry \in Written \ Revealed /\ Revealed' = Revealed \cup {entry} /\ Written' = Written
    BY <2>1
  <2> HIDE DEF entry
  <2>3. \E e \in Written : e \in Written \ Revealed /\ Revealed' = Revealed \cup {e} /\ Written' = Written
    BY <2>2
  <2> QED BY <2>3 DEF Ledger!Next, Ledger!Show, Written, Revealed, Told
<1>4. ASSUME NEW r \in Reqs,
             Call(r) \/ Acquired(r) \/ Fetched(r) \/ Audited(r) \/ Cancel(r)
      PROVE  [Ledger!Next]_(Ledger!vars)
  <2>1. CASE CommitAudit(r)
    BY <1>2, <2>1, CommitWrites
  <2>2. CASE FinishAudit(r)
    BY <1>3, <2>2
  <2>3. CASE Call(r) \/ Acquired(r) \/ Fetched(r) \/ AuditFails(r) \/ Cancel(r)
    BY <1>1, <2>3, QuietCall, QuietAcquired, QuietFetched, QuietEnd DEF Quiet
  <2> QED BY <1>4, <2>1, <2>2, <2>3 DEF Audited
<1>5. CASE Crash
  BY <1>2, <1>5, CrashWrites
<1>6. CASE SigTerm \/ ClosePool \/ Start \/ Tick \/ UNCHANGED vars
  BY <1>1, <1>6, ProcessQuiet DEF Quiet
<1> QED BY <1>4, <1>5, <1>6 DEF Next

(* The server implements the abstract ledger for any number of concurrent  *)
(* calls and any number of crashes: rows reach their caller only after an  *)
(* entry that describes exactly them is in audit_logs.                     *)
THEOREM ServerImplementsLedger == Spec => ImplementsLedger
<1>1. Init => Ledger!Init
  BY DEF Init, Ledger!Init
<1> QED BY <1>1, StepRefines, ServerInvariant, PTL DEF Spec, ImplementsLedger, Ledger!Spec
=============================================================================
