------------------------------ MODULE Tier2Proofs -----------------------------
(***************************************************************************)
(* Theorems about Tier2 and the connection in it, for any column sets, any *)
(* number of rows and any changes of the user's roles.                     *)
(***************************************************************************)
EXTENDS Tier2, TLAPS

-----------------------------------------------------------------------------
(* The token presented and the session it opens. *)

Proven == login \in presented
Earned == Proven /\ columns \subseteq Grants(login)

\* The token has no role that the user did not have in this call.
TokenInv ==
    /\ presented \subseteq heldInCall
    /\ pc = "idle" => presented = {}
    /\ pc # "idle" => held \subseteq heldInCall

-----------------------------------------------------------------------------
(* The connection, read by read. *)

Idx(s) == 1 .. Len(s)

\* Nothing follows a ReadyForQuery but the end of the stream.
ReadyIsLast ==
    \A i, j \in Idx(toClient) :
        toClient[i] = "Z" /\ i < j => toClient[j] \in {"EOF", "CUT"}

\* The first read finds an AuthenticationOk only at once, and drops it.
FirstInv ==
    pc = "first" =>
        /\ ~authed /\ rows = 0 /\ produced = NoResult
        /\ \A i \in Idx(toClient) :
               toClient[i] \notin {"T", "D", "R11"} /\ (toClient[i] = "R0" => i = 1)
        /\ ReadyIsLast
        /\ \/ backend = "startup" /\ toServer = <<"startup">> /\ toClient = <<>>
           \/ backend = "sasl" /\ toServer = <<>> /\ toClient = <<"R10">>
           \/ backend = "ready" /\ toServer = <<>> /\ toClient = <<"R0", "Z">>
           \/ backend = "gone" /\ toServer = <<>>

\* From then on an AuthenticationOk follows a token that was accepted.
AuthInv ==
    pc = "auth" =>
        /\ authed => Proven
        /\ rows = 0 /\ produced = NoResult
        /\ \A i \in Idx(toClient) :
               toClient[i] \notin {"T", "D"} /\ (toClient[i] = "R0" => Proven)
        /\ ReadyIsLast
        /\ \/ backend = "sasl" /\ toServer = <<"token">> /\ toClient = <<>>
           \/ backend = "refusing" /\ toServer = <<>> /\ toClient = <<"R11">>
           \/ backend = "refusing" /\ toServer = <<"dummy">> /\ toClient = <<>>
           \/ backend = "ready" /\ toServer = <<>> /\ toClient \in {<<"R0", "Z">>, <<"Z">>}
           \/ backend = "gone"

\* The ReadyForQuery at position i ends a result that succeeded: before it are
\* the rows that have not been read.
Completes(i) ==
    /\ produced.ok
    /\ \E o \in {0, 1} :
        /\ o < i /\ rows + i = produced.n + o + 1
        /\ \A j \in 1 .. i - 1 : toClient[j] = IF j <= o THEN "T" ELSE "D"

QueryInv ==
    pc = "query" =>
        /\ Proven
        /\ \A i \in Idx(toClient) : toClient[i] = "D" => Earned
        /\ client = "run_select" =>
               \A i \in Idx(toClient) :
                   toClient[i] = "Z" => Completes(i) \/ \E j \in 1 .. i - 1 : toClient[j] = "E"
        /\ \/ /\ backend = "ready" /\ toServer = <<"Q">> /\ toClient = <<>>
              /\ rows = 0 /\ produced = NoResult
           \/ backend = "ready" /\ toServer = <<>>
           \/ backend = "gone"

\* What the call has when it ends.
EndInv ==
    /\ pc # "done" => outcome = "none"
    /\ outcome = "rows" => backend = "gone" \/ (backend = "ready" /\ toServer = <<>>)
    /\ ResultWhole

RowsInv ==
    /\ rows > 0 => Earned
    /\ pc \in {"idle", "exchange", "connect"} => rows = 0

CallInv == TokenInv /\ FirstInv /\ AuthInv /\ QueryInv /\ EndInv /\ RowsInv

-----------------------------------------------------------------------------
(* Sequences of messages *)

LEMMA TailOf ==
    ASSUME NEW S, NEW s \in Seq(S), s # <<>>
    PROVE  /\ Tail(s) \in Seq(S) /\ Len(Tail(s)) = Len(s) - 1
           /\ Head(s) \in S /\ Head(s) = s[1] /\ 1 \in Idx(s) /\ Len(s) \in Nat
           /\ \A i \in Idx(Tail(s)) : i + 1 \in Idx(s) /\ Tail(s)[i] = s[i + 1]
BY DEF Idx

LEMMA CutOf ==
    ASSUME NEW S, NEW s \in Seq(S), NEW k \in 0 .. Len(s), NEW e \in S
    PROVE  LET t == Append(SubSeq(s, 1, k), e) IN
           /\ t \in Seq(S) /\ Len(t) = k + 1 /\ t[k + 1] = e
           /\ \A i \in 1 .. k : i \in Idx(s) /\ t[i] = s[i]
BY DEF Idx

LEMMA RepeatOf ==
    ASSUME NEW S, NEW m \in S, NEW n \in Nat
    PROVE  /\ Repeat(m, n) \in Seq(S) /\ Len(Repeat(m, n)) = n
           /\ \A i \in 1 .. n : Repeat(m, n)[i] = m
BY DEF Repeat

-----------------------------------------------------------------------------
LEMMA ShortStreams ==
    /\ \A m : Head(<<m>>) = m /\ Tail(<<m>>) = <<>> /\ Append(<<>>, m) = <<m>>
    /\ \A m, n : Head(<<m, n>>) = m /\ Tail(<<m, n>>) = <<n>>
    /\ \A m : <<m>> # <<>>
OBVIOUS

LEMMA SeqsOf ==
    ASSUME NEW S
    PROVE  /\ <<>> \in Seq(S)
           /\ \A m \in S : <<m>> \in Seq(S)
           /\ \A s \in Seq(S), m \in S : Append(s, m) \in Seq(S)
           /\ \A s, t \in Seq(S) : s \o t \in Seq(S)
OBVIOUS

-----------------------------------------------------------------------------
(* Types, in parts: what is said of the two streams is kept apart. *)

Requests == {"startup", "token", "dummy", "Q"}

StreamsOK == toServer \in Seq(Requests) /\ toClient \in Seq(Messages)

StateOK ==
    /\ client \in {"run_select", "run"}
    /\ authed \in BOOLEAN /\ rows \in Nat
    /\ outcome \in {"none", "rows", "denied", "raised", "killed"}
    /\ backend \in {"startup", "sasl", "refusing", "ready", "gone"}
    /\ produced \in [ok : BOOLEAN, n : Nat]
    /\ pc \in {"idle", "exchange", "connect", "done"} \cup Reads

CallOK ==
    /\ held \in SUBSET DbRoles /\ session \in SUBSET DbRoles
    /\ presented \in SUBSET DbRoles /\ heldInCall \in SUBSET DbRoles
    /\ login \in Logins
    /\ columns \in ColumnSets \cup {{}}
    /\ changes \in 0 .. MaxChanges

LEMMA TypeParts == TypeOK <=> StreamsOK /\ StateOK /\ CallOK
BY DEF TypeOK, WireTypeOK, Requests, StreamsOK, StateOK, CallOK

LEMMA NoResultType == NoResult \in [ok : BOOLEAN, n : Nat]
BY DEF NoResult

LEMMA RequestMembers == \A m \in {"startup", "token", "dummy", "Q"} : m \in Requests
BY DEF Requests

LEMMA MessageMembers == \A m \in {"R0", "R10", "R11", "E", "T", "D", "Z", "EOF", "CUT"} : m \in Messages
BY DEF Messages

LEMMA ReadsKeepTypes ==
    ASSUME StreamsOK, StateOK, ClientReads
    PROVE  StreamsOK' /\ StateOK'
<1>1. toClient # <<>> BY DEF ClientReads, ReadFirst, ReadAuth, ReadResult
<1>2. toClient' \in Seq(Messages)
    BY <1>1, TailOf DEF ClientReads, ReadFirst, ReadAuth, ReadResult, Consume, StreamsOK
<1>3. toServer' = toServer \/ \E m \in Requests : toServer' = Append(toServer, m)
    BY RequestMembers DEF ClientReads, ReadFirst, ReadAuth, ReadResult, SendToServer
<1>4. StreamsOK' BY <1>2, <1>3, SeqsOf DEF StreamsOK
<1>5. authed' \in BOOLEAN
    <2>1. CASE ReadAuth BY <2>1 DEF ReadAuth
    <2>2. CASE UNCHANGED authed BY <2>2 DEF StateOK
    <2> QED BY <2>1, <2>2 DEF ClientReads, ReadFirst, ReadResult
<1>6. rows' \in Nat
    <2>1. CASE ReadResult BY <2>1 DEF ReadResult, StateOK
    <2>2. CASE UNCHANGED rows BY <2>2 DEF StateOK
    <2> QED BY <2>1, <2>2 DEF ClientReads, ReadFirst, ReadAuth
<1>7. /\ outcome' \in {"none", "rows", "denied", "raised", "killed"}
      /\ pc' \in {"idle", "exchange", "connect", "done"} \cup Reads
    BY DEF ClientReads, ReadFirst, ReadAuth, ReadResult, End, GoOn, StateOK, Reads
<1> QED BY <1>4, <1>5, <1>6, <1>7 DEF ClientReads, ReadFirst, ReadAuth, ReadResult, StateOK

LEMMA ServerKeepsTypes ==
    ASSUME StreamsOK, StateOK, NEW trusted, NEW accepted, NEW permitted,
           Server(trusted, accepted, permitted)
    PROVE  StreamsOK' /\ StateOK'
<1> USE MaxRowsAssumption
<1>1. CASE ServerStartup(trusted) \/ ServerToken(accepted) \/ ServerRefuses
    <2>1. toServer' \in Seq(Requests)
        BY <1>1, TailOf DEF ServerStartup, ServerToken, ServerRefuses, Receives, StreamsOK
    <2>2. /\ <<"R0", "Z">> \in Seq(Messages) /\ <<"R10">> \in Seq(Messages)
          /\ <<"R11">> \in Seq(Messages) /\ <<"E", "EOF">> \in Seq(Messages)
        BY DEF Messages
    <2>3. toClient' \in Seq(Messages)
        BY <1>1, <2>2, SeqsOf DEF ServerStartup, ServerToken, ServerRefuses, Answers, StreamsOK
    <2>4. backend' \in {"startup", "sasl", "refusing", "ready", "gone"}
        BY <1>1 DEF ServerStartup, ServerToken, ServerRefuses
    <2> QED BY <1>1, <2>1, <2>3, <2>4
            DEF ServerStartup, ServerToken, ServerRefuses, Receives, StreamsOK, StateOK
<1>2. CASE ServerQuery(permitted)
    <2>1. toServer' \in Seq(Requests)
        BY <1>2, TailOf DEF ServerQuery, Receives, StreamsOK
    <2>2. PICK n \in 0 .. MaxRows, b \in BOOLEAN,
               start \in {<<"T">>, <<>>}, end \in {<<"Z">>, <<"E", "Z">>} :
              /\ produced' = [ok |-> b, n |-> n]
              /\ toClient' = toClient \o (start \o Repeat("D", n) \o end)
        BY <1>2 DEF ServerQuery, Answers
    <2>3. <<"T">> \in Seq(Messages) /\ <<"Z">> \in Seq(Messages) /\ <<"E", "Z">> \in Seq(Messages)
        BY DEF Messages
    <2>4. Repeat("D", n) \in Seq(Messages) BY RepeatOf, MessageMembers
    <2>5. toClient' \in Seq(Messages)
        BY <2>2, <2>3, <2>4, SeqsOf DEF StreamsOK
    <2>6. produced' \in [ok : BOOLEAN, n : Nat] BY <2>2
    <2> QED BY <1>2, <2>1, <2>5, <2>6 DEF ServerQuery, Receives, StreamsOK, StateOK
<1>3. CASE ServerCloses
    <2>1. PICK k \in 0 .. Len(toClient), end \in {"EOF", "CUT"} :
              toClient' = Append(SubSeq(toClient, 1, k), end)
        BY <1>3 DEF ServerCloses
    <2>2. toClient' \in Seq(Messages) BY <2>1, CutOf, MessageMembers DEF StreamsOK
    <2>3. toServer' \in Seq(Requests) BY <1>3, SeqsOf DEF ServerCloses
    <2> QED BY <1>3, <2>2, <2>3 DEF ServerCloses, StreamsOK, StateOK
<1> QED BY <1>1, <1>2, <1>3 DEF Server

LEMMA WireKeepsTypes ==
    ASSUME StreamsOK, StateOK, CallOK, Wire
    PROVE  StreamsOK' /\ StateOK' /\ CallOK'
<1>1. CallOK' BY DEF Wire, idp, call, CallOK
<1>2. CASE Connect
    <2>1. StreamsOK' BY <1>2, SeqsOf, RequestMembers DEF Connect, StreamsOK
    <2>2. StateOK' BY <1>2, NoResultType DEF Connect, End, GoOn, StateOK, Reads
    <2> QED BY <1>1, <2>1, <2>2
<1>3. CASE Timeout \/ Killed
    BY <1>1, <1>3 DEF Timeout, Killed, End, wire, StreamsOK, StateOK
<1>4. CASE Server(login = TrustedUser, Authorized, columns \subseteq Grants(login))
    BY <1>1, <1>4, ServerKeepsTypes
<1> QED BY <1>1, <1>2, <1>3, <1>4, ReadsKeepTypes DEF Wire

LEMMA BeginKeepsTypes ==
    ASSUME StreamsOK, StateOK, CallOK,
           NEW program \in {"run_select", "run"}, NEW role \in Logins, NEW asked \in ColumnSets,
           NEW next \in {"exchange", "connect"},
           Begin(program, role, asked, next), presented' \in {presented, held}
    PROVE  StreamsOK' /\ StateOK' /\ CallOK'
BY DEF Begin, wire, StreamsOK, StateOK, CallOK

(* Every variable of a call, of the connection and of the identity         *)
(* provider keeps its type. *)
THEOREM TypeCorrect == Spec => []TypeOK
<1> USE ChangesAssumption
<1>1. Init => TypeOK
    <2> SUFFICES ASSUME Init PROVE StreamsOK /\ StateOK /\ CallOK BY TypeParts
    <2>1. StreamsOK BY SeqsOf DEF Init, WireInit, StreamsOK
    <2>2. StateOK BY NoResultType DEF Init, WireInit, StateOK
    <2>3. CallOK BY DEF Init, CallOK, Logins, DbRoles
    <2> QED BY <2>1, <2>2, <2>3
<1>2. TypeOK /\ [Next]_vars => TypeOK'
    <2> SUFFICES ASSUME StreamsOK, StateOK, CallOK, [Next]_vars
                 PROVE  StreamsOK' /\ StateOK' /\ CallOK'
        <3>1. TypeOK' <=> StreamsOK' /\ StateOK' /\ CallOK' BY TypeParts, PTL
        <3> QED BY <3>1, TypeParts
    <2>1. CASE Login \/ ChangeRoles
        BY <2>1 DEF Login, ChangeRoles, call, wire, wireVars, StreamsOK, StateOK, CallOK
    <2>2. CASE Exchange
        BY <2>2 DEF Exchange, End, GoOn, idp, wire, StreamsOK, StateOK, CallOK, Reads
    <2>3. CASE Return
        <3>1. StreamsOK' BY <2>3, SeqsOf DEF Return, StreamsOK
        <3>2. StateOK' BY <2>3, NoResultType DEF Return, StateOK
        <3>3. CallOK' BY <2>3 DEF Return, CallOK
        <3> QED BY <3>1, <3>2, <3>3
    <2>4. ASSUME NEW asked \in ColumnSets, CallTool(asked)
          PROVE  StreamsOK' /\ StateOK' /\ CallOK'
        <3>1. PICK role \in _role_from_claims(session) :
                  Begin("run_select", role, asked, "exchange") /\ UNCHANGED presented
            BY <2>4 DEF CallTool
        <3>2. role \in Logins BY DEF _role_from_claims, Logins, DbRoles
        <3> QED BY <3>1, <3>2, BeginKeepsTypes
    <2>5. ASSUME NEW asked \in ColumnSets, NEW role \in Logins, CallCli(role, asked)
          PROVE  StreamsOK' /\ StateOK' /\ CallOK'
        BY <2>5, BeginKeepsTypes DEF CallCli
    <2>6. CASE UNCHANGED vars
        BY <2>6 DEF vars, call, idp, wire, wireVars, StreamsOK, StateOK, CallOK
    <2> QED BY <2>1, <2>2, <2>3, <2>4, <2>5, <2>6, WireKeepsTypes DEF Next
<1> QED BY <1>1, <1>2, PTL DEF Spec

-----------------------------------------------------------------------------
(* The reads of the client *)

LEMMA FirstReadKeepsInv ==
    ASSUME StreamsOK, StateOK, CallInv, ReadFirst, UNCHANGED <<idp, call>>
    PROVE  CallInv'
<1> USE DEF CallInv
<1>1. TokenInv' /\ RowsInv'
    BY DEF ReadFirst, End, GoOn, idp, call, TokenInv, RowsInv, Proven, Earned
<1>2. EndInv' /\ FirstInv' /\ QueryInv'
    BY DEF ReadFirst, End, GoOn, EndInv, FirstInv, QueryInv, ResultWhole
<1>3. AuthInv'
    <2> SUFFICES ASSUME pc' = "auth" PROVE AuthInv' BY DEF AuthInv
    <2> DEFINE m == Head(toClient)
    <2>1. toClient # <<>> /\ pc = "first" BY DEF ReadFirst
    <2>2. /\ m = toClient[1] /\ 1 \in Idx(toClient) /\ Len(Tail(toClient)) = Len(toClient) - 1
          /\ Len(toClient) \in Nat
          /\ \A i \in Idx(Tail(toClient)) :
                 i + 1 \in Idx(toClient) /\ Tail(toClient)[i] = toClient[i + 1]
        BY <2>1, TailOf DEF StreamsOK
    <2>3. toClient' = IF m \in {"EOF", "CUT"} THEN toClient ELSE Tail(toClient)
        BY DEF ReadFirst, Consume
    <2>4. \A i \in Idx(toClient') :
              toClient'[i] \notin {"T", "D"} /\ toClient'[i] # "R0"
        BY <2>1, <2>2, <2>3 DEF FirstInv, Idx
    <2>5. ReadyIsLast'
        BY <2>1, <2>2, <2>3 DEF FirstInv, ReadyIsLast, Idx
    <2>6. ~authed' /\ rows' = 0 /\ produced' = NoResult
        BY <2>1 DEF ReadFirst, FirstInv
    <2>7. \/ backend' = "sasl" /\ toServer' = <<"token">> /\ toClient' = <<>>
          \/ backend' = "ready" /\ toServer' = <<>> /\ toClient' = <<"Z">>
          \/ backend' = "gone"
        <3>1. CASE backend = "sasl" /\ toServer = <<>> /\ toClient = <<"R10">>
            BY <2>3, <3>1, ShortStreams DEF ReadFirst, SendToServer
        <3>2. CASE backend = "ready" /\ toServer = <<>> /\ toClient = <<"R0", "Z">>
            BY <2>3, <3>2, ShortStreams DEF ReadFirst
        <3>3. CASE backend = "gone" BY <3>3 DEF ReadFirst
        <3> QED BY <2>1, <3>1, <3>2, <3>3 DEF FirstInv
    <2> QED BY <2>4, <2>5, <2>6, <2>7 DEF AuthInv
<1> QED BY <1>1, <1>2, <1>3

LEMMA AuthReadKeepsInv ==
    ASSUME StreamsOK, StateOK, CallInv, ReadAuth, UNCHANGED <<idp, call>>
    PROVE  CallInv'
<1> USE DEF CallInv
<1> DEFINE m == Head(toClient)
<1>1. TokenInv' /\ RowsInv'
    BY DEF ReadAuth, End, GoOn, idp, call, TokenInv, RowsInv, Proven, Earned
<1>2. EndInv' /\ FirstInv'
    BY DEF ReadAuth, End, GoOn, EndInv, FirstInv, ResultWhole
<1>3. toClient # <<>> /\ pc = "auth" BY DEF ReadAuth
<1>4. /\ m = toClient[1] /\ 1 \in Idx(toClient) /\ Len(Tail(toClient)) = Len(toClient) - 1
      /\ Len(toClient) \in Nat
      /\ \A i \in Idx(Tail(toClient)) :
             i + 1 \in Idx(toClient) /\ Tail(toClient)[i] = toClient[i + 1]
    BY <1>3, TailOf DEF StreamsOK
<1>5. toClient' = IF m \in {"EOF", "CUT"} THEN toClient ELSE Tail(toClient)
    BY DEF ReadAuth, Consume
<1>6. /\ \A i \in Idx(toClient') :
             toClient'[i] \notin {"T", "D"} /\ (toClient'[i] = "R0" => Proven)
      /\ ReadyIsLast'
    BY <1>3, <1>4, <1>5 DEF AuthInv, ReadyIsLast, Idx
<1>7. Proven' <=> Proven BY DEF call, Proven
<1>8. rows' = 0 /\ produced' = NoResult /\ backend' = backend
    BY <1>3 DEF ReadAuth, AuthInv
<1>9. authed' => Proven
    BY <1>3, <1>4 DEF ReadAuth, AuthInv
<1>10. AuthInv'
    <2> SUFFICES ASSUME pc' = "auth" PROVE AuthInv' BY DEF AuthInv
    <2>1. \/ m \in {"R0", "R10"} /\ UNCHANGED toServer
          \/ m = "R11" /\ SendToServer("dummy")
        BY <1>3 DEF ReadAuth, End, GoOn
    <2>2. \/ backend' = "refusing" /\ toServer' = <<"dummy">> /\ toClient' = <<>>
          \/ backend' = "ready" /\ toServer' = <<>> /\ toClient' = <<"Z">>
          \/ backend' = "gone"
        <3>1. CASE backend = "refusing" /\ toServer = <<>> /\ toClient = <<"R11">>
            BY <1>5, <1>8, <2>1, <3>1, ShortStreams DEF SendToServer
        <3>2. CASE backend = "ready" /\ toServer = <<>> /\ toClient \in {<<"R0", "Z">>, <<"Z">>}
            <4>1. Head(toClient) = "R0" /\ toServer' = <<>>
                BY <2>1, <3>2, ShortStreams
            <4>2. toClient = <<"R0", "Z">> BY <3>2, <4>1, ShortStreams
            <4>3. toClient' = <<"Z">> BY <1>5, <4>1, <4>2, ShortStreams
            <4> QED BY <1>8, <3>2, <4>1, <4>3
        <3>3. CASE backend = "gone" BY <1>8, <3>3
        <3> QED BY <1>3, <3>1, <3>2, <3>3 DEF AuthInv
    <2> QED BY <1>6, <1>7, <1>8, <1>9, <2>2 DEF AuthInv
<1>11. QueryInv'
    <2> SUFFICES ASSUME pc' = "query" PROVE QueryInv' BY DEF QueryInv
    <2>1. m = "Z" /\ authed /\ SendToServer("Q")
        BY <1>3 DEF ReadAuth, End, GoOn, MayQuery
    <2>2. Proven BY <1>3, <2>1 DEF AuthInv
    <2>3. \A i \in Idx(toClient') : toClient'[i] \in {"EOF", "CUT"}
        BY <1>3, <1>4, <1>5, <2>1 DEF AuthInv, ReadyIsLast, Idx
    <2>4. \/ backend' = "ready" /\ toServer' = <<"Q">> /\ toClient' = <<>>
          \/ backend' = "gone"
        <3>1. CASE backend = "refusing" /\ toServer = <<>> /\ toClient = <<"R11">>
            BY <2>1, <3>1, ShortStreams
        <3>2. CASE backend = "ready" /\ toServer = <<>> /\ toClient \in {<<"R0", "Z">>, <<"Z">>}
            <4>1. Head(toClient) = "Z" /\ toServer' = <<"Q">>
                BY <2>1, <3>2, ShortStreams DEF SendToServer
            <4>2. toClient = <<"Z">> BY <3>2, <4>1, ShortStreams
            <4>3. toClient' = <<>> BY <1>5, <4>1, <4>2, ShortStreams
            <4> QED BY <1>8, <3>2, <4>1, <4>3
        <3>3. CASE backend = "gone" BY <1>8, <3>3
        <3> QED BY <1>3, <3>1, <3>2, <3>3 DEF AuthInv
    <2> QED BY <1>7, <1>8, <2>2, <2>3, <2>4 DEF QueryInv
<1> QED BY <1>1, <1>2, <1>10, <1>11

LEMMA ResultReadKeepsInv ==
    ASSUME StreamsOK, StateOK, CallInv, ReadResult, UNCHANGED <<idp, call>>
    PROVE  CallInv'
<1> USE DEF CallInv
<1> DEFINE m == Head(toClient)
<1>1. toClient # <<>> /\ pc = "query" BY DEF ReadResult
<1>2. /\ m = toClient[1] /\ 1 \in Idx(toClient) /\ Len(Tail(toClient)) = Len(toClient) - 1
      /\ Len(toClient) \in Nat
      /\ \A i \in Idx(Tail(toClient)) :
             i + 1 \in Idx(toClient) /\ Tail(toClient)[i] = toClient[i + 1]
    BY <1>1, TailOf DEF StreamsOK
<1>3. toClient' = IF m \in {"EOF", "CUT"} THEN toClient ELSE Tail(toClient)
    BY DEF ReadResult, Consume
<1>4. (Proven' <=> Proven) /\ (Earned' <=> Earned) BY DEF call, Proven, Earned
<1>5. rows' \in Nat /\ rows' = (IF m = "D" THEN rows + 1 ELSE rows) /\ rows \in Nat
    BY DEF ReadResult, StateOK
<1>6. TokenInv' BY <1>1 DEF ReadResult, End, GoOn, idp, call, TokenInv
<1>7. RowsInv'
    BY <1>1, <1>2, <1>4, <1>5 DEF ReadResult, End, GoOn, RowsInv, QueryInv
<1>8. FirstInv' /\ AuthInv' BY <1>1 DEF ReadResult, End, GoOn, FirstInv, AuthInv
<1>9. backend' = backend /\ toServer' = toServer /\ produced' = produced /\ client' = client
    BY DEF ReadResult
<1>10. backend = "gone" \/ (backend = "ready" /\ toServer = <<>>)
    BY <1>1 DEF QueryInv
<1>11. EndInv'
    <2>1. ASSUME outcome' = "rows", client = "run_select"
          PROVE  produced = [ok |-> TRUE, n |-> rows']
        <3>1. m = "Z"
            BY <1>1, <2>1 DEF ReadResult, End, GoOn, EndsResult, EndInv
        <3>2. Completes(1) BY <1>1, <1>2, <2>1, <3>1 DEF QueryInv
        <3>3. produced.ok /\ rows + 1 = produced.n + 0 + 1
            BY <3>2 DEF Completes
        <3>4. produced \in [ok : BOOLEAN, n : Nat] BY DEF StateOK
        <3> QED BY <1>5, <3>1, <3>3, <3>4
    <2>2. pc' # "done" => outcome' = "none"
        BY <1>1 DEF ReadResult, End, GoOn, EndInv
    <2> QED BY <1>9, <1>10, <2>1, <2>2 DEF EndInv, ResultWhole
<1>12. QueryInv'
    <2> SUFFICES ASSUME pc' = "query" PROVE QueryInv' BY DEF QueryInv
    <2>1. m \in {"T", "D"} \/ (m = "E" /\ client = "run")
        BY DEF ReadResult, End
    <2>2. \A i \in Idx(toClient') : i + 1 \in Idx(toClient) /\ toClient'[i] = toClient[i + 1]
        BY <1>2, <1>3, <2>1
    <2>3. \A i \in Idx(toClient') : toClient'[i] = "D" => Earned
        BY <1>1, <2>2 DEF QueryInv
    <2>4. ASSUME client = "run_select", NEW i \in Idx(toClient'), toClient'[i] = "Z"
          PROVE  Completes(i)' \/ \E j \in 1 .. i - 1 : toClient'[j] = "E"
        <3>1. toClient[i + 1] = "Z" /\ i + 1 \in Idx(toClient) BY <2>2, <2>4
        <3>2. CASE Completes(i + 1)
            <4>1. PICK o \in {0, 1} :
                      /\ o < i + 1 /\ rows + (i + 1) = produced.n + o + 1
                      /\ \A j \in 1 .. i : toClient[j] = IF j <= o THEN "T" ELSE "D"
                BY <3>2 DEF Completes, Idx
            <4>2. m = IF o = 1 THEN "T" ELSE "D"
                BY <1>2, <4>1 DEF Idx
            <4>3. \A j \in 1 .. i - 1 : toClient'[j] = "D"
                BY <2>2, <4>1 DEF Idx
            <4>4. rows' + i = produced.n + 0 + 1
                BY <1>5, <4>1, <4>2 DEF StateOK, Idx
            <4>5. produced.ok BY <3>2 DEF Completes
            <4> QED BY <1>9, <4>3, <4>4, <4>5 DEF Completes, Idx
        <3>3. CASE \E j \in 1 .. i : toClient[j] = "E"
            <4>1. PICK j \in 1 .. i : toClient[j] = "E" BY <3>3
            <4>2. j # 1 BY <1>2, <2>1, <2>4, <4>1
            <4>3. j - 1 \in 1 .. i - 1 /\ toClient'[j - 1] = "E"
                BY <2>2, <4>1, <4>2 DEF Idx
            <4> QED BY <4>3
        <3> QED BY <1>1, <2>4, <3>1, <3>2, <3>3 DEF QueryInv, Idx
    <2>5. Proven BY <1>1 DEF QueryInv
    <2> QED BY <1>4, <1>9, <1>10, <2>3, <2>4, <2>5 DEF QueryInv
<1> QED BY <1>6, <1>7, <1>8, <1>11, <1>12

-----------------------------------------------------------------------------
(* The server *)

\* What neither the server nor a break does to the client.
ClientStays == UNCHANGED <<client, pc, authed, rows, outcome, idp, call>>

LEMMA StayKeepsToken ==
    ASSUME TokenInv, RowsInv, ClientStays
    PROVE  TokenInv' /\ RowsInv' /\ (Proven' <=> Proven) /\ (Earned' <=> Earned)
BY DEF ClientStays, TokenInv, RowsInv, Proven, Earned, idp, call

LEMMA StartupKeepsInv ==
    ASSUME StreamsOK, StateOK, CallInv, NEW trusted, ServerStartup(trusted), UNCHANGED <<idp, call>>
    PROVE  CallInv'
<1> USE DEF CallInv
<1>1. ClientStays BY DEF ServerStartup, Receives, ClientStays
<1>2. TokenInv' /\ RowsInv' BY <1>1, StayKeepsToken
<1>3. backend = "startup" /\ produced' = produced BY DEF ServerStartup
<1>4. EndInv' /\ AuthInv' /\ QueryInv'
    BY <1>1, <1>3 DEF ClientStays, EndInv, AuthInv, QueryInv, ResultWhole
<1>5. FirstInv'
    <2> SUFFICES ASSUME pc = "first" PROVE FirstInv' BY <1>1 DEF ClientStays, FirstInv
    <2>1. toServer = <<"startup">> /\ toClient = <<>> BY <1>3 DEF FirstInv
    <2>2. toServer' = <<>> BY <2>1, ShortStreams DEF ServerStartup, Receives
    <2>3. \/ backend' = "ready" /\ toClient' = <<"R0", "Z">>
          \/ backend' = "sasl" /\ toClient' = <<"R10">>
          \/ backend' = "gone" /\ toClient' = <<"E", "EOF">>
        BY <2>1 DEF ServerStartup, Answers
    <2>4. /\ \A i \in Idx(toClient') :
                 toClient'[i] \notin {"T", "D", "R11"} /\ (toClient'[i] = "R0" => i = 1)
          /\ ReadyIsLast'
        BY <2>3 DEF ReadyIsLast, Idx
    <2> QED BY <1>1, <1>3, <2>2, <2>3, <2>4 DEF ClientStays, FirstInv
<1> QED BY <1>2, <1>4, <1>5

LEMMA TokenKeepsInv ==
    ASSUME StreamsOK, StateOK, CallInv, ServerToken(Authorized), UNCHANGED <<idp, call>>
    PROVE  CallInv'
<1> USE DEF CallInv
<1>1. ClientStays BY DEF ServerToken, Receives, ClientStays
<1>2. TokenInv' /\ RowsInv' /\ (Proven' <=> Proven) BY <1>1, StayKeepsToken
<1>3. /\ backend = "sasl" /\ produced' = produced
      /\ toServer # <<>> /\ Head(toServer) = "token" /\ toServer' = Tail(toServer)
    BY DEF ServerToken, Receives
<1>4. EndInv' /\ FirstInv' /\ QueryInv'
    BY <1>1, <1>3, ShortStreams DEF ClientStays, EndInv, FirstInv, QueryInv, ResultWhole
<1>5. AuthInv'
    <2> SUFFICES ASSUME pc = "auth" PROVE AuthInv' BY <1>1 DEF ClientStays, AuthInv
    <2>1. toServer = <<"token">> /\ toClient = <<>> BY <1>3 DEF AuthInv
    <2>2. toServer' = <<>> BY <1>3, <2>1, ShortStreams
    <2>3. \/ Proven /\ backend' = "ready" /\ toClient' = <<"R0", "Z">>
          \/ backend' = "refusing" /\ toClient' = <<"R11">>
        BY <2>1 DEF ServerToken, Answers, Authorized, Proven
    <2>4. /\ \A i \in Idx(toClient') :
                 toClient'[i] \notin {"T", "D"} /\ (toClient'[i] = "R0" => Proven)
          /\ ReadyIsLast'
        BY <2>3 DEF ReadyIsLast, Idx
    <2> QED BY <1>1, <1>2, <1>3, <2>2, <2>3, <2>4 DEF ClientStays, AuthInv
<1> QED BY <1>2, <1>4, <1>5

LEMMA RefusalKeepsInv ==
    ASSUME StreamsOK, StateOK, CallInv, ServerRefuses, UNCHANGED <<idp, call>>
    PROVE  CallInv'
<1> USE DEF CallInv
<1>1. ClientStays BY DEF ServerRefuses, Receives, ClientStays
<1>2. TokenInv' /\ RowsInv' /\ (Proven' <=> Proven) BY <1>1, StayKeepsToken
<1>3. /\ backend = "refusing" /\ backend' = "gone" /\ produced' = produced
      /\ toServer # <<>> /\ toClient' = toClient \o <<"E", "EOF">>
    BY DEF ServerRefuses, Receives, Answers
<1>4. EndInv' /\ FirstInv' /\ QueryInv'
    BY <1>1, <1>3 DEF ClientStays, EndInv, FirstInv, QueryInv, ResultWhole
<1>5. AuthInv'
    <2> SUFFICES ASSUME pc = "auth" PROVE AuthInv' BY <1>1 DEF ClientStays, AuthInv
    <2>1. toClient = <<>> BY <1>3 DEF AuthInv
    <2>2. toClient' = <<"E", "EOF">> BY <1>3, <2>1
    <2>3. /\ \A i \in Idx(toClient') : toClient'[i] \notin {"T", "D", "R0"}
          /\ ReadyIsLast'
        BY <2>2 DEF ReadyIsLast, Idx
    <2> QED BY <1>1, <1>2, <1>3, <2>3 DEF ClientStays, AuthInv
<1> QED BY <1>2, <1>4, <1>5

\* The positions of a result that succeeded, and of one that failed.
LEMMA WholeResult ==
    ASSUME NEW n \in Nat, NEW t, t = <<>> \o (<<"T">> \o Repeat("D", n) \o <<"Z">>)
    PROVE  /\ Len(t) = n + 2 /\ t[1] = "T" /\ t[n + 2] = "Z"
           /\ \A i \in 2 .. n + 1 : t[i] = "D"
<1>1. /\ Repeat("D", n) \in Seq({"T", "D", "Z"}) /\ Len(Repeat("D", n)) = n
      /\ \A i \in 1 .. n : Repeat("D", n)[i] = "D"
    BY RepeatOf
<1> HIDE DEF Repeat
<1> QED BY <1>1

LEMMA FailedResult ==
    ASSUME NEW n \in Nat, NEW start \in {<<"T">>, <<>>},
           NEW t, t = <<>> \o (start \o Repeat("D", n) \o <<"E", "Z">>)
    PROVE  \A i \in Idx(t) :
               /\ t[i] = "D" => n > 0
               /\ t[i] = "Z" => \E j \in 1 .. i - 1 : t[j] = "E"
<1>1. /\ Repeat("D", n) \in Seq({"T", "D", "E", "Z"}) /\ Len(Repeat("D", n)) = n
      /\ \A i \in 1 .. n : Repeat("D", n)[i] = "D"
    BY RepeatOf
<1>2. CASE start = <<"T">>
    <2>1. /\ Len(t) = n + 3 /\ t[1] = "T" /\ t[n + 2] = "E" /\ t[n + 3] = "Z"
          /\ \A i \in 2 .. n + 1 : t[i] = "D"
        BY <1>1, <1>2
    <2> QED BY <2>1 DEF Idx
<1>3. CASE start = <<>>
    <2>1. /\ Len(t) = n + 2 /\ t[n + 1] = "E" /\ t[n + 2] = "Z"
          /\ \A i \in 1 .. n : t[i] = "D"
        BY <1>1, <1>3
    <2> QED BY <2>1 DEF Idx
<1> QED BY <1>2, <1>3

LEMMA AnswerKeepsInv ==
    ASSUME StreamsOK, StateOK, CallInv, UNCHANGED <<idp, call>>,
           ServerQuery(columns \subseteq Grants(login))
    PROVE  CallInv'
<1> USE MaxRowsAssumption DEF CallInv
<1>1. ClientStays BY DEF ServerQuery, Receives, ClientStays
<1>2. TokenInv' /\ RowsInv' /\ (Proven' <=> Proven) /\ (Earned' <=> Earned)
    BY <1>1, StayKeepsToken
<1>3. /\ backend = "ready" /\ backend' = "ready"
      /\ toServer # <<>> /\ Head(toServer) = "Q" /\ toServer' = Tail(toServer)
    BY DEF ServerQuery, Receives
<1>4. EndInv' /\ FirstInv' /\ AuthInv'
    BY <1>1, <1>3 DEF ClientStays, EndInv, FirstInv, AuthInv, ResultWhole
<1>5. QueryInv'
    <2> SUFFICES ASSUME pc = "query" PROVE QueryInv' BY <1>1 DEF ClientStays, QueryInv
    <2>1. Proven /\ toServer = <<"Q">> /\ toClient = <<>> /\ rows = 0
        BY <1>3 DEF QueryInv
    <2>2. toServer' = <<>> BY <1>3, <2>1, ShortStreams
    <2>3. /\ \A i \in Idx(toClient') : toClient'[i] = "D" => Earned
          /\ \A i \in Idx(toClient') :
                 toClient'[i] = "Z" => Completes(i)' \/ \E j \in 1 .. i - 1 : toClient'[j] = "E"
        <3>1. PICK n \in 0 .. MaxRows :
                  \/ /\ columns \subseteq Grants(login)
                     /\ produced' = [ok |-> TRUE, n |-> n]
                     /\ toClient' = <<>> \o (<<"T">> \o Repeat("D", n) \o <<"Z">>)
                  \/ /\ columns \subseteq Grants(login) \/ n = 0
                     /\ \E start \in {<<"T">>, <<>>} :
                            toClient' = <<>> \o (start \o Repeat("D", n) \o <<"E", "Z">>)
            BY <2>1 DEF ServerQuery, Answers
        <3>2. n \in Nat OBVIOUS
        <3>3. CASE /\ columns \subseteq Grants(login)
                   /\ produced' = [ok |-> TRUE, n |-> n]
                   /\ toClient' = <<>> \o (<<"T">> \o Repeat("D", n) \o <<"Z">>)
            <4>1. /\ Len(toClient') = n + 2 /\ toClient'[1] = "T" /\ toClient'[n + 2] = "Z"
                  /\ \A i \in 2 .. n + 1 : toClient'[i] = "D"
                BY <3>2, <3>3, WholeResult
            <4>2. \A i \in Idx(toClient') : toClient'[i] = "Z" => i = n + 2
                BY <3>2, <4>1 DEF Idx
            <4>3. Completes(n + 2)'
                <5>1. \A j \in 1 .. n + 1 : toClient'[j] = IF j <= 1 THEN "T" ELSE "D"
                    BY <3>2, <4>1
                <5>2. rows' = 0 /\ produced'.ok /\ produced'.n = n
                    BY <1>1, <2>1, <3>3 DEF ClientStays
                <5>3. 1 < n + 2 /\ rows' + (n + 2) = produced'.n + 1 + 1
                    BY <3>2, <5>2
                <5> QED BY <3>2, <5>1, <5>2, <5>3 DEF Completes
            <4>4. Earned BY <2>1, <3>3 DEF Earned
            <4> QED BY <4>2, <4>3, <4>4
        <3>4. CASE /\ columns \subseteq Grants(login) \/ n = 0
                   /\ \E start \in {<<"T">>, <<>>} :
                          toClient' = <<>> \o (start \o Repeat("D", n) \o <<"E", "Z">>)
            <4>1. \A i \in Idx(toClient') :
                      /\ toClient'[i] = "D" => n > 0
                      /\ toClient'[i] = "Z" => \E j \in 1 .. i - 1 : toClient'[j] = "E"
                BY <3>2, <3>4, FailedResult
            <4>2. n > 0 => Earned BY <2>1, <3>4 DEF Earned
            <4> QED BY <4>1, <4>2
        <3> QED BY <3>1, <3>3, <3>4
    <2> QED BY <1>1, <1>2, <1>3, <2>1, <2>2, <2>3 DEF ClientStays, QueryInv
<1> QED BY <1>2, <1>4, <1>5

LEMMA CloseKeepsInv ==
    ASSUME StreamsOK, StateOK, CallInv, ServerCloses, UNCHANGED <<idp, call>>
    PROVE  CallInv'
<1> USE DEF CallInv
<1>1. ClientStays /\ backend' = "gone" /\ toServer' = <<>> /\ produced' = produced
    BY DEF ServerCloses, ClientStays
<1>2. TokenInv' /\ RowsInv' /\ (Proven' <=> Proven) /\ (Earned' <=> Earned)
    BY <1>1, StayKeepsToken
<1>3. EndInv' BY <1>1 DEF ClientStays, EndInv, ResultWhole
<1>4. PICK k \in 0 .. Len(toClient), end \in {"EOF", "CUT"} :
          toClient' = Append(SubSeq(toClient, 1, k), end)
    BY DEF ServerCloses
<1>5. /\ Len(toClient') = k + 1 /\ toClient'[k + 1] \in {"EOF", "CUT"}
      /\ \A i \in 1 .. k : i \in Idx(toClient) /\ toClient'[i] = toClient[i]
    BY <1>4, CutOf, MessageMembers DEF StreamsOK
<1>6. k \in Nat BY <1>4 DEF StreamsOK
<1>7. ReadyIsLast => ReadyIsLast'
    BY <1>5, <1>6 DEF ReadyIsLast, Idx
<1>8. FirstInv'
    BY <1>1, <1>5, <1>6, <1>7 DEF ClientStays, FirstInv, Idx
<1>9. AuthInv'
    BY <1>1, <1>2, <1>5, <1>6, <1>7 DEF ClientStays, AuthInv, Idx
<1>10. QueryInv'
    <2> SUFFICES ASSUME pc = "query" PROVE QueryInv' BY <1>1 DEF ClientStays, QueryInv
    <2>1. ASSUME client = "run_select", NEW i \in Idx(toClient'), toClient'[i] = "Z"
          PROVE  Completes(i)' \/ \E j \in 1 .. i - 1 : toClient'[j] = "E"
        <3>1. i \in 1 .. k /\ toClient[i] = "Z" /\ i \in Idx(toClient)
            BY <1>5, <1>6, <2>1 DEF Idx
        <3>2. \A j \in 1 .. i - 1 : toClient'[j] = toClient[j]
            BY <1>5, <1>6, <3>1
        <3>3. CASE Completes(i)
            BY <1>1, <3>2, <3>3 DEF Completes, ClientStays
        <3> QED BY <2>1, <3>1, <3>2, <3>3 DEF QueryInv
    <2>2. \A i \in Idx(toClient') : toClient'[i] = "D" => Earned
        BY <1>5, <1>6 DEF QueryInv, Idx
    <2> QED BY <1>1, <1>2, <2>1, <2>2 DEF ClientStays, QueryInv
<1> QED BY <1>2, <1>3, <1>8, <1>9, <1>10

-----------------------------------------------------------------------------
(* All steps *)

LEMMA WireKeepsInv ==
    ASSUME StreamsOK, StateOK, CallInv, Wire
    PROVE  CallInv'
<1>1. UNCHANGED <<idp, call>> BY DEF Wire
<1>2. CASE Connect
    <2>1. /\ authed' = FALSE /\ rows' = 0 /\ produced' = NoResult
          /\ toClient' = <<>> /\ backend' = "startup"
          /\ \/ pc' = "first" /\ toServer' = <<"startup">> /\ outcome' = outcome
             \/ pc' = "done" /\ outcome' = "raised"
        BY <1>2 DEF Connect, GoOn, End
    <2>2. pc = "connect" /\ client' = client BY <1>2 DEF Connect
    <2>3. TokenInv' /\ RowsInv'
        BY <1>1, <2>1, <2>2 DEF CallInv, TokenInv, RowsInv, idp, call
    <2>4. FirstInv' BY <2>1 DEF FirstInv, ReadyIsLast, Idx
    <2>5. AuthInv' /\ QueryInv' BY <2>1 DEF AuthInv, QueryInv
    <2>6. EndInv' BY <2>1, <2>2 DEF CallInv, EndInv, ResultWhole
    <2> QED BY <2>3, <2>4, <2>5, <2>6 DEF CallInv
<1>3. CASE Timeout \/ Killed
    BY <1>1, <1>3 DEF Timeout, Killed, End, wire, idp, call, Reads, Proven, Earned, CallInv, TokenInv,
                      RowsInv, FirstInv, AuthInv, QueryInv, EndInv, ResultWhole
<1>4. CASE Server(login = TrustedUser, Authorized, columns \subseteq Grants(login))
    BY <1>1, <1>4, StartupKeepsInv, TokenKeepsInv, RefusalKeepsInv, AnswerKeepsInv, CloseKeepsInv
       DEF Server
<1> QED BY <1>1, <1>2, <1>3, <1>4, FirstReadKeepsInv, AuthReadKeepsInv, ResultReadKeepsInv
        DEF Wire, ClientReads

LEMMA OtherStepsKeepInv ==
    ASSUME StateOK, CallInv, Login \/ ChangeRoles \/ Exchange \/ Return
    PROVE  CallInv'
<1> USE DEF CallInv
<1>1. CASE Login \/ ChangeRoles
    <2>1. UNCHANGED <<wireVars, call>> /\ TokenInv'
        BY <1>1 DEF Login, ChangeRoles, TokenInv, call, wireVars
    <2> QED BY <2>1 DEF wireVars, wire, call, FirstInv, AuthInv, QueryInv, EndInv, ResultWhole, RowsInv,
                        ReadyIsLast, Completes, Proven, Earned
<1>2. CASE Exchange
    <2>1. pc' \in {"connect", "done"} /\ TokenInv'
        BY <1>2 DEF Exchange, GoOn, End, TokenInv, idp
    <2>2. FirstInv' /\ AuthInv' /\ QueryInv' BY <2>1 DEF FirstInv, AuthInv, QueryInv
    <2>3. EndInv' /\ RowsInv'
        BY <1>2 DEF Exchange, GoOn, End, wire, EndInv, RowsInv, ResultWhole, StateOK
    <2> QED BY <2>1, <2>2, <2>3
<1>3. CASE Return
    BY <1>3 DEF Return, TokenInv, FirstInv, AuthInv, QueryInv, EndInv, ResultWhole, RowsInv
<1> QED BY <1>1, <1>2, <1>3

LEMMA BeginKeepsInv ==
    ASSUME StateOK, CallInv, NEW program, NEW role, NEW asked,
           NEW next \in {"exchange", "connect"},
           Begin(program, role, asked, next), presented' \in {presented, held}
    PROVE  CallInv'
<1> USE DEF CallInv, Begin
<1>1. TokenInv' BY DEF TokenInv
<1>2. FirstInv' /\ AuthInv' /\ QueryInv' BY DEF FirstInv, AuthInv, QueryInv
<1>3. EndInv' /\ RowsInv' BY DEF EndInv, ResultWhole, RowsInv, StateOK
<1> QED BY <1>1, <1>2, <1>3

LEMMA CallInvHolds == Spec => []CallInv
<1>1. Init => CallInv
    BY DEF Init, WireInit, CallInv, TokenInv, FirstInv, AuthInv, QueryInv, EndInv, ResultWhole, RowsInv
<1>2. TypeOK /\ CallInv /\ [Next]_vars => CallInv'
    <2> SUFFICES ASSUME StreamsOK, StateOK, CallOK, CallInv, [Next]_vars PROVE CallInv'
        BY TypeParts
    <2>1. ASSUME NEW asked \in ColumnSets, CallTool(asked) PROVE CallInv'
        BY <2>1, BeginKeepsInv DEF CallTool
    <2>2. ASSUME NEW asked \in ColumnSets, NEW role \in Logins, CallCli(role, asked) PROVE CallInv'
        BY <2>2, BeginKeepsInv DEF CallCli
    <2>3. CASE UNCHANGED vars
        BY <2>3 DEF vars, wireVars, wire, idp, call, CallInv, TokenInv, FirstInv, AuthInv, QueryInv,
                    EndInv, ResultWhole, RowsInv, ReadyIsLast, Completes, Proven, Earned
    <2> QED BY <2>1, <2>2, <2>3, OtherStepsKeepInv, WireKeepsInv DEF Next
<1> QED BY <1>1, <1>2, TypeCorrect, PTL DEF Spec

(* Whatever the server and the network do, what run_select returns is the  *)
(* whole result of a query that succeeded (pgwire.py's loop over the       *)
(* result), for any number of rows.                                        *)
THEOREM ResultWholeHolds == Spec => []ResultWhole
<1>1. CallInv => ResultWhole BY DEF CallInv, EndInv
<1> QED BY <1>1, CallInvHolds, PTL

(* Rows need a role that the user held in that very call: for any changes  *)
(* of the roles and any column sets (the exchange of server.py, and the    *)
(* check of the token's roles when Postgres authenticates).                *)
THEOREM RowsNeedHeldRoleHolds == Spec => []RowsNeedHeldRole
<1>1. CallInv => RowsNeedHeldRole
    BY DEF CallInv, RowsInv, TokenInv, Earned, Proven, RowsNeedHeldRole
<1> QED BY <1>1, CallInvHolds, PTL
===============================================================================
