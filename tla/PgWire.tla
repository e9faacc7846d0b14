-------------------------------- MODULE PgWire --------------------------------
(***************************************************************************)
(* One connection to Postgres 18 with a bearer token (SASL OAUTHBEARER):   *)
(* run_select of experiments/pg18-oauth/mcp_tier2/pgwire.py, and run of    *)
(* pg_oauth_client.py, the same loop as a command-line program.            *)
(*                                                                         *)
(* The program counter names the read the client blocks in:                *)
(*   first  the answer to the startup message                              *)
(*   auth   the loop up to ReadyForQuery                                   *)
(*   query  the loop over the result                                       *)
(* A message is its type, R with its code (R0 ok, R10 SASL, R11 continue). *)
(* Those that both loops skip (ParameterStatus, CommandComplete, ...) are  *)
(* left out, and the query is one SELECT, as the module's header says.     *)
(* After its messages a stream may end: "EOF" is a close between messages, *)
(* which recv reports again and again; "CUT" is one inside a message, or   *)
(* a reset, which raises.                                                  *)
(***************************************************************************)
EXTENDS Naturals, Sequences

CONSTANT MaxRows    \* bound on the rows of a result

ASSUME MaxRowsAssumption == MaxRows \in Nat

VARIABLES
  client,           \* the program: "run_select" or "run"
  pc,               \* "idle", "connect", a read (above) or "done"
  authed, rows,     \* the client's local variables; rows as their number
  outcome,          \* how the call ended: "none" while it has not
  toServer,         \* messages on their way to the server
  toClient,         \* messages on their way to the client
  backend,          \* what the server's process waits for
  produced          \* what the query came to at the server: [ok, n]

wire == <<toServer, toClient, backend, produced>>
wireVars == <<client, pc, authed, rows, outcome, wire>>

Reads == {"first", "auth", "query"}
NoResult == [ok |-> FALSE, n |-> 0]
Repeat(m, n) == [i \in 1 .. n |-> m]

-----------------------------------------------------------------------------
(* The client *)

End(how) == pc' = "done" /\ outcome' = how
GoOn(read) == pc' = read /\ UNCHANGED outcome
SendToServer(m) == toServer' = Append(toServer, m)

\* The end of a stream is never read away.
Consume == toClient' = IF Head(toClient) \in {"EOF", "CUT"} THEN toClient ELSE Tail(toClient)

\* create_connection and the startup message.
Connect ==
    /\ pc = "connect"
    /\ authed' = FALSE /\ rows' = 0
    /\ toClient' = <<>> /\ backend' = "startup" /\ produced' = NoResult
    /\ \/ GoOn("first") /\ toServer' = <<"startup">>
       \/ End("raised") /\ toServer' = <<>>
    /\ UNCHANGED client

\* Only R10 is acted upon.  Whatever else comes first is dropped, an error
\* and the end of the stream included: the loop below takes it from there.
ReadFirst ==
    /\ pc = "first" /\ toClient # <<>>
    /\ Consume
    /\ IF Head(toClient) = "CUT" THEN End("raised") ELSE GoOn("auth")
    /\ IF Head(toClient) = "R10" THEN SendToServer("token") ELSE UNCHANGED toServer
    /\ UNCHANGED <<client, authed, rows, backend, produced>>

\* Faulty variant: the loop does not test for the end of the stream.
BugAuthIgnoresEof(m) == m = "E"

\* An error, or the end of the stream before authentication.
Denies(m) == m \in {"E", "EOF"}

\* Faulty variant: the session is used whether or not it is authenticated.
BugUnauthedSession == TRUE

\* AuthenticationOk has been seen in the loop.
MayQuery == authed

\* The loop up to ReadyForQuery.
ReadAuth ==
    /\ pc = "auth" /\ toClient # <<>>
    /\ Consume
    /\ LET m == Head(toClient) IN
       /\ authed' = (authed \/ m = "R0")
       /\ \/ m \in {"R0", "R10"} /\ GoOn("auth") /\ UNCHANGED toServer
          \/ m = "R11" /\ GoOn("auth") /\ SendToServer("dummy")
          \/ Denies(m) /\ End("denied") /\ UNCHANGED toServer
          \/ m = "CUT" /\ End("raised") /\ UNCHANGED toServer
          \/ m = "Z" /\ MayQuery /\ GoOn("query") /\ SendToServer("Q")
          \/ m = "Z" /\ ~MayQuery /\ End("denied") /\ UNCHANGED toServer
    /\ UNCHANGED <<client, rows, backend, produced>>

\* Faulty variant: the end of the stream is taken for the end of the result.
BugEofEndsResult(m) == m \in {"Z", "EOF"}

EndsResult(m) == m = "Z"

\* The loop over the result.  At "EOF" no branch is taken: the code reads the
\* same nothing again, without a pause, for ever.  After an error run_select
\* raises PgDenied; run prints it and reads on.
ReadResult ==
    /\ pc = "query" /\ toClient # <<>>
    /\ Consume
    /\ LET m == Head(toClient) IN
       /\ rows' = IF m = "D" THEN rows + 1 ELSE rows
       /\ \/ m \in {"T", "D"} /\ GoOn("query")
          \/ EndsResult(m) /\ End("rows")
          \/ m = "E" /\ client = "run_select" /\ End("denied")
          \/ m = "E" /\ client = "run" /\ GoOn("query")
          \/ m = "CUT" /\ End("raised")
    /\ UNCHANGED <<client, authed, toServer, backend, produced>>

\* recv's timeout of 15 s: run sets none.
Timeout ==
    /\ pc \in Reads /\ toClient = <<>>
    /\ client = "run_select"
    /\ End("raised")
    /\ UNCHANGED <<client, authed, rows, wire>>

\* The process is killed or interrupted.
Killed ==
    /\ pc \in Reads
    /\ End("killed")
    /\ UNCHANGED <<client, authed, rows, wire>>

-----------------------------------------------------------------------------
(* The server *)

Answers(messages) == toClient' = toClient \o messages

\* Takes the client's next message, which must be m.
Receives(m) ==
    /\ toServer # <<>> /\ Head(toServer) = m
    /\ toServer' = Tail(toServer)
    /\ UNCHANGED <<client, pc, authed, rows, outcome>>

\* pg_hba.conf lets one user in without a token (trust); a startup may be
\* refused outright.
ServerStartup(trusted) ==
    /\ backend = "startup" /\ Receives("startup")
    /\ \/ trusted /\ backend' = "ready" /\ Answers(<<"R0", "Z">>)
       \/ ~trusted /\ backend' = "sasl" /\ Answers(<<"R10">>)
       \/ backend' = "gone" /\ Answers(<<"E", "EOF">>)
    /\ UNCHANGED produced

\* A refused token is answered with a continue, and after the client's dummy
\* with the error.
ServerToken(accepted) ==
    /\ backend = "sasl" /\ Receives("token")
    /\ \/ accepted /\ backend' = "ready" /\ Answers(<<"R0", "Z">>)
       \/ backend' = "refusing" /\ Answers(<<"R11">>)
    /\ UNCHANGED produced

ServerRefuses ==
    /\ backend = "refusing" /\ Receives("dummy")
    /\ backend' = "gone" /\ Answers(<<"E", "EOF">>)
    /\ UNCHANGED produced

\* The whole result, or an error before or after some rows of it.
ServerQuery(permitted) ==
    /\ backend = "ready" /\ Receives("Q")
    /\ \E n \in 0 .. MaxRows :
        \/ /\ permitted
           /\ produced' = [ok |-> TRUE, n |-> n]
           /\ Answers(<<"T">> \o Repeat("D", n) \o <<"Z">>)
        \/ /\ produced' = [ok |-> FALSE, n |-> n]
           /\ permitted \/ n = 0
           /\ Answers((IF permitted THEN <<"T">> ELSE <<>>) \o Repeat("D", n) \o <<"E", "Z">>)
    /\ UNCHANGED backend

\* The server ends or the connection breaks; a part of what was under way
\* still arrives.
ServerCloses ==
    /\ pc \in Reads /\ backend # "gone"
    /\ backend' = "gone" /\ toServer' = <<>>
    /\ \E k \in 0 .. Len(toClient), end \in {"EOF", "CUT"} :
        toClient' = Append(SubSeq(toClient, 1, k), end)
    /\ UNCHANGED <<client, pc, authed, rows, outcome, produced>>

-----------------------------------------------------------------------------
WireInit ==
    /\ client = "run_select" /\ pc = "idle" /\ outcome = "none"
    /\ authed = FALSE /\ rows = 0
    /\ toServer = <<>> /\ toClient = <<>>
    /\ backend = "gone" /\ produced = NoResult

ClientReads == ReadFirst \/ ReadAuth \/ ReadResult

Server(trusted, accepted, permitted) ==
    \/ ServerStartup(trusted) \/ ServerToken(accepted) \/ ServerRefuses
    \/ ServerQuery(permitted) \/ ServerCloses

\* recv returns what has arrived, and its timeout expires when nothing does.
WireFairness == WF_wireVars(Connect) /\ WF_wireVars(ClientReads) /\ WF_wireVars(Timeout)

-----------------------------------------------------------------------------
Messages == {"R0", "R10", "R11", "E", "T", "D", "Z", "EOF", "CUT"}

(* Type invariant of the connection. *)
WireTypeOK ==
    /\ client \in {"run_select", "run"}
    /\ authed \in BOOLEAN /\ rows \in Nat
    /\ outcome \in {"none", "rows", "denied", "raised", "killed"}
    /\ toServer \in Seq({"startup", "token", "dummy", "Q"})
    /\ toClient \in Seq(Messages)
    /\ backend \in {"startup", "sasl", "refusing", "ready", "gone"}
    /\ produced \in [ok : BOOLEAN, n : Nat]

(* What run_select returns is the whole result of a query that succeeded,  *)
(* wherever the connection broke and whatever came before the break.       *)
ResultWhole ==
    (outcome = "rows" /\ client = "run_select") => produced = [ok |-> TRUE, n |-> rows]
===============================================================================
