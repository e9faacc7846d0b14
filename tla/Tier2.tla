-------------------------------- MODULE Tier2 ---------------------------------
(***************************************************************************)
(* The tier-2 experiment: no service account, every query runs as a role   *)
(* of its user.  A tool call (mcp_tier2/server.py) picks the role from the *)
(* session's token, exchanges that token for one meant for the database    *)
(* and connects with it; the command-line client (pg_oauth_client.py)      *)
(* fetches a token and connects as whatever role it is told.  Keycloak     *)
(* decides on the roles in the token presented, Postgres on the columns.   *)
(*                                                                         *)
(* The roles of the user change at any time; the session's token keeps     *)
(* those of the login.  Calls share no connection, so one at a time shows  *)
(* all there is.                                                           *)
(***************************************************************************)
EXTENDS PgWire, FiniteSets

CONSTANTS
  ColumnSets,       \* the sets of columns of customers that queries ask for
  MaxChanges        \* bound on changes of the user's roles

VARIABLES
  held,             \* the realm roles the user has in Keycloak
  session,          \* the roles in the session's token
  presented,        \* the roles in the token shown to Postgres
  login,            \* the Postgres role the call connects as
  columns,          \* what the query asks for
  heldInCall,       \* history: roles the user had at some time in this call
  changes

call == <<presented, login, columns>>
idp == <<held, session, heldInCall, changes>>
vars == <<wireVars, idp, call>>

DbRoles == {"db_admin", "db_analyst", "db_readonly"}

\* pg_hba.conf lets the superuser in without a token.
TrustedUser == "postgres"
Logins == DbRoles \cup {TrustedUser}

\* 01_roles_grants.sql; a superuser is subject to no grant.
AllColumns == {"id", "first_name", "ssn", "email", "balance"}
Grants(role) ==
    CASE role = "db_readonly" -> {"id", "first_name", "email"}
      [] role = "db_analyst" -> {"id", "first_name", "ssn", "email"}
      [] OTHER -> AllColumns

ASSUME ColumnsAssumption == \A c \in ColumnSets : c \subseteq AllColumns
ASSUME ChangesAssumption == MaxChanges \in Nat

-----------------------------------------------------------------------------
(* The identity provider *)

\* A direct grant (drive.py): the token carries the roles of the moment.
Login ==
    /\ pc = "idle"
    /\ session' = held
    /\ UNCHANGED <<wireVars, call, held, heldInCall, changes>>

ChangeRoles ==
    /\ changes < MaxChanges
    /\ changes' = changes + 1
    /\ held' \in SUBSET DbRoles
    /\ heldInCall' = IF pc = "idle" THEN {} ELSE heldInCall \cup held'
    /\ UNCHANGED <<wireVars, call, session>>

\* setup_authz.sh: appdb#role needs the realm role of that name, in the
\* token that asks.
Authorized == login \in presented

-----------------------------------------------------------------------------
(* Calls *)

Begin(program, role, asked, next) ==
    /\ pc = "idle"
    /\ client' = program /\ login' = role /\ columns' = asked
    /\ pc' = next /\ outcome' = "none"
    /\ heldInCall' = held
    /\ UNCHANGED <<authed, rows, wire, held, session, changes>>

\* Faulty variant: a token without a db_ role gets a default one.
BugDefaultRole(roles) ==
    IF "db_admin" \in roles THEN {"db_admin"}
    ELSE IF "db_analyst" \in roles THEN {"db_analyst"}
    ELSE IF "db_readonly" \in roles THEN {"db_readonly"} ELSE {"public"}

\* The highest role of the session's token, which may no longer be the
\* user's; none is a PermissionError before anything happens.
_role_from_claims(roles) ==
    IF "db_admin" \in roles THEN {"db_admin"}
    ELSE IF "db_analyst" \in roles THEN {"db_analyst"}
    ELSE roles \cap {"db_readonly"}

CallTool(asked) ==
    \E role \in _role_from_claims(session) :
        /\ Begin("run_select", role, asked, "exchange")
        /\ UNCHANGED presented

\* Faulty variant: the session's own token is presented to the database.
BugPresentsSession ==
    /\ pc = "exchange"
    /\ presented' = session
    /\ GoOn("connect")
    /\ UNCHANGED <<client, authed, rows, wire, idp, login, columns>>

\* _exchange_for_db: the new token carries the roles of the moment.  A failure
\* of the request is no PgDenied and leaves the handler as it is.
Exchange ==
    /\ pc = "exchange"
    /\ \/ GoOn("connect") /\ presented' = held
       \/ End("raised") /\ UNCHANGED presented
    /\ UNCHANGED <<client, authed, rows, wire, idp, login, columns>>

\* The command line: any login role, with a token of its own.
CallCli(role, asked) ==
    /\ Begin("run", role, asked, "connect")
    /\ presented' = held

\* The caller has its answer, the socket is closed; the session lives on.
Return ==
    /\ pc = "done"
    /\ pc' = "idle" /\ outcome' = "none"
    /\ authed' = FALSE /\ rows' = 0
    /\ toServer' = <<>> /\ toClient' = <<>>
    /\ backend' = "gone" /\ produced' = NoResult
    /\ presented' = {} /\ columns' = {} /\ heldInCall' = {}
    /\ UNCHANGED <<client, login, held, session, changes>>

-----------------------------------------------------------------------------
Init ==
    /\ WireInit
    /\ held \in SUBSET DbRoles /\ session = held
    /\ presented = {} /\ login = "db_readonly" /\ columns = {}
    /\ heldInCall = {} /\ changes = 0

Wire ==
    /\ \/ Connect \/ ClientReads \/ Timeout \/ Killed
       \/ Server(login = TrustedUser, Authorized, columns \subseteq Grants(login))
    /\ UNCHANGED <<idp, call>>

Next ==
    \/ Login \/ ChangeRoles \/ Exchange \/ Return \/ Wire
    \/ \E asked \in ColumnSets :
           CallTool(asked) \/ \E role \in Logins : CallCli(role, asked)

Spec == Init /\ [][Next]_vars

\* The exchange is an HTTP request with httpx's default timeout.
FairSpec == Spec /\ WireFairness /\ WF_vars(Exchange)
-----------------------------------------------------------------------------
(* Type invariant. *)
TypeOK ==
    /\ WireTypeOK /\ pc \in {"idle", "exchange", "connect", "done"} \cup Reads
    /\ held \in SUBSET DbRoles /\ session \in SUBSET DbRoles
    /\ presented \in SUBSET DbRoles /\ heldInCall \in SUBSET DbRoles
    /\ login \in Logins
    /\ columns \in ColumnSets \cup {{}}
    /\ changes \in 0 .. MaxChanges

(* Rows come only from a session of a role that the user held at some time *)
(* in this very call, however old the session's token is and whatever role *)
(* the command line names, and only of columns granted to that role.       *)
RowsNeedHeldRole ==
    (outcome = "rows" /\ rows > 0) =>
        login \in heldInCall /\ columns \subseteq Grants(login)

(* A tool call ends, whatever the identity provider and the server do,     *)
(* unless the server closes the connection after the query was sent.       *)
InToolCall == client = "run_select" /\ pc \notin {"idle", "done"}
CutOff == pc = "query" /\ toClient # <<>> /\ Head(toClient) = "EOF"
ToolCallEnds == InToolCall ~> (pc = "done" \/ CutOff)

-----------------------------------------------------------------------------
(* What the repository says, refuted by the run marked "violation" *)

(* pgwire.py:46: "run `sql`, and return (columns, rows). Raises PgDenied   *)
(* if ...", with a timeout: a call returns or raises.                      *)
RunSelectReturns == InToolCall ~> (pc = "done")
===============================================================================
