-------------------------------- MODULE Stack ---------------------------------
(***************************************************************************)
(* up.sh and docker-compose.yml: the credentials in .env against what each *)
(* container and the database volume took over from an earlier run.        *)
(*                                                                         *)
(* Credentials are generated together, so a number stands for all of them: *)
(* NoFile, Blank (a file with nothing in it) or a later one per generation.*)
(* The volume keeps the password it was initialised with, a container the  *)
(* environment it was created with, Keycloak the realm it imported.        *)
(* The proxy has no state; a started Postgres or Keycloak does not fail.   *)
(***************************************************************************)
EXTENDS Seeder

CONSTANTS
  StartRaces,       \* whether a dependency may look ready before it is
  RotatesInUse,     \* whether .env is deleted while a database exists
  MaxOps,           \* bound on what the user does and on server crashes
  MaxEntries        \* bound on audit entries

ASSUME StackAssumption ==
    /\ "compose" \in Seeders
    /\ StartRaces \in BOOLEAN /\ RotatesInUse \in BOOLEAN
    /\ MaxOps \in Nat /\ MaxEntries \in Nat

VARIABLES
  script,           \* where up.sh is: "idle" when it is not running
  env,              \* the credentials in .env
  sourced,          \* the script's copy
  rendered,         \* those in the realm file
  printed,          \* those of the logins shown last, NoFile when outdated
  issued,           \* the latest generated
  volume,           \* those the volume was initialised with, NoFile if empty
  pg, kc, mcp,      \* the containers: postgres, keycloak, mcp-server
  pgEnv, mcpEnv, seederEnv,   \* the credentials each was created with
  realm,            \* those in the realm Keycloak imported
  crashed,          \* history: mcp-server died since up.sh was started
  ops

files == <<env, sourced, rendered, issued>>
containers == <<pg, kc, mcp, pgEnv, mcpEnv, seederEnv, realm>>
vars == <<seedVars, script, files, printed, volume, containers, crashed, ops>>

NoFile == 0
Blank == 1

-----------------------------------------------------------------------------
(* up.sh *)

\* Faulty variant: credentials are generated though .env is there.
BugRegenerates ==
    /\ script = "idle" /\ ops < MaxOps
    /\ ops' = ops + 1 /\ crashed' = FALSE /\ printed' = NoFile
    /\ issued' = issued + 1 /\ env' = issued + 1
    /\ sourced' = env' /\ script' = "render"
    /\ UNCHANGED <<seedVars, rendered, volume, containers>>

\* .env is created only if it is missing.  The file exists before anything
\* is written to it: an interrupt between leaves it blank.
Up ==
    /\ script = "idle" /\ ops < MaxOps
    /\ ops' = ops + 1 /\ crashed' = FALSE /\ printed' = NoFile
    /\ \/ /\ env # NoFile
          /\ sourced' = env /\ script' = "render"
          /\ UNCHANGED <<env, issued>>
       \/ /\ env = NoFile
          /\ issued' = issued + 1 /\ env' = issued + 1
          /\ sourced' = env' /\ script' = "render"
       \/ /\ env = NoFile
          /\ env' = Blank
          /\ UNCHANGED <<issued, sourced, script>>
    /\ UNCHANGED <<seedVars, rendered, volume, containers>>

\* Faulty variant: a realm file that is there is kept.
BugRendersOnce ==
    /\ script = "render"
    /\ rendered' = (IF rendered = NoFile THEN sourced ELSE rendered)
    /\ script' = "compose"
    /\ UNCHANGED <<seedVars, env, sourced, issued, printed, volume, containers, crashed, ops>>

Render ==
    /\ script = "render"
    /\ rendered' = sourced
    /\ script' = "compose"
    /\ UNCHANGED <<seedVars, env, sourced, issued, printed, volume, containers, crashed, ops>>

\* compose refuses to run without a password, and set -e ends the script.
ComposeRefuses ==
    /\ script = "compose" /\ sourced = Blank
    /\ script' = "idle"
    /\ UNCHANGED <<seedVars, files, printed, volume, containers, crashed, ops>>

\* A container is created anew when its environment changed.  The image
\* initialises an empty volume with the password it is given, and ignores
\* the password afterwards.  Whoever is connected is cut off.
ComposePostgres ==
    /\ script = "compose" /\ sourced # Blank
    /\ pg = "absent" \/ pgEnv # sourced
    /\ pg' = IF volume = NoFile THEN "init" ELSE "ready"
    /\ volume' = IF volume = NoFile THEN sourced ELSE volume
    /\ pgEnv' = sourced
    /\ step' = [s \in Seeders |-> IF s \in Seeding THEN "stopped" ELSE step[s]]
    /\ UNCHANGED <<database, script, files, printed, kc, mcp, mcpEnv, seederEnv, realm,
                   crashed, ops>>

\* Keycloak's environment holds no secret, so a container that runs is kept.
ComposeKeycloak ==
    /\ script = "compose" /\ sourced # Blank
    /\ kc = "absent"
    /\ kc' = "starting" /\ realm' = rendered
    /\ UNCHANGED <<seedVars, script, files, printed, volume, pg, mcp, pgEnv, mcpEnv,
                   seederEnv, crashed, ops>>

\* pg_isready asks the local socket, on which the server that runs the init
\* scripts listens too.
Healthy == pg = "ready" \/ (StartRaces /\ pg = "init")

\* Faulty variant: an mcp-server that exited is left as it is.
BugKeepsExited == mcp # "absent" /\ mcpEnv = sourced

\* The process of mcp-server lives, in a container with these credentials:
\* a server that is about to exit is running to compose.
Runs == mcp \in {"starting", "failing", "up"} /\ mcpEnv = sourced

\* The services that wait for a healthy database.  mcp-server is started if
\* it is not running; so is the seeder, also when its work was done long ago.
ComposeRest ==
    /\ script = "compose" /\ sourced # Blank
    /\ pgEnv = sourced /\ Healthy /\ kc # "absent"
    /\ IF Runs THEN UNCHANGED <<mcp, mcpEnv>>
       ELSE mcp' = "starting" /\ mcpEnv' = sourced
    /\ IF "compose" \in Seeding /\ seederEnv = sourced THEN UNCHANGED <<step, seederEnv>>
       ELSE Advance("compose", "connect") /\ seederEnv' = sourced
    /\ script' = "wait_keycloak"
    /\ UNCHANGED <<database, files, printed, volume, pg, kc, pgEnv, realm, crashed, ops>>

WaitKeycloak ==
    /\ script = "wait_keycloak" /\ kc = "ready"
    /\ script' = "wait_mcp"
    /\ UNCHANGED <<seedVars, files, printed, volume, containers, crashed, ops>>

\* /health answers: the script shows the logins and ends.
WaitMcp ==
    /\ script = "wait_mcp" /\ mcp = "up"
    /\ printed' = sourced
    /\ script' = "idle"
    /\ UNCHANGED <<seedVars, files, volume, containers, crashed, ops>>

Interrupt ==
    /\ script # "idle"
    /\ script' = "idle"
    /\ UNCHANGED <<seedVars, files, printed, volume, containers, crashed, ops>>

-----------------------------------------------------------------------------
(* The containers *)

PostgresReady ==
    /\ pg = "init" /\ pg' = "ready"
    /\ UNCHANGED <<seedVars, script, files, printed, volume, kc, mcp, pgEnv, mcpEnv,
                   seederEnv, realm, crashed, ops>>

KeycloakReady ==
    /\ kc = "starting" /\ kc' = "ready"
    /\ UNCHANGED <<seedVars, script, files, printed, volume, pg, mcp, pgEnv, mcpEnv,
                   seederEnv, realm, crashed, ops>>

\* build_app: create_pool, then the provider, which may need the realm.
\* An exception is about to end the process.
Reaches(credentials) == pg = "ready" /\ credentials = volume

ServerStarts ==
    /\ mcp = "starting"
    /\ \/ Reaches(mcpEnv) /\ mcp' = "up"
       \/ ~Reaches(mcpEnv) /\ mcp' = "failing"
       \/ StartRaces /\ kc = "starting" /\ mcp' = "failing"
    /\ UNCHANGED <<seedVars, script, files, printed, volume, pg, kc, pgEnv, mcpEnv,
                   seederEnv, realm, crashed, ops>>

\* compose does not restart what has exited by itself.
ServerExits ==
    /\ mcp = "failing" /\ mcp' = "exited"
    /\ UNCHANGED <<seedVars, script, files, printed, volume, pg, kc, pgEnv, mcpEnv,
                   seederEnv, realm, crashed, ops>>

ServerCrashes ==
    /\ mcp \in {"starting", "up"} /\ ops < MaxOps
    /\ mcp' = "exited" /\ crashed' = TRUE /\ ops' = ops + 1
    /\ UNCHANGED <<seedVars, script, files, printed, volume, pg, kc, pgEnv, mcpEnv,
                   seederEnv, realm>>

\* A tool call of the running server leaves its entry (see McpServer).
WriteAudit ==
    /\ mcp = "up" /\ Reaches(mcpEnv)
    /\ \E e \in (1 .. MaxEntries) \ audit_logs : audit_logs' = audit_logs \cup {e}
    /\ UNCHANGED <<step, tables, managed, script, files, printed, volume, containers,
                   crashed, ops>>

\* compose gives its seeder a DATABASE_URL with the password of .env.  One run
\* by hand takes what the user put there, or mcp_secret at localhost, and never
\* reads .env: it logs in if that happens to be this database and its password.
RunSeeder(s) ==
    /\ \/ s = "compose" /\ SeedConnects(s, Reaches(seederEnv))
       \/ s # "compose" /\ \E right \in BOOLEAN : SeedConnects(s, right /\ pg = "ready")
       \/ Seed(s)
    /\ UNCHANGED <<script, files, printed, volume, containers, crashed, ops>>

-----------------------------------------------------------------------------
(* What the user does while the script is not running *)

UserOp == script = "idle" /\ ops < MaxOps /\ ops' = ops + 1

SeedByHand(s) ==
    /\ UserOp /\ pg = "ready" /\ s \notin Seeding
    /\ Advance(s, "connect")
    /\ UNCHANGED <<database, script, files, printed, volume, containers, crashed>>

DeleteEnv ==
    /\ UserOp /\ env # NoFile
    /\ RotatesInUse \/ (volume = NoFile /\ kc = "absent")
    /\ env' = NoFile
    /\ UNCHANGED <<seedVars, script, sourced, rendered, issued, printed, volume, containers,
                   crashed>>

\* docker compose down, with -v if wipe: the containers go, and the volume.
\* Not while the volume is being initialised.
Down(wipe) ==
    /\ UserOp /\ pg # "init"
    /\ pg' = "absent" /\ kc' = "absent" /\ mcp' = "absent"
    /\ pgEnv' = NoFile /\ mcpEnv' = NoFile /\ seederEnv' = NoFile /\ realm' = NoFile
    /\ printed' = NoFile
    /\ IF wipe
       THEN /\ volume' = NoFile /\ audit_logs' = {}
            /\ tables' = EmptyTables /\ managed' = {}
            /\ step' = [s \in Seeders |-> "never"]
       ELSE /\ step' = [s \in Seeders |-> IF s \in Seeding THEN "stopped" ELSE step[s]]
            /\ UNCHANGED <<volume, database>>
    /\ UNCHANGED <<script, files, crashed>>

-----------------------------------------------------------------------------
Init ==
    /\ SeedInit
    /\ script = "idle"
    /\ env = NoFile /\ sourced = NoFile /\ rendered = NoFile /\ printed = NoFile
    /\ issued = Blank /\ volume = NoFile
    /\ pg = "absent" /\ kc = "absent" /\ mcp = "absent"
    /\ pgEnv = NoFile /\ mcpEnv = NoFile /\ seederEnv = NoFile /\ realm = NoFile
    /\ crashed = FALSE /\ ops = 0

Script ==
    \/ Render \/ ComposeRefuses \/ ComposePostgres \/ ComposeKeycloak \/ ComposeRest
    \/ WaitKeycloak \/ WaitMcp

Next ==
    \/ Up \/ Script \/ Interrupt
    \/ PostgresReady \/ KeycloakReady
    \/ ServerStarts \/ ServerExits \/ ServerCrashes \/ WriteAudit
    \/ \E s \in Seeders : RunSeeder(s)
    \/ \E s \in Seeders \ {"compose"} : SeedByHand(s)
    \/ DeleteEnv \/ \E wipe \in BOOLEAN : Down(wipe)

Spec == Init /\ [][Next]_vars

\* The script goes on by itself and polls, containers finish starting.
FairSpec ==
    /\ Spec /\ WF_vars(Script)
    /\ WF_vars(PostgresReady) /\ WF_vars(KeycloakReady)
    /\ WF_vars(ServerStarts) /\ WF_vars(ServerExits)

-----------------------------------------------------------------------------
(* Type invariant. *)
TypeOK ==
    /\ SeedTypeOK
    /\ script \in {"idle", "render", "compose", "wait_keycloak", "wait_mcp"}
    /\ {env, sourced, rendered, printed, issued, volume} \subseteq Nat
    /\ {pgEnv, mcpEnv, seederEnv, realm} \subseteq Nat
    /\ pg \in {"absent", "init", "ready"}
    /\ kc \in {"absent", "starting", "ready"}
    /\ mcp \in {"absent", "starting", "failing", "up", "exited"}
    /\ audit_logs \subseteq 1 .. MaxEntries

(* The logins the script shows are those of the realm Keycloak runs with,  *)
(* through any number of rotations that begin with an empty volume.        *)
PrintedLoginsWork == printed # NoFile => realm = printed

(* The containers that log in to the database, mcp-server and the seeder   *)
(* of compose, have the password its volume was initialised with, each in  *)
(* the environment it was created with, through any interrupts, shutdowns  *)
(* that keep the volume and starts after them.  (A seeder run by hand has  *)
(* what its user gave it.)                                                 *)
PasswordsAgree ==
    /\ mcp \in {"starting", "up"} => mcpEnv = volume
    /\ step["compose"] = "connect" => seederEnv = volume

(* Starting the stack again repairs it: with the database and Keycloak up  *)
(* and the password of the volume, the script ends, whatever became of     *)
(* mcp-server before, unless mcp-server crashes once more or is just then  *)
(* on its way out, when compose still finds it running.                    *)
RerunRepairs ==
    (/\ script = "compose" /\ pg = "ready" /\ kc = "ready"
     /\ sourced = volume /\ mcp # "failing")
        ~> (script = "idle" \/ crashed)

-----------------------------------------------------------------------------
(* What the repository says, refuted by the runs marked "violation" *)

(* up.sh:24: ".env ... Safe to delete to rotate.": the script, started     *)
(* after that, ends as on the first run, unless mcp-server crashes.        *)
UpCompletes == (script = "render") ~> (script = "idle" \/ crashed)

(* 01_schema.sql:77: audit_logs is "Append-only": as long as the volume is *)
(* kept, no entry goes.                                                    *)
AuditAppendOnly == [][volume' = volume => audit_logs \subseteq audit_logs']_vars
===============================================================================
