------------------------------ MODULE Database -----------------------------
(***************************************************************************)
(* wolf-database (packages/database): the commands that build and run the  *)
(* bundled Postgres.  init is a sequence of subprocesses (initdb, pg_ctl,  *)
(* psql), any of which may fail, and may be killed between two of them.    *)
(* Postgres itself is external: a server that is up listens on the port    *)
(* its configuration had when it was started.                              *)
(***************************************************************************)
EXTENDS Naturals

CONSTANTS Ports, DEFAULT_PORT

MAX_PORT == 65535

ASSUME DatabaseAssumption == Ports \subseteq 1..MAX_PORT /\ DEFAULT_PORT \in Ports

VARIABLES
    vector,    \* the host has the pgvector package
    data,      \* the data directory has a PG_VERSION
    pgconf,      \* the port in postgresql.conf; 0 without the file
    up,        \* the port of the running server; 0 when it is stopped
    built,     \* what was created in the cluster
    setup,     \* init in progress: its next step and its port
    url,       \* the port of the DATABASE_URL that init printed; 0 for none
    moved      \* history: --port was given since, or the file was torn

dvars == <<vector, data, pgconf, up, built, setup, url, moved>>

EmptyFile == MAX_PORT + 1      \* no port: the file is there and has no line
NoSetup == [at |-> "idle", port |-> DEFAULT_PORT]

DInit ==
    /\ vector \in BOOLEAN /\ data = FALSE /\ pgconf = 0 /\ up = 0 /\ built = {}
    /\ setup = NoSetup /\ url = 0 /\ moved = FALSE

-----------------------------------------------------------------------------
Goto(step) == setup' = [setup EXCEPT !.at = step]

\* init: refused when the directory is initialized.
cmd_init_db(port) ==
    /\ setup.at = "idle" /\ ~data
    /\ setup' = [at |-> "initdb", port |-> port]
    /\ UNCHANGED <<vector, data, pgconf, up, built, url, moved>>

\* A failed initdb removes what it made.
run_initdb ==
    /\ setup.at = "initdb"
    /\ \/ data' = TRUE /\ built' = {} /\ Goto("config")
       \/ setup' = NoSetup /\ UNCHANGED <<data, built>>
    /\ UNCHANGED <<vector, pgconf, up, url, moved>>

write_config(port) == pgconf' = port

InitWritesConfig ==
    /\ setup.at = "config"
    /\ write_config(setup.port) /\ Goto("start")
    /\ UNCHANGED <<vector, data, up, built, url, moved>>

\* The configuration preloads the vector library: without it there is no
\* start.  On an empty file the server takes its own defaults.
run_pg_ctl_start(started, failed) ==
    /\ UNCHANGED <<vector, data, pgconf, built, url, moved>>
    /\ \/ /\ up = 0 /\ started
          /\ \/ pgconf \in Ports /\ vector /\ up' = pgconf
             \/ pgconf = EmptyFile /\ up' = DEFAULT_PORT
       \/ UNCHANGED up /\ failed

InitStarts == setup.at = "start" /\ run_pg_ctl_start(Goto("pgvector"), setup' = NoSetup)

\* Five polls over the socket of the port given to init.
_await_pgvector ==
    /\ setup.at = "pgvector"
    /\ \/ up = setup.port /\ Goto("role")
       \/ Goto("undo")
    /\ UNCHANGED <<vector, data, pgconf, up, built, url, moved>>

Following == [role |-> "db", db |-> "ext", ext |-> "stop"]

\* One statement; a failure raises through the finally block.
run_psql_command ==
    /\ setup.at \in {"role", "db", "ext"}
    /\ \/ up = setup.port /\ built' = built \cup {setup.at} /\ Goto(Following[setup.at])
       \/ Goto("undo") /\ UNCHANGED built
    /\ UNCHANGED <<vector, data, pgconf, up, url, moved>>

\* The finally block: a failing stop is only a warning.
InitStops ==
    /\ setup.at \in {"stop", "undo"}
    /\ up' \in {0, up}
    /\ setup' = NoSetup
    /\ IF setup.at = "stop"
       THEN url' = setup.port /\ moved' = FALSE
       ELSE UNCHANGED <<url, moved>>
    /\ UNCHANGED <<vector, data, pgconf, built>>

\* init dies; initdb may have left a PG_VERSION, the server goes on running.
InitKilled ==
    /\ setup.at # "idle"
    /\ setup' = NoSetup
    /\ data' \in IF setup.at = "initdb" THEN BOOLEAN ELSE {data}
    /\ pgconf' \in IF setup.at = "config" THEN {pgconf, EmptyFile} ELSE {pgconf}
    /\ UNCHANGED <<vector, up, built, url, moved>>

-----------------------------------------------------------------------------
cmd_start ==
    /\ setup.at = "idle" /\ data
    /\ run_pg_ctl_start(UNCHANGED setup, UNCHANGED setup)

cmd_stop ==
    /\ setup.at = "idle" /\ up' \in {0, up}
    /\ UNCHANGED <<vector, data, pgconf, built, setup, url, moved>>

\* Mutant: the configured port is not looked up.
_read_current_port_none == 0

\* The port line of postgresql.conf; 0 when it has none.
_read_current_port == IF pgconf \in Ports THEN pgconf ELSE 0

\* reconfigure without --port keeps the port, or takes the default.
cmd_reconfigure ==
    /\ setup.at = "idle"
    /\ write_config(IF _read_current_port = 0 THEN DEFAULT_PORT ELSE _read_current_port)
    /\ UNCHANGED <<vector, data, up, built, setup, url, moved>>

ReconfigurePort(port) ==
    /\ setup.at = "idle"
    /\ write_config(port) /\ moved' = TRUE
    /\ UNCHANGED <<vector, data, up, built, setup, url>>

\* reconfigure is killed with the file opened for writing.
ReconfigureKilled ==
    /\ setup.at = "idle"
    /\ pgconf' = EmptyFile /\ moved' = TRUE
    /\ UNCHANGED <<vector, data, up, built, setup, url>>

\* The host: a reboot or a crash of the server; the package is installed.
ServerDies ==
    /\ setup.at = "idle" /\ up' = 0
    /\ UNCHANGED <<vector, data, pgconf, built, setup, url, moved>>

InstallPgvector ==
    /\ ~vector /\ vector' = TRUE
    /\ UNCHANGED <<data, pgconf, up, built, setup, url, moved>>

DNext ==
    \/ run_initdb \/ InitWritesConfig \/ InitStarts \/ _await_pgvector
    \/ run_psql_command \/ InitStops \/ InitKilled
    \/ cmd_start \/ cmd_stop \/ cmd_reconfigure \/ ReconfigureKilled
    \/ ServerDies \/ InstallPgvector
    \/ \E p \in Ports : cmd_init_db(p) \/ ReconfigurePort(p)

-----------------------------------------------------------------------------
DatabaseTypeOK ==
    /\ vector \in BOOLEAN /\ data \in BOOLEAN /\ moved \in BOOLEAN
    /\ pgconf \in Ports \cup {0, EmptyFile} /\ up \in Ports \cup {0} /\ url \in Ports \cup {0}
    /\ built \subseteq {"role", "db", "ext"} /\ setup.port \in Ports

\* The DATABASE_URL that init printed goes on being right: the role, the
\* database and the extension are there, and the server is configured for its
\* port, unless the operator gave another or the file was torn.
UrlStaysGood ==
    url # 0 => /\ data /\ built = {"role", "db", "ext"}
               /\ moved \/ pgconf = url
=============================================================================
