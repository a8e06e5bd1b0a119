-------------------------- MODULE OperationsProofs --------------------------
(***************************************************************************)
(* Proofs about what an operator sets up and maintains: the database URL   *)
(* stays good, passwords stay with their users and connections with what   *)
(* was validated, stamps with the model that made the vector, and leaves   *)
(* with the CA; for every number of ports, users, requests, chunks,        *)
(* embedding settings, leaves and commands.                                *)
(***************************************************************************)
EXTENDS Operations, FiniteSetTheorems, TLAPS

-----------------------------------------------------------------------------
(* The parts share no state.                                               *)

\* A step of the operations is, for each part, one of its steps or none.
LEMMA PartsMoveAlone ==
    [OpsNext]_opsvars => [KNext]_kvars /\ [DNext]_dvars /\ [WNext]_wvars /\ [NNext]_nvars
BY DEF OpsNext, CertsStep, DatabaseStep, CredentialsStep, KnowledgeStep, opsvars

\* Every behaviour of the whole is a behaviour of each part.
LEMMA PartsOfOperations ==
    OpsSpec => /\ KInit /\ [][KNext]_kvars
               /\ DInit /\ [][DNext]_dvars
               /\ WInit /\ [][WNext]_wvars
               /\ NInit /\ [][NNext]_nvars
<1>1. OpsInit => KInit /\ DInit /\ WInit /\ NInit
    BY DEF OpsInit
<1> QED BY <1>1, PartsMoveAlone, PTL DEF OpsSpec

-----------------------------------------------------------------------------
(* The bundled database.                                                   *)

InitSteps == {"idle", "initdb", "config", "start", "pgvector", "role", "db", "ext", "stop", "undo"}

\* While init runs no URL was printed; past initdb there is a cluster, past the
\* configuration it is for the port init was given, and each statement that
\* succeeded left what it creates.
SetupOK ==
    /\ setup.at # "idle" => url = 0
    /\ setup.at = "initdb" => ~data
    /\ setup.at \notin {"idle", "initdb"} => data
    /\ setup.at \in {"start", "pgvector", "role", "db", "ext", "stop"} => pgconf = setup.port
    /\ setup.at \in {"db", "ext", "stop"} => "role" \in built
    /\ setup.at \in {"ext", "stop"} => "db" \in built
    /\ setup.at = "stop" => "ext" \in built

DatabaseInv ==
    /\ DatabaseTypeOK /\ setup \in [at : InitSteps, port : Ports]
    /\ SetupOK /\ UrlStaysGood

\* No port is the reading of an empty or of a torn file.
LEMMA PortsArePositive == 0 \notin Ports /\ EmptyFile \notin Ports /\ DEFAULT_PORT \in Ports
<1>1. MAX_PORT \in Nat
    BY DEF MAX_PORT
<1>2. Ports \subseteq 1..MAX_PORT /\ DEFAULT_PORT \in Ports
    BY DatabaseAssumption
<1> QED BY <1>1, <1>2 DEF EmptyFile

\* There is no data directory at first.
LEMMA DatabaseInit == DInit => DatabaseInv
<1> SUFFICES ASSUME DInit PROVE DatabaseInv
    OBVIOUS
<1>1. vector \in BOOLEAN /\ data \in BOOLEAN /\ moved \in BOOLEAN
    BY Zenon DEF DInit
<1>2. pgconf = 0 /\ up = 0 /\ url = 0 /\ built = {} /\ setup = [at |-> "idle", port |-> DEFAULT_PORT]
    BY DEF DInit, NoSetup
<1> QED BY <1>1, <1>2, PortsArePositive
        DEF DatabaseInv, DatabaseTypeOK, SetupOK, UrlStaysGood, InitSteps

\* Every step of the database's commands keeps the invariant.
LEMMA DatabaseKept == DatabaseInv /\ [DNext]_dvars => DatabaseInv'
<1> SUFFICES ASSUME DatabaseInv, [DNext]_dvars PROVE DatabaseInv'
    OBVIOUS
<1> USE PortsArePositive DEF DatabaseInv, DatabaseTypeOK, SetupOK, UrlStaysGood, InitSteps
<1>1. CASE UNCHANGED dvars
    BY <1>1 DEF dvars
<1>2. CASE \E p \in Ports : cmd_init_db(p) \/ ReconfigurePort(p)
  <2>1. PICK p \in Ports : cmd_init_db(p) \/ ReconfigurePort(p)
      BY <1>2
  <2>2. CASE cmd_init_db(p)
      BY <2>2 DEF cmd_init_db
  <2>3. CASE ReconfigurePort(p)
    <3>1. moved' /\ moved' \in BOOLEAN
        BY <2>3, Zenon DEF ReconfigurePort
    <3>2. /\ setup.at = "idle" /\ pgconf' = p
          /\ UNCHANGED <<vector, data, up, built, setup, url>>
        BY <2>3 DEF ReconfigurePort, write_config
    <3> QED BY <3>1, <3>2
  <2> QED BY <2>1, <2>2, <2>3
<1>3. CASE run_initdb
  <2>1. setup.at = "initdb" /\ UNCHANGED <<vector, pgconf, up, url, moved>>
      BY <1>3 DEF run_initdb
  <2>2. CASE data' = TRUE /\ built' = {} /\ Goto("config")
    <3>1. data' /\ data' \in BOOLEAN
        BY <2>2, Zenon
    <3>2. built' = {} /\ setup' = [setup EXCEPT !.at = "config"]
        BY <2>2 DEF Goto
    <3> QED BY <2>1, <3>1, <3>2
  <2>3. CASE setup' = NoSetup /\ UNCHANGED <<data, built>>
      BY <2>1, <2>3 DEF NoSetup
  <2> QED BY <1>3, <2>2, <2>3 DEF run_initdb
<1>4. CASE InitWritesConfig
    BY <1>4 DEF InitWritesConfig, write_config, Goto
<1>5. CASE InitStarts
    BY <1>5 DEF InitStarts, run_pg_ctl_start, Goto, NoSetup
<1>6. CASE _await_pgvector
    BY <1>6 DEF _await_pgvector, Goto
<1>7. CASE run_psql_command
    BY <1>7 DEF run_psql_command, Following, Goto
<1>8. CASE InitStops
    BY <1>8 DEF InitStops, NoSetup
<1>9. CASE InitKilled
    BY <1>9 DEF InitKilled, NoSetup
<1>10. CASE cmd_start
    BY <1>10 DEF cmd_start, run_pg_ctl_start
<1>11. CASE cmd_reconfigure
    BY <1>11 DEF cmd_reconfigure, write_config, _read_current_port
<1>12. CASE cmd_stop \/ ServerDies
    BY <1>12 DEF cmd_stop, ServerDies
<1>13. CASE ReconfigureKilled
  <2>1. moved' /\ moved' \in BOOLEAN
      BY <1>13, Zenon DEF ReconfigureKilled
  <2>2. setup.at = "idle" /\ pgconf' = EmptyFile /\ UNCHANGED <<vector, data, up, built, setup, url>>
      BY <1>13 DEF ReconfigureKilled
  <2> QED BY <2>1, <2>2
<1>14. CASE InstallPgvector
  <2>1. vector' \in BOOLEAN
      BY <1>14, Zenon DEF InstallPgvector
  <2>2. UNCHANGED <<data, pgconf, up, built, setup, url, moved>>
      BY <1>14 DEF InstallPgvector
  <2> QED BY <2>1, <2>2
<1> QED BY <1>1, <1>2, <1>3, <1>4, <1>5, <1>6, <1>7, <1>8, <1>9, <1>10, <1>11, <1>12, <1>13, <1>14 DEF DNext

\* wolf-database: the DATABASE_URL that init printed goes on naming a database
\* that is complete and the port the server is configured for, whatever step of
\* init failed or was killed before and whatever commands come after.
THEOREM DatabaseUrlStaysGood == OpsSpec => []UrlStaysGood
<1>1. DatabaseInv => UrlStaysGood
    BY DEF DatabaseInv
<1> QED BY <1>1, PartsOfOperations, DatabaseInit, DatabaseKept, PTL

-----------------------------------------------------------------------------
(* Wazuh credentials: the inductive invariant.                             *)

Sides == {"indexer", "api"}
Someone == WazuhUsers \cup {NoOne}
Cred == [u : Someone, for : Someone, p : 0..MaxSaves]
Creds == [Sides -> Cred]

Request ==
    [st : {"new", "resolve indexer", "resolve api", "probe", "write", "second", "last",
           "load indexer", "load api", "open", "done"},
     via : {"none", "api", "cli", "tool"}, scope : Scopes, user : Someone, typed : SUBSET Sides,
     got : Creds, seen : Creds, ok : BOOLEAN, over : BOOLEAN]

CredShapes ==
    /\ vault \in [Scopes -> Creds]
    /\ row \in [Scopes -> [there : BOOLEAN, validated : BOOLEAN, seen : Creds]]
    /\ save \in [Saves -> Request]
    /\ clash \in [Scopes -> BOOLEAN]

\* What the form of a request says: the command is about the organization and
\* types both passwords, and only a tool call loads.
RequestOK(q) ==
    /\ q.st \in {"load indexer", "load api", "open"} => q.via = "tool" /\ q.scope = "org"
    /\ q.via = "cli" => q.scope = "org" /\ q.typed = Sides
    /\ q.st \in {"resolve indexer", "resolve api"} => q.via = "api"

\* What a request that met no other of its organization knows of the vault v
\* and of the row w: what it left blank is still there, what it has written is
\* there, and a tool call loads what the row says was probed.
LoneSave(q, v, w) ==
    /\ q.via = "api" =>
          /\ q.st \in {"resolve api", "probe", "write"} /\ "indexer" \notin q.typed => v["indexer"] = q.got["indexer"]
          /\ q.st \in {"probe", "write", "second"} /\ "api" \notin q.typed => v["api"] = q.got["api"]
          /\ q.st \in {"second", "last"} => v["indexer"] = q.got["indexer"]
          /\ q.st = "last" => v["api"] = q.got["api"]
    /\ q.via = "cli" =>
          /\ q.st \in {"second", "last"} => w.seen = q.got
          /\ q.st = "last" => v["indexer"] = q.got["indexer"]

LoneLoad(q, w) ==
    /\ q.st \in {"load indexer", "load api"} => (q.ok => w.validated) /\ q.seen = w.seen
    /\ q.st = "load api" /\ q.ok => q.got["indexer"] = q.seen["indexer"]
    /\ q.st = "open" /\ q.ok => q.got = q.seen

Busy(q) == q.st \notin {"new", "open", "done"}

\* Of two requests of one scope that run both know it.
MetOK(q, r) ==
    q # r /\ Busy(save[q]) /\ Busy(save[r]) /\ save[q].scope = save[r].scope => save[q].over

\* Between saves, the vault holds what was probed for a validated row.
VaultOK ==
    /\ \A r \in Saves : save[r].scope = "org" => save[r].st \notin {"second", "last"}
    /\ ~clash["org"] /\ row["org"].validated
    => vault["org"] = row["org"].seen

SaveOK(r) ==
    /\ RequestOK(save[r])
    /\ save[r].scope = "org" /\ ~save[r].over =>
          LoneSave(save[r], vault["org"], row["org"]) /\ LoneLoad(save[r], row["org"])

CredInv ==
    /\ CredShapes
    /\ \A c \in Scopes : row[c].validated => row[c].there
    /\ PasswordsKeepTheirUser
    /\ \A r \in Saves : SaveOK(r)
    /\ \A q, r \in Saves : MetOK(q, r)
    /\ VaultOK

-----------------------------------------------------------------------------
(* Wazuh credentials: what a step leaves.                                  *)

KeptUser(creds) == \A s \in Sides : creds[s].u = creds[s].for

\* No credentials, and credentials as typed, have a password of their user.
LEMMA EmptyShape ==
    /\ DOMAIN Empty = Sides /\ Empty \in Creds /\ KeptUser(Empty) /\ NoCred \in Cred
    /\ \A u \in Someone, p \in 0..MaxSaves : TypedCred(u, p) \in Cred /\ TypedCred(u, p).u = TypedCred(u, p).for
<1>1. 0 \in 0..MaxSaves
    BY CredentialsAssumption
<1> QED BY <1>1 DEF Empty, Sides, Creds, Cred, NoCred, Someone, KeptUser, TypedCred

\* Credentials that agree on both sides are the same.
LEMMA SameCreds ==
    ASSUME NEW f \in Creds, NEW g \in Creds, \A s \in Sides : f[s] = g[s]
    PROVE  f = g
BY DEF Creds

\* PasswordsKeepTheirUser, part by part.
LEMMA UsersKept ==
    PasswordsKeepTheirUser <=>
        (\A r \in Saves : KeptUser(save[r].got)) /\ (\A c \in Scopes : KeptUser(vault[c]))
BY EmptyShape DEF PasswordsKeepTheirUser, KeptUser

\* The same after a step.
LEMMA UsersKeptNext ==
    PasswordsKeepTheirUser' <=>
        (\A r \in Saves : KeptUser(save'[r].got)) /\ (\A c \in Scopes : KeptUser(vault'[c]))
BY EmptyShape DEF PasswordsKeepTheirUser, KeptUser

\* A save that has not come in is empty.
LEMMA FreshShape ==
    /\ Fresh \in Request /\ Fresh.st = "new" /\ Fresh.scope = "org" /\ Fresh.got = Empty
    /\ ~Fresh.ok /\ ~Fresh.over /\ Fresh.via = "none" /\ Fresh.seen = Empty /\ Fresh.typed = {}
    /\ [Fresh EXCEPT !.st = "done"] \in Request /\ [Fresh EXCEPT !.st = "done"].st = "done"
    /\ [Fresh EXCEPT !.st = "done"].got = Empty /\ [Fresh EXCEPT !.st = "done"].via = "none"
<1>1. /\ Fresh \in Request /\ Fresh.st = "new" /\ Fresh.scope = "org" /\ Fresh.got = Empty
      /\ Fresh.via = "none" /\ Fresh.seen = Empty /\ Fresh.typed = {}
    BY EmptyShape DEF Fresh, Request, Scopes, Someone
<1>2. ~Fresh.ok /\ ~Fresh.over
    BY DEF Fresh
<1>3. [Fresh EXCEPT !.st = "done"] \in Request /\ [Fresh EXCEPT !.st = "done"].st = "done"
      /\ [Fresh EXCEPT !.st = "done"].got = Empty /\ [Fresh EXCEPT !.st = "done"].via = "none"
    BY <1>1 DEF Request
<1> QED BY <1>1, <1>2, <1>3

\* What the invariant says of one save.
LEMMA SaveFields ==
    ASSUME CredInv, NEW r \in Saves
    PROVE  /\ save[r] \in Request /\ RequestOK(save[r]) /\ SaveOK(r) /\ KeptUser(save[r].got)
           /\ save[r].st \in {"new", "resolve indexer", "resolve api", "probe", "write", "second", "last",
                              "load indexer", "load api", "open", "done"}
           /\ save[r].scope \in Scopes /\ save[r].user \in Someone /\ save[r].typed \in SUBSET Sides
           /\ save[r].got \in Creds /\ save[r].seen \in Creds
<1>1. save[r] \in Request
    BY DEF CredInv, CredShapes
<1>2. KeptUser(save[r].got)
    BY UsersKept DEF CredInv
<1>3. /\ save[r].st \in {"new", "resolve indexer", "resolve api", "probe", "write", "second", "last",
                         "load indexer", "load api", "open", "done"}
      /\ save[r].scope \in Scopes /\ save[r].user \in Someone /\ save[r].typed \in SUBSET Sides
      /\ save[r].got \in Creds /\ save[r].seen \in Creds
    BY <1>1 DEF Request
<1> QED BY <1>1, <1>2, <1>3 DEF CredInv, SaveOK

\* What the invariant says of the two stores.
LEMMA VaultFields ==
    ASSUME CredInv
    PROVE  /\ vault \in [Scopes -> Creds] /\ vault["org"] \in Creds /\ vault["install"] \in Creds
           /\ KeptUser(vault["org"]) /\ KeptUser(vault["install"])
           /\ row \in [Scopes -> [there : BOOLEAN, validated : BOOLEAN, seen : Creds]]
           /\ clash \in [Scopes -> BOOLEAN] /\ save \in [Saves -> Request]
BY UsersKept DEF CredInv, CredShapes, Scopes

\* What a request at rest knows does not depend on the vault or the row.
LEMMA RestKnows ==
    ASSUME NEW q, NEW v, NEW w, NEW v2, NEW w2, ~Busy(q), LoneLoad(q, w)
    PROVE  LoneSave(q, v2, w2) /\ LoneLoad(q, w2)
BY DEF Busy, LoneSave, LoneLoad

\* One request moves: the others keep what they know, for the vault and the row
\* of the organization change under its running requests only.
LEMMA RequestMoves ==
    ASSUME CredInv, NEW r \in Saves, NEW q \in Request, save' = [save EXCEPT ![r] = q],
           vault' \in [Scopes -> Creds], \A c \in Scopes : KeptUser(vault'[c]), KeptUser(q.got),
           row' \in [Scopes -> [there : BOOLEAN, validated : BOOLEAN, seen : Creds]],
           \A c \in Scopes : row'[c].validated => row'[c].there,
           clash' \in [Scopes -> BOOLEAN],
           RequestOK(q),
           Busy(q) => Busy(save[r]) /\ q.scope = save[r].scope /\ (save[r].over => q.over),
           \/ Busy(save[r]) /\ save[r].scope = "org"
           \/ vault'["org"] = vault["org"] /\ row'["org"] = row["org"],
           q.scope = "org" /\ ~q.over =>
              LoneSave(q, vault'["org"], row'["org"]) /\ LoneLoad(q, row'["org"]),
           VaultOK'
    PROVE  CredInv'
<1>0. save'[r] = q /\ \A d \in Saves : d # r => save'[d] = save[d]
    BY VaultFields
<1>1. CredShapes'
    BY VaultFields DEF CredShapes
<1>2. PasswordsKeepTheirUser'
  <2>1. \A d \in Saves : KeptUser(save'[d].got)
      BY <1>0, SaveFields
  <2> QED BY <2>1, UsersKeptNext
<1>3. ASSUME NEW d \in Saves PROVE SaveOK(d)'
  <2>1. CASE d = r
      BY <1>0, <2>1 DEF SaveOK
  <2>2. CASE d # r
    <3>1. save'[d] = save[d] /\ SaveOK(d) /\ RequestOK(save[d])
        BY <1>0, <1>3, <2>2, SaveFields
    <3> SUFFICES ASSUME save[d].scope = "org", ~save[d].over
                 PROVE  LoneSave(save[d], vault'["org"], row'["org"]) /\ LoneLoad(save[d], row'["org"])
        BY <3>1 DEF SaveOK
    <3>2. LoneSave(save[d], vault["org"], row["org"]) /\ LoneLoad(save[d], row["org"])
        BY <3>1 DEF SaveOK
    <3>3. CASE ~Busy(save[d])
        BY <3>2, <3>3, RestKnows
    <3>4. CASE Busy(save[d])
      <4>1. ~(Busy(save[r]) /\ save[r].scope = "org")
          BY <1>3, <2>2, <3>4 DEF CredInv, MetOK
      <4> QED BY <3>2, <4>1
    <3> QED BY <3>3, <3>4
  <2> QED BY <2>1, <2>2
<1>4. ASSUME NEW d \in Saves, NEW e \in Saves PROVE MetOK(d, e)'
  <2>1. MetOK(d, e)
      BY <1>4 DEF CredInv
  <2> QED BY <1>0, <1>4, <2>1 DEF MetOK
<1> QED BY <1>1, <1>2, <1>3, <1>4 DEF CredInv

\* Marking a save as overtaken changes nothing else of it.
LEMMA OverMarked ==
    ASSUME NEW q \in Request, NEW b \in BOOLEAN
    PROVE  LET x == [q EXCEPT !.over = b] IN
           /\ x \in Request /\ x.st = q.st /\ x.via = q.via /\ x.scope = q.scope /\ x.typed = q.typed
           /\ x.got = q.got /\ x.seen = q.seen /\ (x.ok <=> q.ok) /\ (x.over <=> b)
<1> DEFINE x == [q EXCEPT !.over = b]
<1>1. x \in Request /\ x.st = q.st /\ x.via = q.via /\ x.scope = q.scope /\ x.typed = q.typed
      /\ x.got = q.got /\ x.seen = q.seen
    BY DEF Request
<1>2. x.ok = q.ok
    BY DEF Request
<1>3. x.over = b
    BY DEF Request
<1> QED BY <1>1, <1>2, <1>3

\* A request arrives and meets those of its scope that run.
LEMMA RequestArrives ==
    ASSUME CredInv, NEW r \in Saves, NEW form \in Request, Arrive(r, form), UNCHANGED <<vault, row, clash>>,
           RequestOK(form), Busy(form), form.st \notin {"second", "last"}, KeptUser(form.got),
           form.scope = "org" => LoneSave(form, vault["org"], row["org"]) /\ LoneLoad(form, row["org"])
    PROVE  CredInv'
<1> DEFINE met == {q \in Saves : Active(q) /\ save[q].scope = form.scope}
           some == met # {}
<1>0. /\ save[r].st = "new"
      /\ save' = [q \in Saves |-> CASE q = r -> [form EXCEPT !.over = some]
                                    [] q \in met -> [save[q] EXCEPT !.over = TRUE]
                                    [] OTHER -> save[q]]
    BY DEF Arrive
<1>1. met \subseteq Saves /\ \A q \in Saves : q \in met <=> Busy(save[q]) /\ save[q].scope = form.scope
    BY DEF Active, Busy
<1>2. some \in BOOLEAN /\ (some <=> \E q \in Saves : q \in met)
    OBVIOUS
<1>3. r \notin met
    BY <1>0, <1>1 DEF Busy
<1> HIDE DEF met, some
<1>4. save'[r] = [form EXCEPT !.over = some]
    BY <1>0, <1>3
<1>5. \A q \in met : save'[q] = [save[q] EXCEPT !.over = TRUE]
    BY <1>0, <1>1, <1>3
<1>6. \A q \in Saves : q # r /\ q \notin met => save'[q] = save[q]
    BY <1>0
<1>7. /\ save'[r] \in Request /\ save'[r].st = form.st /\ save'[r].via = form.via
      /\ save'[r].scope = form.scope /\ save'[r].typed = form.typed
      /\ save'[r].got = form.got /\ save'[r].seen = form.seen /\ (save'[r].ok <=> form.ok)
      /\ save'[r].over <=> some
    BY <1>2, <1>4, OverMarked
<1>8. ASSUME NEW q \in Saves, q # r
      PROVE  /\ save'[q] \in Request /\ save'[q].st = save[q].st /\ save'[q].via = save[q].via
             /\ save'[q].scope = save[q].scope /\ save'[q].typed = save[q].typed
             /\ save'[q].got = save[q].got /\ save'[q].seen = save[q].seen /\ (save'[q].ok <=> save[q].ok)
             /\ save'[q].over <=> save[q].over \/ q \in met
  <2>1. save[q] \in Request
      BY <1>8, SaveFields
  <2>2. CASE q \in met
    <3>1. save'[q] = [save[q] EXCEPT !.over = TRUE]
        BY <1>5, <2>2
    <3>2. /\ save'[q] \in Request /\ save'[q].st = save[q].st /\ save'[q].via = save[q].via
          /\ save'[q].scope = save[q].scope /\ save'[q].typed = save[q].typed
          /\ save'[q].got = save[q].got /\ save'[q].seen = save[q].seen
        BY <2>1, <3>1 DEF Request
    <3>3. save'[q].ok = save[q].ok
        BY <2>1, <3>1 DEF Request
    <3>4. save'[q].over
        BY <2>1, <3>1 DEF Request
    <3> QED BY <2>2, <3>2, <3>3, <3>4
  <2>3. CASE q \notin met
      BY <1>6, <1>8, <2>1, <2>3
  <2> QED BY <2>2, <2>3
<1>9. CredShapes'
  <2>1. save' = [q \in Saves |-> save'[q]]
      BY <1>0
  <2>2. \A q \in Saves : save'[q] \in Request
      BY <1>7, <1>8
  <2>3. save' \in [Saves -> Request]
      BY <2>1, <2>2
  <2> QED BY <2>3, VaultFields DEF CredShapes
<1>10. PasswordsKeepTheirUser'
  <2>1. \A q \in Saves : KeptUser(save'[q].got)
      BY <1>7, <1>8, SaveFields
  <2>2. \A c \in Scopes : KeptUser(vault'[c])
      BY UsersKept DEF CredInv
  <2> QED BY <2>1, <2>2, UsersKeptNext
<1>11. ASSUME NEW q \in Saves PROVE SaveOK(q)'
  <2>1. CASE q = r
      BY <1>7, <2>1 DEF SaveOK, RequestOK, LoneSave, LoneLoad
  <2>2. CASE q # r
    <3>1. RequestOK(save[q]) /\ SaveOK(q)
        BY <1>11, SaveFields
    <3> QED BY <1>8, <1>11, <2>2, <3>1 DEF SaveOK, RequestOK, LoneSave, LoneLoad
  <2> QED BY <2>1, <2>2
<1>12. ASSUME NEW q \in Saves, NEW d \in Saves PROVE MetOK(q, d)'
  <2>1. MetOK(q, d)
      BY <1>12 DEF CredInv
  <2>2. CASE q = r
      BY <1>1, <1>2, <1>7, <1>8, <1>12, <2>2 DEF MetOK, Busy
  <2>3. CASE q # r /\ d = r
      BY <1>1, <1>7, <1>8, <1>12, <2>3 DEF MetOK, Busy
  <2>4. CASE q # r /\ d # r
      BY <1>8, <1>12, <2>1, <2>4 DEF MetOK, Busy
  <2> QED BY <2>2, <2>3, <2>4
<1>13. VaultOK'
  <2>1. (\A q \in Saves : save'[q].scope = "org" => save'[q].st \notin {"second", "last"}) =>
            \A q \in Saves : save[q].scope = "org" => save[q].st \notin {"second", "last"}
      BY <1>0, <1>8
  <2> QED BY <2>1 DEF CredInv, VaultOK
<1>14. \A c \in Scopes : row'[c].validated => row'[c].there
    BY DEF CredInv
<1> QED BY <1>9, <1>10, <1>11, <1>12, <1>13, <1>14 DEF CredInv

\* A request that is not amidst its writes leaves what the vault holds.
LEMMA VaultKept ==
    ASSUME CredInv, NEW r \in Saves, NEW q, save' = [save EXCEPT ![r] = q],
           vault'["org"] = vault["org"], row'["org"] = row["org"], clash["org"] => clash'["org"],
           save[r].scope = "org" => save[r].st \notin {"second", "last"}
    PROVE  VaultOK'
<1>1. \A d \in Saves : d # r => save'[d] = save[d]
    BY VaultFields
<1>2. (\A d \in Saves : save'[d].scope = "org" => save'[d].st \notin {"second", "last"}) =>
          \A d \in Saves : save[d].scope = "org" => save[d].st \notin {"second", "last"}
    BY <1>1
<1> QED BY <1>2 DEF CredInv, VaultOK

\* A request that moves on without touching the stores.
LEMMA QuietMoves ==
    ASSUME CredInv, NEW r \in Saves, NEW q \in Request, save' = [save EXCEPT ![r] = q],
           UNCHANGED <<vault, row, clash>>, KeptUser(q.got), RequestOK(q),
           Busy(q) => Busy(save[r]) /\ q.scope = save[r].scope /\ (save[r].over => q.over),
           save[r].scope = "org" => save[r].st \notin {"second", "last"},
           q.scope = "org" /\ ~q.over =>
              LoneSave(q, vault["org"], row["org"]) /\ LoneLoad(q, row["org"])
    PROVE  CredInv'
<1>1. VaultOK'
    BY VaultKept
<1>2. \A c \in Scopes : KeptUser(vault'[c]) /\ (row'[c].validated => row'[c].there)
    BY UsersKept DEF CredInv
<1> QED BY <1>1, <1>2, VaultFields, RequestMoves

\* A request is over, with the stores as they are.
LEMMA RequestGone ==
    ASSUME CredInv, NEW r \in Saves, Gone(r), UNCHANGED <<vault, row>>,
           clash' \in [Scopes -> BOOLEAN], VaultOK'
    PROVE  CredInv'
<1> DEFINE q == [Fresh EXCEPT !.st = "done"]
<1>1. save' = [save EXCEPT ![r] = q]
    BY DEF Gone
<1>2. q \in Request /\ q.st = "done" /\ q.got = Empty /\ q.via = "none"
    BY FreshShape
<1> HIDE DEF q
<1>3. RequestOK(q) /\ ~Busy(q) /\ KeptUser(q.got)
    BY <1>2, EmptyShape DEF RequestOK, Busy
<1>4. LoneSave(q, vault'["org"], row'["org"]) /\ LoneLoad(q, row'["org"])
    BY <1>2 DEF LoneSave, LoneLoad
<1>5. \A c \in Scopes : KeptUser(vault'[c]) /\ (row'[c].validated => row'[c].there)
    BY UsersKept DEF CredInv
<1> QED BY <1>1, <1>2, <1>3, <1>4, <1>5, VaultFields, RequestMoves

\* A save that ends without writing.
LEMMA GoneQuietly ==
    ASSUME CredInv, NEW r \in Saves, Gone(r), UNCHANGED <<vault, row, clash>>,
           save[r].scope = "org" => save[r].st \notin {"second", "last"}
    PROVE  CredInv'
<1>1. VaultOK'
    BY VaultKept DEF Gone
<1> QED BY <1>1, VaultFields, RequestGone

\* A save comes in with the fields that were typed.
LEMMA RequestsArrive ==
    ASSUME CredInv, NEW r \in Saves,
           \/ \E u \in WazuhUsers, typed \in Forms :
                 put_wazuh_credentials(r, u, typed) \/ put_wazuh_topology(r, u, typed)
           \/ \E u \in WazuhUsers, update \in BOOLEAN, skip \in BOOLEAN : bootstrap_organization(r, u, update, skip)
           \/ get_wazuh_connection(r)
    PROVE  CredInv'
<1>1. CASE \E u \in WazuhUsers, typed \in Forms :
              put_wazuh_credentials(r, u, typed) \/ put_wazuh_topology(r, u, typed)
  <2>1. PICK u \in WazuhUsers, typed \in Forms :
           put_wazuh_credentials(r, u, typed) \/ put_wazuh_topology(r, u, typed)
      BY <1>1
  <2>2. u \in Someone /\ typed \in SUBSET Sides
      BY CredentialsAssumption DEF Someone, Sides
  <2>3. CASE put_wazuh_credentials(r, u, typed)
    <3> DEFINE f == [Fresh EXCEPT !.st = "resolve indexer", !.via = "api", !.user = u, !.typed = typed]
    <3>1. Arrive(r, f) /\ UNCHANGED <<vault, row, clash>>
        BY <2>3 DEF put_wazuh_credentials
    <3>2. f \in Request /\ f.st = "resolve indexer" /\ f.via = "api" /\ f.got = Empty
        BY <2>2, FreshShape DEF Request
    <3> HIDE DEF f
    <3>3. RequestOK(f) /\ Busy(f) /\ KeptUser(f.got)
        BY <3>2, EmptyShape DEF RequestOK, Busy
    <3>4. LoneSave(f, vault["org"], row["org"]) /\ LoneLoad(f, row["org"])
        BY <3>2 DEF LoneSave, LoneLoad
    <3> QED BY <3>1, <3>2, <3>3, <3>4, RequestArrives
  <2>4. CASE put_wazuh_topology(r, u, typed)
    <3> DEFINE f == [Fresh EXCEPT !.st = "resolve indexer", !.via = "api", !.scope = "install",
                                  !.user = u, !.typed = typed]
    <3>1. Arrive(r, f) /\ UNCHANGED <<vault, row, clash>>
        BY <2>4 DEF put_wazuh_topology
    <3>2. f \in Request /\ f.st = "resolve indexer" /\ f.via = "api" /\ f.got = Empty
        BY <2>2, FreshShape DEF Request, Scopes
    <3> HIDE DEF f
    <3>3. RequestOK(f) /\ Busy(f) /\ KeptUser(f.got)
        BY <3>2, EmptyShape DEF RequestOK, Busy
    <3>4. LoneSave(f, vault["org"], row["org"]) /\ LoneLoad(f, row["org"])
        BY <3>2 DEF LoneSave, LoneLoad
    <3> QED BY <3>1, <3>2, <3>3, <3>4, RequestArrives
  <2> QED BY <2>1, <2>3, <2>4
<1>2. CASE \E u \in WazuhUsers, update \in BOOLEAN, skip \in BOOLEAN : bootstrap_organization(r, u, update, skip)
  <2>1. PICK u \in WazuhUsers, update \in BOOLEAN, skip \in BOOLEAN : bootstrap_organization(r, u, update, skip)
      BY <1>2
  <2> DEFINE g == [s \in DOMAIN Empty |-> TypedCred(u, r)]
             st == IF skip THEN "write" ELSE "probe"
             f == [Fresh EXCEPT !.st = st, !.via = "cli", !.typed = {"indexer", "api"}, !.got = g]
  <2>2. Arrive(r, f) /\ UNCHANGED <<vault, row, clash>>
      BY <2>1 DEF bootstrap_organization
  <2>3. u \in Someone /\ r \in 0..MaxSaves
      BY CredentialsAssumption DEF Someone, Saves
  <2>4. g \in Creds /\ KeptUser(g)
      BY <2>3, EmptyShape DEF Creds, KeptUser
  <2>5. st \in {"write", "probe"}
      OBVIOUS
  <2> HIDE DEF g, st
  <2>6. f \in Request /\ f.st = st /\ f.via = "cli" /\ f.got = g /\ f.scope = "org" /\ f.typed = Sides
      BY <2>4, <2>5, FreshShape DEF Request, Sides
  <2> HIDE DEF f
  <2>7. RequestOK(f) /\ Busy(f) /\ f.st \notin {"second", "last"}
      BY <2>5, <2>6 DEF RequestOK, Busy
  <2>8. LoneSave(f, vault["org"], row["org"]) /\ LoneLoad(f, row["org"])
      BY <2>5, <2>6 DEF LoneSave, LoneLoad
  <2> QED BY <2>2, <2>4, <2>6, <2>7, <2>8, RequestArrives
<1>3. CASE get_wazuh_connection(r)
  <2> DEFINE ok == row["org"].validated
             f == [Fresh EXCEPT !.st = "load indexer", !.via = "tool", !.ok = ok, !.seen = row["org"].seen]
  <2>1. Arrive(r, f) /\ UNCHANGED <<vault, row, clash>>
      BY <1>3 DEF get_wazuh_connection
  <2>2. ok \in BOOLEAN /\ row["org"].seen \in Creds /\ (ok => row["org"].validated)
      BY VaultFields DEF Scopes
  <2> HIDE DEF ok
  <2>3. f \in Request /\ f.st = "load indexer" /\ f.via = "tool" /\ f.got = Empty /\ f.scope = "org"
        /\ f.seen = row["org"].seen
      BY <2>2, FreshShape DEF Request
  <2>4. f.ok = ok
      BY FreshShape DEF Request
  <2> HIDE DEF f
  <2>5. RequestOK(f) /\ Busy(f) /\ KeptUser(f.got)
      BY <2>3, EmptyShape DEF RequestOK, Busy
  <2>6. LoneSave(f, vault["org"], row["org"]) /\ LoneLoad(f, row["org"])
      BY <2>2, <2>3, <2>4 DEF LoneSave, LoneLoad
  <2> QED BY <2>1, <2>3, <2>5, <2>6, RequestArrives
<1> QED BY <1>1, <1>2, <1>3

-----------------------------------------------------------------------------
(* Wazuh credentials: the steps of a request.                              *)

\* A password resolved is one of the vault's or was typed for the user entered.
LEMMA ResolvedShape ==
    ASSUME CredInv, NEW r \in Saves, NEW s \in Sides,
           NEW c, c \in {_resolve_credential(r, s), _resolve_admin_credential(r, s)}
    PROVE  /\ c \in Cred /\ c.u = c.for
           /\ c = _resolve_credential(r, s) /\ c # NoCred /\ s \notin save[r].typed => vault["org"][s] = c
<1>0. save[r].user \in Someone
    BY SaveFields
<1>1. r \in 0..MaxSaves
    BY CredentialsAssumption DEF Saves
<1>2. TypedCred(save[r].user, r) \in Cred /\ TypedCred(save[r].user, r).u = TypedCred(save[r].user, r).for
    BY <1>0, <1>1, EmptyShape
<1>3. /\ vault["org"][s] \in Cred /\ vault["org"][s].u = vault["org"][s].for
      /\ vault["install"][s] \in Cred /\ vault["install"][s].u = vault["install"][s].for
    BY VaultFields DEF Creds, KeptUser
<1>4. NoCred \in Cred /\ NoCred.u = NoCred.for
    BY EmptyShape DEF NoCred
<1> QED BY <1>2, <1>3, <1>4 DEF _resolve_credential, _resolve_admin_credential

\* A blank password is read from the store, of the user that was asked for.
LEMMA RequestResolves ==
    ASSUME CredInv, NEW r \in Saves, NEW at, NEW s, NEW next, Resolve(r, at, s, next),
           \/ at = "resolve indexer" /\ s = "indexer" /\ next = "resolve api"
           \/ at = "resolve api" /\ s = "api" /\ next = "probe"
    PROVE  CredInv'
<1> DEFINE c == IF save[r].scope = "org" THEN _resolve_credential(r, s) ELSE _resolve_admin_credential(r, s)
           w == IF next = "probe" THEN NoOne ELSE save[r].user
           g == [save[r].got EXCEPT ![s] = c]
           q == [save[r] EXCEPT !.st = next, !.got = g, !.user = w]
<1>1. save[r] \in Request /\ save[r].st = at /\ s \in Sides /\ UNCHANGED <<vault, row, clash>>
    BY SaveFields DEF Resolve, Sides
<1>2. c \in Cred /\ c.u = c.for
      /\ (save[r].scope = "org" /\ c # NoCred /\ s \notin save[r].typed => vault["org"][s] = c)
    BY <1>1, ResolvedShape
<1>3. IF c = NoCred THEN Gone(r)
      ELSE save' = [save EXCEPT ![r].st = next, ![r].got[s] = c,
                                ![r].user = IF next = "probe" THEN NoOne ELSE @]
    BY DEF Resolve
<1>4. w \in Someone
    BY <1>1 DEF Request, Someone
<1> HIDE DEF c
<1>5. CASE c = NoCred
    BY <1>1, <1>3, <1>5, GoneQuietly
<1>6. CASE c # NoCred
  <2>1. g \in Creds /\ g[s] = c /\ \A x \in Sides : x # s => g[x] = save[r].got[x]
      BY <1>1, <1>2 DEF Request, Creds
  <2>2. save' = [save EXCEPT ![r] = q]
      BY <1>1, <1>3, <1>6, VaultFields DEF Request
  <2> HIDE DEF g, w
  <2>3. q \in Request /\ q.st = next /\ q.via = save[r].via /\ q.scope = save[r].scope
        /\ q.typed = save[r].typed /\ q.got = g
      BY <1>1, <1>4, <2>1 DEF Request
  <2>4. q.over = save[r].over
      BY <1>1 DEF Request
  <2> HIDE DEF q
  <2>5. KeptUser(q.got)
      BY <1>2, <2>1, <2>3, SaveFields DEF KeptUser
  <2>6. RequestOK(save[r]) /\ save[r].via = "api" /\ Busy(save[r])
      BY <1>1, SaveFields DEF RequestOK, Busy
  <2>7. RequestOK(q) /\ q.via = "api"
      BY <2>3, <2>6 DEF RequestOK
  <2>8. ASSUME q.scope = "org", ~q.over
        PROVE  LoneSave(q, vault["org"], row["org"]) /\ LoneLoad(q, row["org"])
    <3>1. LoneSave(save[r], vault["org"], row["org"])
        BY <2>3, <2>4, <2>8 DEF CredInv, SaveOK
    <3> QED BY <1>1, <1>2, <1>6, <2>1, <2>3, <2>6, <2>8, <3>1 DEF LoneSave, LoneLoad, Sides
  <2> QED BY <1>1, <2>2, <2>3, <2>4, <2>5, <2>6, <2>7, <2>8, QuietMoves
<1> QED BY <1>5, <1>6

\* A request that got further without having resolved anything else.
LEMMA RequestProbes ==
    ASSUME CredInv, NEW r \in Saves, Probe(r)
    PROVE  CredInv'
<1>1. save[r] \in Request /\ save[r].st = "probe" /\ UNCHANGED <<vault, row, clash>>
      /\ (Gone(r) \/ \E ok \in BOOLEAN : save' = [save EXCEPT ![r].st = "write", ![r].ok = ok])
    BY SaveFields DEF Probe, probe_org_credentials, _probe_topology, _validate_wazuh_connection
<1>2. CASE Gone(r)
    BY <1>1, <1>2, GoneQuietly
<1>3. CASE \E ok \in BOOLEAN : save' = [save EXCEPT ![r].st = "write", ![r].ok = ok]
  <2>1. PICK ok \in BOOLEAN : save' = [save EXCEPT ![r].st = "write", ![r].ok = ok]
      BY <1>3
  <2> DEFINE q == [save[r] EXCEPT !.st = "write", !.ok = ok]
  <2>2. save' = [save EXCEPT ![r] = q]
      BY <1>1, <2>1, VaultFields DEF Request
  <2>3. q \in Request /\ q.st = "write" /\ q.via = save[r].via /\ q.scope = save[r].scope
        /\ q.typed = save[r].typed /\ q.got = save[r].got
      BY <1>1 DEF Request
  <2>4. q.over = save[r].over
      BY <1>1 DEF Request
  <2> HIDE DEF q
  <2>5. RequestOK(q) /\ Busy(save[r]) /\ KeptUser(q.got)
      BY <1>1, <2>3, SaveFields DEF RequestOK, Busy
  <2>6. ASSUME q.scope = "org", ~q.over
        PROVE  LoneSave(q, vault["org"], row["org"]) /\ LoneLoad(q, row["org"])
    <3>1. LoneSave(save[r], vault["org"], row["org"])
        BY <2>3, <2>4, <2>6 DEF CredInv, SaveOK
    <3> QED BY <1>1, <2>3, <3>1 DEF LoneSave, LoneLoad
  <2> QED BY <1>1, <2>2, <2>3, <2>4, <2>5, <2>6, QuietMoves
<1> QED BY <1>1, <1>2, <1>3

\* A tool call loads a secret.
LEMMA RequestLoads ==
    ASSUME CredInv, NEW r \in Saves, NEW at, NEW s, NEW next, _load_credential_blob(r, at, s, next),
           \/ at = "load indexer" /\ s = "indexer" /\ next = "load api"
           \/ at = "load api" /\ s = "api" /\ next = "open"
    PROVE  CredInv'
<1> DEFINE c == vault["org"][s]
           o == save[r].over \/ clash["org"]
           g == [save[r].got EXCEPT ![s] = c]
           q == [save[r] EXCEPT !.st = next, !.got = g, !.over = o]
<1>1. save[r] \in Request /\ save[r].st = at /\ s \in Sides /\ UNCHANGED <<vault, row, clash>>
    BY SaveFields DEF _load_credential_blob, Sides
<1>2. c \in Cred /\ c.u = c.for /\ o \in BOOLEAN
    BY <1>1, VaultFields DEF Creds, KeptUser
<1>3. IF c = NoCred THEN Gone(r)
      ELSE save' = [save EXCEPT ![r].st = next, ![r].got[s] = c, ![r].over = @ \/ clash["org"]]
    BY DEF _load_credential_blob
<1>4. CASE c = NoCred
    BY <1>1, <1>3, <1>4, GoneQuietly
<1>5. CASE c # NoCred
  <2>1. g \in Creds /\ g[s] = c /\ \A x \in Sides : x # s => g[x] = save[r].got[x]
      BY <1>1, <1>2 DEF Request, Creds
  <2>2. save' = [save EXCEPT ![r] = q]
      BY <1>1, <1>3, <1>5, VaultFields DEF Request
  <2>3. (save[r].over => o) /\ (clash["org"] => o)
      OBVIOUS
  <2> HIDE DEF g, o
  <2>4. q \in Request /\ q.st = next /\ q.via = save[r].via /\ q.scope = save[r].scope
        /\ q.typed = save[r].typed /\ q.got = g /\ q.seen = save[r].seen
      BY <1>1, <1>2, <2>1 DEF Request
  <2>5. q.over = o
      BY <1>1, <1>2 DEF Request
  <2>6. q.ok = save[r].ok
      BY <1>1 DEF Request
  <2> HIDE DEF q
  <2>7. KeptUser(q.got)
      BY <1>2, <2>1, <2>4, SaveFields DEF KeptUser
  <2>8. RequestOK(save[r]) /\ save[r].via = "tool" /\ save[r].scope = "org" /\ Busy(save[r])
      BY <1>1, SaveFields DEF RequestOK, Busy
  <2>9. RequestOK(q) /\ q.via = "tool" /\ q.scope = "org"
      BY <2>4, <2>8 DEF RequestOK
  <2>10. ASSUME ~q.over
         PROVE  LoneSave(q, vault["org"], row["org"]) /\ LoneLoad(q, row["org"])
    <3>1. ~save[r].over /\ ~clash["org"]
        BY <2>3, <2>5, <2>10
    <3>2. LoneLoad(save[r], row["org"])
        BY <2>8, <3>1 DEF CredInv, SaveOK
    <3>3. (save[r].ok => row["org"].validated) /\ save[r].seen = row["org"].seen
        BY <1>1, <3>2 DEF LoneLoad
    <3>4. \A d \in Saves : save[d].scope = "org" => save[d].st \notin {"second", "last"}
      <4> SUFFICES ASSUME NEW d \in Saves, save[d].scope = "org", save[d].st \in {"second", "last"} PROVE FALSE
          OBVIOUS
      <4>1. d # r /\ Busy(save[d])
          BY <1>1 DEF Busy
      <4> QED BY <2>8, <3>1, <4>1 DEF CredInv, MetOK
    <3>5. save[r].ok => vault["org"] = row["org"].seen
        BY <3>1, <3>3, <3>4 DEF CredInv, VaultOK
    <3>6. (q.st = "load api" /\ q.ok => q.got["indexer"] = q.seen["indexer"])
        BY <1>1, <2>1, <2>4, <2>6, <3>3, <3>5
    <3>7. (q.st = "open" /\ q.ok => q.got = q.seen)
      <4> SUFFICES ASSUME q.st = "open", q.ok PROVE g = q.seen
          BY <2>4
      <4>1. save[r].st = "load api" /\ s = "api" /\ save[r].ok
          BY <1>1, <2>4, <2>6
      <4>2. g["indexer"] = q.seen["indexer"]
          BY <2>1, <2>4, <3>2, <4>1 DEF LoneLoad, Sides
      <4>3. g["api"] = q.seen["api"]
          BY <2>1, <2>4, <3>3, <3>5, <4>1
      <4>4. q.seen \in Creds
          BY <2>4 DEF Request
      <4>5. \A x \in Sides : g[x] = q.seen[x]
          BY <4>2, <4>3 DEF Sides
      <4> QED BY <2>1, <4>4, <4>5, SameCreds
    <3> QED BY <1>1, <2>4, <2>6, <2>9, <3>3, <3>6, <3>7 DEF LoneSave, LoneLoad
  <2> QED BY <1>1, <2>2, <2>3, <2>4, <2>5, <2>7, <2>8, <2>9, <2>10, QuietMoves
<1> QED BY <1>4, <1>5

\* A tool call is over, or a request is cut off.
LEMMA RequestEnds ==
    ASSUME CredInv, NEW r \in Saves, Disconnects(r) \/ CutOff(r)
    PROVE  CredInv'
<1>1. CASE Disconnects(r)
    BY <1>1, GoneQuietly DEF Disconnects
<1>2. CASE CutOff(r)
  <2> DEFINE b == save[r].st \in {"write", "second", "last"}
             o == clash[save[r].scope] \/ b
  <2>1. Gone(r) /\ UNCHANGED <<vault, row>> /\ save[r].scope \in Scopes /\ clash \in [Scopes -> BOOLEAN]
      BY <1>2, SaveFields, VaultFields DEF CutOff
  <2>2. clash' = [clash EXCEPT ![save[r].scope] = o]
      BY <1>2 DEF CutOff
  <2>3. o \in BOOLEAN /\ (clash[save[r].scope] => o) /\ (save[r].st \in {"second", "last"} => o)
      BY <2>1
  <2> HIDE DEF o, b
  <2>4. clash' \in [Scopes -> BOOLEAN] /\ (clash["org"] => clash'["org"])
        /\ (save[r].scope = "org" /\ save[r].st \in {"second", "last"} => clash'["org"])
      BY <2>1, <2>2, <2>3 DEF Scopes
  <2>5. VaultOK'
    <3>1. CASE save[r].scope = "org" /\ save[r].st \in {"second", "last"}
        BY <2>4, <3>1 DEF VaultOK
    <3>2. CASE ~(save[r].scope = "org" /\ save[r].st \in {"second", "last"})
        BY <2>1, <2>4, <3>2, VaultKept DEF Gone
    <3> QED BY <3>1, <3>2
  <2> QED BY <2>1, <2>4, <2>5, RequestGone
<1> QED BY <1>1, <1>2

-----------------------------------------------------------------------------
(* Wazuh credentials: the writes of a save.                                *)

\* Writing one secret of a scope leaves the others.
LEMMA SecretWritten ==
    ASSUME CredInv, NEW r \in Saves, NEW s \in Sides, SetSecret(r, s)
    PROVE  /\ vault' \in [Scopes -> Creds] /\ \A c \in Scopes : KeptUser(vault'[c])
           /\ save[r].scope = "install" => vault'["org"] = vault["org"]
           /\ s \notin save[r].typed => vault' = vault
           /\ save[r].scope = "org" /\ s \in save[r].typed => vault'["org"][s] = save[r].got[s]
           /\ \A x \in Sides : x # s => vault'["org"][x] = vault["org"][x]
<1>0. \A c \in Scopes : KeptUser(vault[c])
    BY UsersKept DEF CredInv
<1>1. CASE s \notin save[r].typed
    BY <1>0, <1>1, VaultFields DEF SetSecret
<1>2. CASE s \in save[r].typed
  <2> DEFINE c == save[r].scope
             g == [vault[c] EXCEPT ![s] = save[r].got[s]]
  <2>1. c \in Scopes /\ vault \in [Scopes -> Creds] /\ vault[c] \in Creds /\ KeptUser(vault[c])
        /\ save[r].got \in Creds /\ KeptUser(save[r].got)
      BY <1>0, VaultFields, SaveFields
  <2>2. g \in Creds /\ g[s] = save[r].got[s] /\ \A x \in Sides : x # s => g[x] = vault[c][x]
      BY <2>1 DEF Creds
  <2>3. KeptUser(g)
      BY <2>1, <2>2 DEF KeptUser
  <2>4. vault' = [vault EXCEPT ![c] = g]
      BY <1>2, <2>1 DEF SetSecret
  <2> HIDE DEF g, c
  <2>5. vault' \in [Scopes -> Creds] /\ vault'[c] = g /\ \A d \in Scopes : d # c => vault'[d] = vault[d]
      BY <2>1, <2>2, <2>4
  <2>6. \A d \in Scopes : KeptUser(vault'[d])
      BY <1>0, <2>3, <2>5
  <2>7. "org" \in Scopes
      BY DEF Scopes
  <2> QED BY <1>2, <2>2, <2>5, <2>6, <2>7 DEF c
<1> QED BY <1>1, <1>2

\* The row a save commits.
LEMMA RowWritten ==
    ASSUME CredInv, NEW r \in Saves
    PROVE  /\ RowOf(r) \in [there : BOOLEAN, validated : BOOLEAN, seen : Creds]
           /\ RowOf(r).there /\ RowOf(r).seen = save[r].got
           /\ [RowOf(r) EXCEPT !.seen = Empty] \in [there : BOOLEAN, validated : BOOLEAN, seen : Creds]
           /\ [RowOf(r) EXCEPT !.seen = Empty].there
<1>0. save[r] \in Request /\ save[r].got \in Creds /\ Empty \in Creds
    BY SaveFields, EmptyShape
<1>1. save[r].ok \in BOOLEAN
    BY <1>0 DEF Request
<1>2. RowOf(r) \in [there : BOOLEAN, validated : BOOLEAN, seen : Creds] /\ RowOf(r).seen = save[r].got
    BY <1>0, <1>1 DEF RowOf
<1>3. RowOf(r).there = TRUE
    BY DEF RowOf
<1>4. [RowOf(r) EXCEPT !.seen = Empty] \in [there : BOOLEAN, validated : BOOLEAN, seen : Creds]
    BY <1>0, <1>2
<1>5. [RowOf(r) EXCEPT !.seen = Empty].there = TRUE
    BY DEF RowOf
<1> QED BY <1>2, <1>3, <1>4, <1>5

\* A save that goes on after one of its writes.
LEMMA SaveGoesOn ==
    ASSUME CredInv, NEW r \in Saves, NEW next \in {"second", "last"}, Goes(r, next), Busy(save[r]),
           save[r].via # "tool",
           vault' \in [Scopes -> Creds], \A c \in Scopes : KeptUser(vault'[c]),
           row' \in [Scopes -> [there : BOOLEAN, validated : BOOLEAN, seen : Creds]],
           \A c \in Scopes : row'[c].validated => row'[c].there, clash' = clash,
           save[r].scope = "install" => vault'["org"] = vault["org"] /\ row'["org"] = row["org"],
           save[r].scope = "org" /\ ~save[r].over =>
              LoneSave([save[r] EXCEPT !.st = next], vault'["org"], row'["org"])
    PROVE  CredInv'
<1> DEFINE q == [save[r] EXCEPT !.st = next]
<1>1. save[r] \in Request /\ RequestOK(save[r]) /\ save[r].scope \in Scopes
    BY SaveFields
<1>2. save' = [save EXCEPT ![r] = q]
    BY <1>1, VaultFields DEF Goes, Request
<1>3. q \in Request /\ q.st = next /\ q.via = save[r].via /\ q.scope = save[r].scope
      /\ q.typed = save[r].typed /\ q.got = save[r].got
    BY <1>1 DEF Request
<1>4. q.over = save[r].over
    BY <1>1 DEF Request
<1>5. save[r].scope = "org" /\ ~save[r].over => LoneSave(q, vault'["org"], row'["org"])
    OBVIOUS
<1> HIDE DEF q
<1>6. RequestOK(q) /\ KeptUser(q.got) /\ LoneLoad(q, row'["org"])
    BY <1>1, <1>3, SaveFields DEF RequestOK, LoneLoad
<1>7. VaultOK'
  <2>1. CASE save[r].scope = "org"
    <3>1. save'[r].scope = "org" /\ save'[r].st \in {"second", "last"}
        BY <1>2, <1>3, <2>1, VaultFields
    <3> QED BY <3>1 DEF VaultOK
  <2>2. CASE save[r].scope = "install"
      BY <1>2, <2>2, VaultKept
  <2> QED BY <1>1, <2>1, <2>2 DEF Scopes
<1>8. clash' \in [Scopes -> BOOLEAN]
    BY VaultFields
<1>9. \/ Busy(save[r]) /\ save[r].scope = "org"
      \/ vault'["org"] = vault["org"] /\ row'["org"] = row["org"]
    BY <1>1 DEF Scopes
<1> QED BY <1>2, <1>3, <1>4, <1>5, <1>6, <1>7, <1>8, <1>9, RequestMoves

\* A save that ends with its last write.
LEMMA SaveEnds ==
    ASSUME CredInv, NEW r \in Saves, Ends(r), Busy(save[r]),
           vault' \in [Scopes -> Creds], \A c \in Scopes : KeptUser(vault'[c]),
           row' \in [Scopes -> [there : BOOLEAN, validated : BOOLEAN, seen : Creds]],
           \A c \in Scopes : row'[c].validated => row'[c].there,
           save[r].scope = "install" => vault'["org"] = vault["org"] /\ row'["org"] = row["org"],
           save[r].scope = "org" /\ ~save[r].over => vault'["org"] = row'["org"].seen
    PROVE  CredInv'
<1> DEFINE q == [Fresh EXCEPT !.st = "done"]
<1>1. save' = [save EXCEPT ![r] = q] /\ clash' = [clash EXCEPT ![save[r].scope] = save[r].over]
    BY DEF Ends, Gone
<1>2. q \in Request /\ q.st = "done" /\ q.got = Empty /\ q.via = "none"
    BY FreshShape
<1> HIDE DEF q
<1>3. RequestOK(q) /\ ~Busy(q) /\ KeptUser(q.got)
    BY <1>2, EmptyShape DEF RequestOK, Busy
<1>4. LoneSave(q, vault'["org"], row'["org"]) /\ LoneLoad(q, row'["org"])
    BY <1>2 DEF LoneSave, LoneLoad
<1>5. save[r] \in Request /\ save[r].scope \in Scopes
    BY SaveFields
<1>6. save[r].over \in BOOLEAN
    BY <1>5 DEF Request
<1>7. clash' \in [Scopes -> BOOLEAN] /\ (save[r].scope = "install" => clash'["org"] = clash["org"])
    BY <1>1, <1>5, <1>6, VaultFields DEF Scopes
<1>8. save[r].scope = "org" => clash'["org"] = save[r].over
    BY <1>1, <1>5, VaultFields
<1>9. VaultOK'
  <2>1. CASE save[r].scope = "org"
      BY <1>8, <2>1 DEF VaultOK
  <2>2. CASE save[r].scope = "install"
      BY <1>1, <1>7, <2>2, VaultKept
  <2> QED BY <1>5, <2>1, <2>2 DEF Scopes
<1>10. \/ Busy(save[r]) /\ save[r].scope = "org"
       \/ vault'["org"] = vault["org"] /\ row'["org"] = row["org"]
    BY <1>5 DEF Scopes
<1> QED BY <1>1, <1>2, <1>3, <1>4, <1>7, <1>9, <1>10, RequestMoves

\* What a save that met no other knows of the stores when it takes its next step.
LEMMA SaveKnows ==
    ASSUME CredInv, NEW r \in Saves, save[r].scope = "org", ~save[r].over
    PROVE  LoneSave(save[r], vault["org"], row["org"])
BY DEF CredInv, SaveOK

\* The API writes the secrets, then the row.
LEMMA ApiSaves ==
    ASSUME CredInv, NEW r \in Saves, SaveFromApi(r)
    PROVE  CredInv'
<1>0. /\ save[r] \in Request /\ save[r].via = "api" /\ save[r].scope \in Scopes
      /\ \A c \in Scopes : KeptUser(vault[c]) /\ (row[c].validated => row[c].there)
      /\ save[r].typed \in SUBSET Sides
    BY SaveFields, UsersKept DEF SaveFromApi, CredInv
<1>1. ASSUME NEW s \in Sides, NEW next \in {"second", "last"}, SetSecret(r, s), Goes(r, next), UNCHANGED <<row, clash>>,
             \/ save[r].st = "write" /\ s = "indexer" /\ next = "second"
             \/ save[r].st = "second" /\ s = "api" /\ next = "last"
      PROVE  CredInv'
  <2> DEFINE q == [save[r] EXCEPT !.st = next]
  <2>1. q.st = next /\ q.via = "api" /\ q.typed = save[r].typed /\ q.got = save[r].got
      BY <1>0 DEF Request
  <2>2. ASSUME save[r].scope = "org", ~save[r].over
        PROVE  LoneSave(q, vault'["org"], row'["org"])
    <3> HIDE DEF q
    <3>1. LoneSave(save[r], vault["org"], row["org"])
        BY <2>2, SaveKnows
    <3>2. /\ s \notin save[r].typed => vault' = vault
          /\ s \in save[r].typed => vault'["org"][s] = save[r].got[s]
          /\ \A x \in Sides : x # s => vault'["org"][x] = vault["org"][x]
        BY <1>1, <2>2, SecretWritten
    <3> QED BY <1>0, <1>1, <2>1, <3>1, <3>2 DEF LoneSave, Sides
  <2>3. Busy(save[r])
      BY <1>1 DEF Busy
  <2>4. /\ vault' \in [Scopes -> Creds] /\ \A c \in Scopes : KeptUser(vault'[c])
        /\ save[r].scope = "install" => vault'["org"] = vault["org"]
      BY <1>1, SecretWritten
  <2> QED BY <1>0, <1>1, <2>2, <2>3, <2>4, VaultFields, SaveGoesOn
<1>2. ASSUME save[r].st = "last", Ends(r), UNCHANGED vault,
             IF save[r].scope = "org" THEN CommitCredentials(r) ELSE CommitTopology(r)
      PROVE  CredInv'
  <2>1. CASE save[r].scope = "org"
    <3>1. row' = [row EXCEPT !["org"] = RowOf(r)]
        BY <1>2, <2>1 DEF CommitCredentials
    <3>2. /\ row' \in [Scopes -> [there : BOOLEAN, validated : BOOLEAN, seen : Creds]]
          /\ row'["org"] = RowOf(r) /\ \A c \in Scopes : c # "org" => row'[c] = row[c]
        BY <3>1, RowWritten, VaultFields DEF Scopes
    <3>3. \A c \in Scopes : row'[c].validated => row'[c].there
        BY <1>0, <3>2, RowWritten
    <3>4. ASSUME ~save[r].over PROVE vault'["org"] = row'["org"].seen
      <4>1. LoneSave(save[r], vault["org"], row["org"])
          BY <2>1, <3>4, SaveKnows
      <4>2. \A s \in Sides : vault["org"][s] = save[r].got[s]
          BY <1>0, <1>2, <4>1 DEF LoneSave, Sides
      <4>3. vault["org"] = save[r].got
          BY <4>2, SameCreds, VaultFields, SaveFields
      <4> QED BY <1>2, <3>2, <4>3, RowWritten
    <3> QED BY <1>0, <1>2, <2>1, <3>2, <3>3, <3>4, VaultFields, SaveEnds DEF Busy
  <2>2. CASE save[r].scope = "install"
    <3>1. row' = [row EXCEPT !["install"] = [RowOf(r) EXCEPT !.seen = Empty]]
        BY <1>2, <2>2 DEF CommitTopology
    <3>2. /\ row' \in [Scopes -> [there : BOOLEAN, validated : BOOLEAN, seen : Creds]]
          /\ row'["install"] = [RowOf(r) EXCEPT !.seen = Empty]
          /\ \A c \in Scopes : c # "install" => row'[c] = row[c]
        BY <3>1, RowWritten, VaultFields DEF Scopes
    <3>3. (\A c \in Scopes : row'[c].validated => row'[c].there) /\ row'["org"] = row["org"]
        BY <1>0, <3>2, RowWritten DEF Scopes
    <3> QED BY <1>0, <1>2, <2>2, <3>2, <3>3, VaultFields, SaveEnds DEF Busy
  <2> QED BY <1>0, <2>1, <2>2 DEF Scopes
<1>3. "indexer" \in Sides /\ "api" \in Sides
    BY DEF Sides
<1> QED BY <1>1, <1>2, <1>3 DEF SaveFromApi

\* The command writes the row, then the secrets.
LEMMA CommandSaves ==
    ASSUME CredInv, NEW r \in Saves, SaveFromCommand(r)
    PROVE  CredInv'
<1>0. /\ save[r] \in Request /\ save[r].via = "cli" /\ save[r].scope = "org" /\ save[r].typed = Sides
      /\ \A c \in Scopes : KeptUser(vault[c]) /\ (row[c].validated => row[c].there)
      /\ "indexer" \in Sides /\ "api" \in Sides
    BY SaveFields, UsersKept DEF SaveFromCommand, CredInv, RequestOK, Sides
<1>1. ASSUME save[r].st = "write", _upsert_wazuh_config(r), Goes(r, "second"), UNCHANGED <<vault, clash>>
      PROVE  CredInv'
  <2> DEFINE q == [save[r] EXCEPT !.st = "second"]
  <2>1. q.st = "second" /\ q.via = "cli" /\ q.got = save[r].got
      BY <1>0 DEF Request
  <2>2. /\ row' \in [Scopes -> [there : BOOLEAN, validated : BOOLEAN, seen : Creds]]
        /\ row'["org"] = RowOf(r) /\ \A c \in Scopes : c # "org" => row'[c] = row[c]
      BY <1>1, RowWritten, VaultFields DEF Scopes, _upsert_wazuh_config
  <2>3. \A c \in Scopes : row'[c].validated => row'[c].there
      BY <1>0, <2>2, RowWritten
  <2>4. LoneSave(q, vault'["org"], row'["org"])
    <3> HIDE DEF q
    <3> QED BY <2>1, <2>2, RowWritten DEF LoneSave
  <2> QED BY <1>0, <1>1, <2>2, <2>3, <2>4, VaultFields, SaveGoesOn DEF Busy
<1>2. ASSUME save[r].st = "second", SetSecret(r, "indexer"), Goes(r, "last"), UNCHANGED <<row, clash>>
      PROVE  CredInv'
  <2> DEFINE q == [save[r] EXCEPT !.st = "last"]
  <2>1. q.st = "last" /\ q.via = "cli" /\ q.got = save[r].got
      BY <1>0 DEF Request
  <2>2. /\ vault' \in [Scopes -> Creds] /\ \A c \in Scopes : KeptUser(vault'[c])
        /\ vault'["org"]["indexer"] = save[r].got["indexer"]
      BY <1>0, <1>2, SecretWritten
  <2>3. ASSUME ~save[r].over PROVE LoneSave(q, vault'["org"], row'["org"])
    <3> HIDE DEF q
    <3>1. row["org"].seen = save[r].got
        BY <1>0, <1>2, <2>3, SaveKnows DEF LoneSave
    <3> QED BY <1>2, <2>1, <2>2, <3>1 DEF LoneSave
  <2> QED BY <1>0, <1>2, <2>2, <2>3, VaultFields, SaveGoesOn DEF Busy
<1>3. ASSUME save[r].st = "last", SetSecret(r, "api"), Ends(r), UNCHANGED row
      PROVE  CredInv'
  <2>1. /\ vault' \in [Scopes -> Creds] /\ \A c \in Scopes : KeptUser(vault'[c])
        /\ vault'["org"]["api"] = save[r].got["api"] /\ vault'["org"]["indexer"] = vault["org"]["indexer"]
      BY <1>0, <1>3, SecretWritten
  <2>2. ASSUME ~save[r].over PROVE vault'["org"] = row'["org"].seen
    <3>1. row["org"].seen = save[r].got /\ vault["org"]["indexer"] = save[r].got["indexer"]
        BY <1>0, <1>3, <2>2, SaveKnows DEF LoneSave
    <3>2. \A s \in Sides : vault'["org"][s] = save[r].got[s]
        BY <2>1, <3>1 DEF Sides
    <3>3. vault'["org"] \in Creds /\ save[r].got \in Creds
        BY <2>1, SaveFields DEF Scopes
    <3> QED BY <1>3, <3>1, <3>2, <3>3, SameCreds
  <2> QED BY <1>0, <1>3, <2>1, <2>2, VaultFields, SaveEnds DEF Busy
<1> QED BY <1>1, <1>2, <1>3 DEF SaveFromCommand

-----------------------------------------------------------------------------
(* Wazuh credentials: the theorems.                                        *)

\* At first the install has credentials or none, and the organization none.
LEMMA CredInit == WInit => CredInv
<1> SUFFICES ASSUME WInit PROVE CredInv
    OBVIOUS
<1> DEFINE one == CHOOSE u \in WazuhUsers : TRUE
           set0 == [s \in DOMAIN Empty |-> TypedCred(one, 0)]
<1>1. one \in Someone /\ 0 \in 0..MaxSaves
    BY CredentialsAssumption DEF Someone
<1> HIDE DEF one
<1>2. set0 \in Creds /\ KeptUser(set0)
    BY <1>1, EmptyShape DEF Creds, KeptUser
<1> HIDE DEF set0
<1>3. PICK creds \in {Empty, set0} :
         /\ vault = [c \in Scopes |-> IF c = "install" THEN creds ELSE Empty]
         /\ row = [c \in Scopes |-> LET there == c = "install" /\ creds # Empty IN
                                    [there |-> there, validated |-> there, seen |-> Empty]]
    BY DEF WInit, set0, one
<1>4. creds \in Creds /\ KeptUser(creds)
    BY <1>2, <1>3, EmptyShape
<1>5. save = [r \in Saves |-> Fresh] /\ clash = [c \in Scopes |-> FALSE]
    BY DEF WInit
<1>6. vault \in [Scopes -> Creds] /\ \A c \in Scopes : KeptUser(vault[c])
    BY <1>3, <1>4, EmptyShape
<1>7. row \in [Scopes -> [there : BOOLEAN, validated : BOOLEAN, seen : Creds]]
    BY <1>3, EmptyShape
<1>8. \A c \in Scopes : row[c].validated = row[c].there /\ row[c].there = (c = "install" /\ creds # Empty)
    BY <1>3
<1>9. save \in [Saves -> Request] /\ clash \in [Scopes -> BOOLEAN]
    BY <1>5, FreshShape
<1>10. \A r \in Saves : save[r] = Fresh
    BY <1>5
<1>11. PasswordsKeepTheirUser
    BY <1>6, <1>10, UsersKept, FreshShape, EmptyShape
<1>12. \A r \in Saves : SaveOK(r)
    BY <1>10, FreshShape DEF SaveOK, RequestOK, LoneSave, LoneLoad
<1>13. \A q, r \in Saves : MetOK(q, r)
    BY <1>10, FreshShape DEF MetOK, Busy
<1>14. ~row["org"].validated
    BY <1>8 DEF Scopes
<1> QED BY <1>6, <1>7, <1>8, <1>9, <1>11, <1>12, <1>13, <1>14 DEF CredInv, CredShapes, VaultOK

\* Every step of a save keeps the invariant.
LEMMA CredKept == CredInv /\ [WNext]_wvars => CredInv'
<1> SUFFICES ASSUME CredInv, [WNext]_wvars PROVE CredInv'
    OBVIOUS
<1>1. CASE UNCHANGED wvars
    BY <1>1 DEF wvars, CredInv, CredShapes, PasswordsKeepTheirUser, SaveOK, MetOK, VaultOK
<1>2. CASE WNext
  <2>1. PICK r \in Saves :
        \/ \E u \in WazuhUsers :
              \/ \E typed \in Forms :
                    put_wazuh_credentials(r, u, typed) \/ put_wazuh_topology(r, u, typed)
              \/ \E update \in BOOLEAN, skip \in BOOLEAN : bootstrap_organization(r, u, update, skip)
        \/ Resolve(r, "resolve indexer", "indexer", "resolve api")
        \/ Resolve(r, "resolve api", "api", "probe")
        \/ Probe(r) \/ SaveFromApi(r) \/ SaveFromCommand(r) \/ CutOff(r)
        \/ Disconnects(r) \/ get_wazuh_connection(r)
        \/ _load_credential_blob(r, "load indexer", "indexer", "load api")
        \/ _load_credential_blob(r, "load api", "api", "open")
      BY <1>2 DEF WNext
  <2> QED BY <2>1, RequestsArrive, RequestResolves, RequestProbes, ApiSaves, CommandSaves,
             RequestEnds, RequestLoads
<1> QED BY <1>1, <1>2

\* Saving Wazuh credentials never pairs a password with another user than the
\* one it was typed for, in the vault or in what a request has resolved: for
\* every number of requests, however they overlap and wherever they are cut off.
THEOREM PasswordsStayWithTheirUser == OpsSpec => []PasswordsKeepTheirUser
<1>1. CredInv => PasswordsKeepTheirUser
    BY DEF CredInv
<1> QED BY <1>1, PartsOfOperations, CredInit, CredKept, PTL

\* A tool call connects to the Wazuh of a validated organization with the
\* credentials that were probed when it was stamped, unless it overlapped a
\* save, or saves overlapped or one was cut off and none was made alone since.
THEOREM ConnectionsAreValidated == OpsSpec => []ConnectsAsValidated
<1>1. CredInv => ConnectsAsValidated
  <2> SUFFICES ASSUME CredInv, NEW r \in Saves, save[r].st = "open", save[r].ok, ~save[r].over
               PROVE  save[r].got = save[r].seen
      BY DEF ConnectsAsValidated
  <2>1. save[r].scope = "org" /\ SaveOK(r)
      BY SaveFields DEF RequestOK
  <2> QED BY <2>1 DEF SaveOK, LoneLoad
<1> QED BY <1>1, PartsOfOperations, CredInit, CredKept, PTL

-----------------------------------------------------------------------------
(* The knowledge store: the inductive invariant.                           *)

Embedders == UNION {{s[c] : c \in Columns} : s \in Stacks}
Widths == UNION {{Width(s, c) : c \in Columns} : s \in Stacks}
Flags == [retype : BOOLEAN, reembed_nulls : BOOLEAN, restore_not_null : BOOLEAN, build_index : BOOLEAN]
Column == [dim : Widths, notnull : BOOLEAN, index : {"none", "cosine", "bq"}]
Pass ==
    [cmd : {"idle", "reembed", "schema"}, stack : Stacks \cup {NULL}, col : Columns,
     owners : SUBSET {Owner[i] : i \in Chunks}, force : BOOLEAN, last : Nat, batch : SUBSET Chunks,
     plan : [Columns -> Flags] \cup {NULL}, failed : BOOLEAN,
     at : {"none", "retype", "fill", "finalize"}, exact : BOOLEAN]

StoreShapes ==
    /\ DOMAIN chunk = Chunks /\ \A i \in Rows : DOMAIN chunk[i] = Columns
    /\ column \in [Columns -> Column]
    /\ stack \in Stacks /\ seeding \in Stacks \cup {NULL} /\ settled \in Stacks \cup {NULL}
    /\ pass \in Pass
    /\ swept \in [Columns -> [by : Embedders \cup {NULL}, exact : BOOLEAN]]

NoModel == {NULL, RETYPED_STAMP, AUX_UNEMBEDDABLE_SENTINEL}

\* A vector x of column c, whose state is k: its stamp names its model and none
\* of the stamps that stand for no model does; the primary's stamp is NOT NULL
\* and never the auxiliary's sentinel, so a missing primary vector is one that
\* embedding_schema will find.
CellOK(x, k, c) ==
    /\ x.vec # NULL => x.stamp = x.vec.id /\ x.vec.dim = k.dim /\ x.stamp \notin NoModel
    /\ x.vec = NULL => x.stamp \in NoModel /\ ~k.notnull
    /\ c = "embedding" => x.stamp \notin {NULL, AUX_UNEMBEDDABLE_SENTINEL}

CellsOK == \A i \in Rows, c \in Columns : CellOK(chunk[i][c], column[c], c)

\* A reembed: the rows it has passed, and the ones seeded among those it is
\* about to write, have vectors of its embedder for as long as it may claim so.
Passed(i) == i <= pass.last \/ (i \notin pass.batch /\ \E j \in pass.batch : i <= j)

ReembedOK ==
    /\ pass.cmd # "reembed" => pass.batch = {}
    /\ pass.cmd = "reembed" =>
          /\ pass.stack \in Stacks /\ pass.stack[pass.col] # NULL
          /\ swept[pass.col].by = NULL /\ pass.batch \subseteq Rows
          /\ pass.exact =>
                /\ pass.force
                /\ \A i \in Rows : Owner[i] \in pass.owners /\ Passed(i) =>
                       Vec(i, pass.col) = pass.stack[pass.col]

\* What a plan leaves alone was in order when it was made and still is; what it
\* re-types it also fills, restores and indexes.
PlanOK(p, k, c, s) ==
    /\ p.retype \/ k.dim = Width(s, c)
    /\ p.build_index \/ k.index = IndexKind(Width(s, c))
    /\ c = "embedding" => p.restore_not_null \/ k.notnull
    /\ p.restore_not_null => c = "embedding"
    /\ p.retype => p.build_index /\ (c = "embedding" => p.restore_not_null /\ p.reembed_nulls)
    /\ p.reembed_nulls => s[c] # NULL

\* The first column is done when embedding_schema is at the second, but for the
\* rows that were rejected.
FirstDone(k, s, failed) ==
    k.dim = Width(s, "embedding") /\ k.index = IndexKind(Width(s, "embedding")) /\ (failed \/ k.notnull)

\* No primary vector is missing among the rows passed, unless one was rejected.
FillOK ==
    pass.col = "embedding" =>
        /\ pass.at = "retype" => pass.last = 0
        /\ ~pass.failed /\ pass.at = "fill" => \A i \in Rows : Vec(i, "embedding") = NULL => i > pass.last
        /\ ~pass.failed /\ pass.at = "finalize" => \A i \in Rows : Vec(i, "embedding") # NULL

SchemaOK ==
    /\ pass.cmd # "schema" => pass.at = "none"
    /\ pass.cmd = "schema" =>
          /\ pass.stack \in Stacks /\ pass.plan \in [Columns -> Flags] /\ settled = NULL
          /\ \A c \in Columns : PlanOK(pass.plan[c], column[c], c, pass.stack)
          /\ pass.at = "retype" => pass.plan[pass.col].retype
          /\ pass.at # "retype" => column[pass.col].dim = Width(pass.stack, pass.col)
          /\ pass.at = "fill" => pass.stack[pass.col] # NULL
          /\ pass.col = "embedding_v2" => FirstDone(column["embedding"], pass.stack, pass.failed)
          /\ FillOK

SettledOK ==
    settled # NULL =>
        /\ FirstDone(column["embedding"], settled, FALSE)
        /\ \A c \in Columns : column[c].dim = Width(settled, c) /\ column[c].index = IndexKind(Width(settled, c))

StoreInv ==
    /\ StoreShapes /\ CellsOK /\ ~column["embedding_v2"].notnull
    /\ PassLeavesOneModel /\ ReembedOK /\ SchemaOK /\ SettledOK

-----------------------------------------------------------------------------
(* The knowledge store: batches and rows.                                  *)

\* A finite set of ids that is not empty has a greatest one: a smallest set
\* without one would have one less an element.
LEMMA GreatestId ==
    ASSUME NEW b \in SUBSET Chunks, b # {}
    PROVE  \E i \in b : \A j \in b : j <= i
<1> DEFINE Bad == {T \in SUBSET Chunks : T # {} /\ ~ \E i \in T : \A j \in T : j <= i}
           Less == StrictSubsetOrdering(Chunks)
<1>0. Chunks \subseteq Nat /\ IsFiniteSet(Chunks)
    BY KnowledgeAssumption
<1>1. IsWellFoundedOn(Less, SUBSET Chunks)
    BY <1>0, FS_StrictSubsetOrderingWellFounded, FS_FiniteSubsetsOfFinite
<1>2. SUFFICES ASSUME Bad # {} PROVE FALSE
    OBVIOUS
<1>3. Bad \subseteq SUBSET Chunks
    OBVIOUS
<1>4. \E T \in Bad : \A U \in Bad : ~(<<U, T>> \in Less)
  <2> HIDE DEF Bad, Less
  <2> QED BY <1>1, <1>2, <1>3, WFMin
<1>5. PICK T \in Bad : \A U \in Bad : ~(<<U, T>> \in Less)
    BY <1>4
<1>6. PICK x \in T : TRUE
    OBVIOUS
<1> DEFINE U == T \ {x}
<1>7. U \in SUBSET Chunks /\ U \subseteq T /\ U # T
    BY <1>6
<1>8. <<U, T>> \in Less
    BY <1>7 DEF StrictSubsetOrdering
<1>9. U \notin Bad
    BY <1>5, <1>8
<1>10. CASE U = {}
  <2>1. \A j \in T : j <= x
      BY <1>0, <1>6, <1>10
  <2> QED BY <1>6, <2>1
<1>11. CASE U # {}
  <2>1. PICK m \in U : \A j \in U : j <= m
      BY <1>7, <1>9, <1>11
  <2>2. m \in Nat /\ x \in Nat /\ m \in T /\ T \subseteq Nat
      BY <1>0, <1>6, <2>1
  <2>3. CASE x <= m
      BY <2>1, <2>2, <2>3
  <2>4. CASE m < x
    <3>1. \A j \in T : j <= x
        BY <2>1, <2>2, <2>4
    <3> QED BY <1>6, <3>1
  <2> QED BY <2>2, <2>3, <2>4
<1> QED BY <1>10, <1>11

\* The last id of a batch is its greatest.
LEMMA LastIdGreatest ==
    ASSUME NEW b \in SUBSET Chunks, b # {}
    PROVE  LastId(b) \in b /\ LastId(b) \in Nat /\ \A j \in b : j <= LastId(b)
<1>1. \E i \in b : \A j \in b : j <= i
    BY GreatestId
<1>2. LastId(b) \in b /\ \A j \in b : j <= LastId(b)
    BY <1>1 DEF LastId
<1> QED BY <1>2, KnowledgeAssumption

\* A batch has a row when there is one to take.
LEMMA BatchTaken ==
    ASSUME NEW rows \in SUBSET Chunks, NEW ordered \in BOOLEAN, NEW b \in Batches(rows, ordered)
    PROVE  /\ b \subseteq rows /\ (rows # {} => b # {})
           /\ ordered => \A i \in b, j \in rows \ b : i < j
<1>1. /\ b \subseteq rows
      /\ Cardinality(b) = IF Cardinality(rows) < BatchSize THEN Cardinality(rows) ELSE BatchSize
      /\ ordered => \A i \in b, j \in rows \ b : i < j
    BY DEF Batches
<1>2. IsFiniteSet(rows) /\ IsFiniteSet(b)
    BY <1>1, FS_Subset, KnowledgeAssumption
<1>3. rows # {} => Cardinality(rows) \in Nat /\ Cardinality(rows) # 0
    BY <1>2, FS_EmptySet, FS_CardinalityType
<1>4. rows # {} => Cardinality(b) # 0
    BY <1>1, <1>3, KnowledgeAssumption
<1> QED BY <1>1, <1>2, <1>4, FS_EmptySet

\* A batch that is written changes one column of its rows and no other.
LEMMA BatchWritten ==
    ASSUME StoreShapes, NEW b \in SUBSET Rows, NEW c \in Columns, NEW e, NEW rejected \in SUBSET b,
           chunk' = Written(b, c, e, rejected)
    PROVE  /\ DOMAIN chunk' = Chunks /\ Rows' \subseteq Rows /\ \A i \in Rows' : DOMAIN chunk'[i] = Columns
           /\ \A i \in Rows, d \in Columns : d # c => chunk'[i][d] = chunk[i][d]
           /\ \A i \in Rows : i \notin b \/ (i \in rejected /\ c = "embedding") => chunk'[i][c] = chunk[i][c]
           /\ \A i \in b \ rejected : chunk'[i][c] = [vec |-> e, stamp |-> e.id]
           /\ c = "embedding_v2" =>
                 \A i \in rejected : chunk'[i][c] = [vec |-> NULL, stamp |-> AUX_UNEMBEDDABLE_SENTINEL]
<1>0. Rows \subseteq Chunks /\ \A i \in Rows : DOMAIN chunk[i] = Columns
    BY DEF StoreShapes, Rows
<1>1. DOMAIN chunk' = Chunks
    BY DEF Written
<1>2. \A i \in b \ rejected : chunk'[i] = [chunk[i] EXCEPT ![c] = [vec |-> e, stamp |-> e.id]]
    BY <1>0 DEF Written
<1>3. c = "embedding_v2" => \A i \in rejected :
         chunk'[i] = [chunk[i] EXCEPT ![c] = [vec |-> NULL, stamp |-> AUX_UNEMBEDDABLE_SENTINEL]]
    BY <1>0 DEF Written
<1>4. \A i \in Chunks : i \notin b \/ (i \in rejected /\ c # "embedding_v2") => chunk'[i] = chunk[i]
    BY <1>0 DEF Written
<1>5. c \in {"embedding", "embedding_v2"}
    BY DEF Columns
<1>6. ASSUME NEW i \in Rows
      PROVE  DOMAIN chunk'[i] = Columns /\ \A d \in Columns : d # c => chunk'[i][d] = chunk[i][d]
  <2>1. DOMAIN chunk[i] = Columns /\ i \in Chunks
      BY <1>0, <1>6
  <2>2. CASE i \in b \ rejected
      BY <1>2, <2>1, <2>2
  <2>3. CASE i \in rejected /\ c = "embedding_v2"
      BY <1>3, <2>1, <2>3
  <2>4. CASE i \notin b \/ (i \in rejected /\ c # "embedding_v2")
      BY <1>4, <2>1, <2>4
  <2> QED BY <1>5, <2>2, <2>3, <2>4
<1>7. Rows' \subseteq Rows
  <2> SUFFICES ASSUME NEW i \in Chunks, chunk[i] = NULL PROVE chunk'[i] = NULL
      BY DEF Rows
  <2>1. i \notin b
      BY DEF Rows
  <2> QED BY <1>4, <2>1
<1>8. \A i \in b \ rejected : chunk'[i][c] = [vec |-> e, stamp |-> e.id]
  <2> SUFFICES ASSUME NEW i \in b \ rejected PROVE chunk'[i][c] = [vec |-> e, stamp |-> e.id]
      OBVIOUS
  <2>1. c \in DOMAIN chunk[i]
      BY <1>0
  <2> QED BY <1>2, <2>1
<1>9. c = "embedding_v2" =>
         \A i \in rejected : chunk'[i][c] = [vec |-> NULL, stamp |-> AUX_UNEMBEDDABLE_SENTINEL]
  <2> SUFFICES ASSUME NEW i \in rejected, c = "embedding_v2"
               PROVE  chunk'[i][c] = [vec |-> NULL, stamp |-> AUX_UNEMBEDDABLE_SENTINEL]
      OBVIOUS
  <2>1. c \in DOMAIN chunk[i]
      BY <1>0
  <2> QED BY <1>3, <2>1
<1> QED BY <1>0, <1>1, <1>4, <1>5, <1>6, <1>7, <1>8, <1>9

-----------------------------------------------------------------------------
(* The knowledge store: what a step that leaves something alone keeps.     *)

\* A command that does not run holds nothing.
LEMMA IdleShape ==
    /\ Idle \in Pass /\ Idle.cmd = "idle" /\ Idle.at = "none" /\ Idle.batch = {} /\ Idle.last = 0
    /\ Idle.col = "embedding" /\ ~Idle.failed /\ ~Idle.exact /\ ~Idle.force
<1>1. /\ Idle \in Pass /\ Idle.cmd = "idle" /\ Idle.at = "none" /\ Idle.batch = {} /\ Idle.last = 0
      /\ Idle.col = "embedding"
    BY DEF Idle, Pass, Columns
<1>2. ~Idle.failed /\ ~Idle.exact /\ ~Idle.force
    BY DEF Idle
<1> QED BY <1>1, <1>2

\* With no command running, nothing is said of one.
LEMMA NothingRuns ==
    ASSUME pass' = Idle
    PROVE  pass' \in Pass /\ ReembedOK' /\ SchemaOK'
BY IdleShape DEF ReembedOK, SchemaOK

\* The cells and the columns, when they are not written.
LEMMA StoreKept ==
    ASSUME StoreInv, UNCHANGED <<chunk, column>>
    PROVE  /\ DOMAIN chunk' = Chunks /\ \A i \in Rows' : DOMAIN chunk'[i] = Columns
           /\ column' \in [Columns -> Column] /\ CellsOK' /\ ~column'["embedding_v2"].notnull
BY DEF StoreInv, StoreShapes, CellsOK, CellOK, Rows

\* What a finished pass left, when no chunk is written.
LEMMA SweptKept ==
    ASSUME StoreInv, UNCHANGED <<chunk, swept>>
    PROVE  PassLeavesOneModel' /\ swept' \in [Columns -> [by : Embedders \cup {NULL}, exact : BOOLEAN]]
BY DEF StoreInv, StoreShapes, PassLeavesOneModel, Rows, Vec

\* What a finished schema change left, when no column changes.
LEMMA SettledKept ==
    ASSUME StoreInv, UNCHANGED <<column, settled>>
    PROVE  SettledOK' /\ settled' \in Stacks \cup {NULL}
BY DEF StoreInv, StoreShapes, SettledOK

\* The running command, when nothing it reads is written.
LEMMA PassKept ==
    ASSUME StoreInv, UNCHANGED <<chunk, column, pass, swept, settled>>
    PROVE  pass' \in Pass /\ ReembedOK' /\ SchemaOK'
BY DEF StoreInv, StoreShapes, ReembedOK, Passed, SchemaOK, FillOK, Rows, Vec

\* What the invariant says of the running command.
LEMMA PassFields ==
    ASSUME StoreInv
    PROVE  /\ pass \in Pass /\ pass.cmd \in {"idle", "reembed", "schema"}
           /\ pass.at \in {"none", "retype", "fill", "finalize"}
           /\ pass.col \in Columns /\ pass.col \in {"embedding", "embedding_v2"}
           /\ pass.last \in Nat /\ pass.batch \subseteq Chunks
           /\ pass.force \in BOOLEAN /\ pass.exact \in BOOLEAN /\ pass.failed \in BOOLEAN
<1>1. pass \in Pass
    BY DEF StoreInv, StoreShapes
<1> QED BY <1>1 DEF Pass, Columns

\* Settings name embedders, and the primary one is set.
LEMMA StackShape ==
    ASSUME NEW s \in Stacks, NEW c \in Columns
    PROVE  /\ s # NULL /\ s["embedding"] # NULL /\ s[c] \in Embedders /\ Width(s, c) \in Widths
           /\ s[c] # NULL => s[c].id \notin NoModel /\ s[c].dim = Width(s, c)
BY KnowledgeAssumption DEF Embedders, Widths, NoModel, Width

\* The settings change; seeding starts, or fails.
LEMMA SettingsSteps ==
    ASSUME StoreInv, UNCHANGED <<chunk, column, pass, swept, settled>>,
           stack' \in Stacks, seeding' \in Stacks \cup {NULL}
    PROVE  StoreInv'
BY StoreKept, SweptKept, SettledKept, PassKept DEF StoreInv, StoreShapes

\* A command is killed.
LEMMA PassIsKilled ==
    ASSUME StoreInv, PassKilled
    PROVE  StoreInv'
<1>1. pass' = Idle /\ UNCHANGED <<chunk, column, stack, seeding, swept, settled>>
    BY DEF PassKilled
<1>2. stack' \in Stacks /\ seeding' \in Stacks \cup {NULL}
    BY <1>1 DEF StoreInv, StoreShapes
<1> QED BY <1>1, <1>2, StoreKept, SweptKept, SettledKept, NothingRuns DEF StoreInv, StoreShapes

\* A seeding starts or fails, or the settings change.
LEMMA SeedingStartsOrFails ==
    ASSUME StoreInv, StartSeeding \/ SeedingFails \/ \E s \in Stacks : ChangeSettings(s)
    PROVE  StoreInv'
<1>1. stack \in Stacks /\ seeding \in Stacks \cup {NULL}
    BY DEF StoreInv, StoreShapes
<1>2. UNCHANGED <<chunk, column, pass, swept, settled>> /\ stack' \in Stacks /\ seeding' \in Stacks \cup {NULL}
    BY <1>1 DEF StartSeeding, SeedingFails, ChangeSettings
<1> QED BY <1>2, SettingsSteps

-----------------------------------------------------------------------------
(* The knowledge store: reembed.                                           *)

\* A reembed starts.
LEMMA ReembedStarts ==
    ASSUME StoreInv, NEW c \in Columns, NEW force \in BOOLEAN, NEW owners \in SUBSET {Owner[i] : i \in Chunks},
           StartReembed(c, force, owners)
    PROVE  StoreInv'
<1> DEFINE p == [Idle EXCEPT !.cmd = "reembed", !.stack = stack, !.col = c, !.owners = owners,
                             !.force = force, !.exact = force]
<1>1. /\ stack \in Stacks /\ stack[c] # NULL /\ pass' = p /\ swept' = [swept EXCEPT ![c] = Unswept]
      /\ UNCHANGED <<chunk, column, stack, seeding, settled>>
    BY DEF StartReembed, StoreInv, StoreShapes
<1>2. /\ p \in Pass /\ p.cmd = "reembed" /\ p.stack = stack /\ p.col = c /\ p.owners = owners
      /\ p.last = 0 /\ p.batch = {} /\ p.at = "none"
    BY <1>1, IdleShape DEF Pass
<1>3. p.force = force /\ p.exact = force
    BY IdleShape DEF Pass
<1> HIDE DEF p
<1>4. swept \in [Columns -> [by : Embedders \cup {NULL}, exact : BOOLEAN]] /\ PassLeavesOneModel
    BY DEF StoreInv, StoreShapes
<1>5. Unswept \in [by : Embedders \cup {NULL}, exact : BOOLEAN] /\ Unswept.by = NULL
    BY DEF Unswept
<1>6. /\ swept' \in [Columns -> [by : Embedders \cup {NULL}, exact : BOOLEAN]] /\ swept'[c].by = NULL
      /\ \A d \in Columns : d # c => swept'[d] = swept[d]
    BY <1>1, <1>4, <1>5
<1>7. PassLeavesOneModel'
    BY <1>1, <1>4, <1>6 DEF PassLeavesOneModel, Rows, Vec
<1>8. ReembedOK'
  <2>1. \A i \in Rows : ~(i <= 0)
      BY KnowledgeAssumption DEF Rows
  <2> QED BY <1>1, <1>2, <1>3, <1>6, <2>1 DEF ReembedOK, Passed, Rows
<1>9. SchemaOK'
    BY <1>1, <1>2 DEF SchemaOK
<1>10. stack' \in Stacks /\ seeding' \in Stacks \cup {NULL}
    BY <1>1 DEF StoreInv, StoreShapes
<1> QED BY <1>1, <1>2, <1>6, <1>7, <1>8, <1>9, <1>10, StoreKept, SettledKept DEF StoreInv, StoreShapes

\* A reembed writes its next batch.
LEMMA BatchIsSelected ==
    ASSUME StoreInv, NextBatch
    PROVE  StoreInv'
<1>1. PICK b \in Batches(_fetch_mismatched, pass.force) \ {{}} : pass' = [pass EXCEPT !.batch = b]
    BY DEF NextBatch
<1>2. pass.cmd = "reembed" /\ pass.batch = {} /\ UNCHANGED <<chunk, column, stack, seeding, swept, settled>>
    BY DEF NextBatch
<1>3. _fetch_mismatched \in SUBSET Chunks /\ _fetch_mismatched \subseteq Rows
    BY DEF _fetch_mismatched, Rows
<1>4. b \subseteq _fetch_mismatched /\ (pass.force => \A i \in b, j \in _fetch_mismatched \ b : i < j)
    BY <1>1, <1>3, PassFields, BatchTaken
<1>5. /\ pass' \in Pass /\ pass'.cmd = "reembed" /\ pass'.stack = pass.stack /\ pass'.col = pass.col
      /\ pass'.owners = pass.owners /\ pass'.last = pass.last /\ pass'.batch = b /\ pass'.at = pass.at
    BY <1>1, <1>2, <1>3, <1>4, PassFields DEF Pass
<1>6. pass'.force = pass.force /\ pass'.exact = pass.exact
    BY <1>1, PassFields DEF Pass
<1>7. ReembedOK'
  <2>1. ReembedOK
      BY DEF StoreInv
  <2>2. ASSUME pass.exact, NEW i \in Rows, Owner[i] \in pass.owners, Passed(i)' PROVE Passed(i)
    <3>1. pass.force /\ pass.last \in Nat /\ i \in Nat /\ b \subseteq Nat
        BY <1>2, <1>3, <1>4, <2>1, <2>2, PassFields, KnowledgeAssumption DEF ReembedOK, Rows
    <3>2. CASE i <= pass.last
        BY <3>2 DEF Passed
    <3>3. CASE ~(i <= pass.last)
      <4>1. i \in _fetch_mismatched
          BY <2>2, <3>1, <3>3 DEF _fetch_mismatched
      <4>2. i \notin b /\ \E j \in b : i <= j
          BY <1>5, <2>2, <3>3 DEF Passed
      <4> QED BY <1>4, <3>1, <4>1, <4>2
    <3> QED BY <3>2, <3>3
  <2> QED BY <1>2, <1>3, <1>4, <1>5, <1>6, <2>1, <2>2 DEF ReembedOK, Rows, Vec
<1>8. SchemaOK'
    BY <1>2, <1>5 DEF SchemaOK, StoreInv
<1>9. stack' \in Stacks /\ seeding' \in Stacks \cup {NULL}
    BY <1>2 DEF StoreInv, StoreShapes
<1> QED BY <1>2, <1>5, <1>7, <1>8, <1>9, StoreKept, SweptKept, SettledKept DEF StoreInv, StoreShapes

\* A reembed finds nothing left.
LEMMA ReembedIsDone ==
    ASSUME StoreInv, ReembedEnds
    PROVE  StoreInv'
<1> DEFINE c == pass.col
           e == pass.stack[pass.col]
           w == [by |-> e, exact |-> pass.exact]
<1>1. /\ pass.cmd = "reembed" /\ pass.batch = {} /\ _fetch_mismatched = {} /\ pass' = Idle
      /\ UNCHANGED <<chunk, column, stack, seeding, settled>>
    BY DEF ReembedEnds
<1>2. ReembedOK /\ PassLeavesOneModel /\ CellsOK
      /\ swept \in [Columns -> [by : Embedders \cup {NULL}, exact : BOOLEAN]]
    BY DEF StoreInv, StoreShapes
<1>3. c \in Columns /\ pass.stack \in Stacks /\ e # NULL /\ e \in Embedders /\ pass.exact \in BOOLEAN
      /\ e.id \notin NoModel
    BY <1>1, <1>2, PassFields, StackShape DEF ReembedOK
<1>4. PassLeavesOneModel' /\ swept' \in [Columns -> [by : Embedders \cup {NULL}, exact : BOOLEAN]]
  <2>1. CASE swept' = swept
      BY <1>1, <2>1, SweptKept
  <2>2. CASE swept' = [swept EXCEPT ![c] = w] /\ pass.owners = {Owner[i] : i \in Chunks} /\ (pass.force => pass.exact)
    <3>1. w \in [by : Embedders \cup {NULL}, exact : BOOLEAN] /\ w.by = e
        BY <1>3
    <3>2. w.exact = pass.exact
        OBVIOUS
    <3>3. /\ swept' \in [Columns -> [by : Embedders \cup {NULL}, exact : BOOLEAN]] /\ swept'[c] = w
          /\ \A d \in Columns : d # c => swept'[d] = swept[d]
        BY <1>2, <1>3, <2>2, <3>1
    <3> HIDE DEF w
    <3>4. ASSUME NEW i \in Rows
          PROVE  Vec(i, c) # NULL /\ Vec(i, c).id = e.id /\ (pass.exact => Vec(i, c) = e)
      <4>1. Owner[i] \in pass.owners /\ i \in Nat /\ pass.last \in Nat
          BY <2>2, PassFields, KnowledgeAssumption DEF Rows
      <4>2. CASE pass.force
        <5>1. pass.exact /\ i <= pass.last
            BY <1>1, <2>2, <4>1, <4>2 DEF _fetch_mismatched
        <5>2. Vec(i, c) = e
            BY <1>1, <1>2, <4>1, <5>1 DEF ReembedOK, Passed
        <5> QED BY <1>3, <5>2
      <4>3. CASE ~pass.force
        <5>1. Stamp(i, c) = e.id /\ ~pass.exact
            BY <1>1, <1>2, <4>1, <4>3 DEF _fetch_mismatched, ReembedOK
        <5>2. CellOK(chunk[i][c], column[c], c)
            BY <1>2, <1>3 DEF CellsOK
        <5> QED BY <1>3, <5>1, <5>2 DEF CellOK, Stamp, Vec
      <4> QED BY <4>2, <4>3
    <3> QED BY <1>1, <1>2, <3>1, <3>2, <3>3, <3>4 DEF PassLeavesOneModel, Rows, Vec
  <2> QED BY <2>1, <2>2 DEF ReembedEnds
<1>5. stack' \in Stacks /\ seeding' \in Stacks \cup {NULL}
    BY <1>1 DEF StoreInv, StoreShapes
<1> QED BY <1>1, <1>4, <1>5, StoreKept, SettledKept, NothingRuns DEF StoreInv, StoreShapes

\* What writing a batch of column c leaves: an invariant store, with vectors of
\* e in the rows that were not rejected.
Wrote(b, c, e, rejected) ==
    /\ DOMAIN chunk' = Chunks /\ \A i \in Rows' : DOMAIN chunk'[i] = Columns
    /\ column' \in [Columns -> Column] /\ CellsOK' /\ ~column'["embedding_v2"].notnull
    /\ PassLeavesOneModel' /\ swept' \in [Columns -> [by : Embedders \cup {NULL}, exact : BOOLEAN]]
    /\ Rows' \subseteq Rows /\ \A i \in b \ rejected : chunk'[i][c].vec = e
    /\ \A i \in Rows : i \notin b \/ (c = "embedding" /\ i \in rejected) => chunk'[i][c] = chunk[i][c]
    /\ \A i \in Rows, d \in Columns : d # c => chunk'[i][d] = chunk[i][d]

\* Vectors of an embedder of the column's width are written.
LEMMA WrittenVectors ==
    ASSUME StoreInv, NEW b \in SUBSET Rows, NEW c \in Columns, NEW e, NEW rejected \in SUBSET b,
           chunk' = Written(b, c, e, rejected), e # NULL, e.id \notin NoModel,
           rejected # b => e.dim = column[c].dim, column' = column, swept' = swept, swept[c].by = NULL
    PROVE  Wrote(b, c, e, rejected)
<1>0. StoreShapes /\ CellsOK /\ PassLeavesOneModel /\ ~column["embedding_v2"].notnull
    BY DEF StoreInv
<1>1. /\ DOMAIN chunk' = Chunks /\ Rows' \subseteq Rows /\ \A i \in Rows' : DOMAIN chunk'[i] = Columns
      /\ \A i \in Rows, d \in Columns : d # c => chunk'[i][d] = chunk[i][d]
      /\ \A i \in Rows : i \notin b \/ (i \in rejected /\ c = "embedding") => chunk'[i][c] = chunk[i][c]
      /\ \A i \in b \ rejected : chunk'[i][c] = [vec |-> e, stamp |-> e.id]
      /\ c = "embedding_v2" =>
            \A i \in rejected : chunk'[i][c] = [vec |-> NULL, stamp |-> AUX_UNEMBEDDABLE_SENTINEL]
    BY <1>0, BatchWritten, ZenonT(60)
<1>2. ASSUME NEW i \in Rows, NEW d \in Columns PROVE CellOK(chunk'[i][d], column[d], d)
  <2>1. CellOK(chunk[i][d], column[d], d)
      BY <1>0 DEF CellsOK
  <2>2. CASE chunk'[i][d] = chunk[i][d]
      BY <2>1, <2>2
  <2>3. CASE d = c /\ i \in b \ rejected
    <3> DEFINE x == [vec |-> e, stamp |-> e.id]
    <3>1. x.vec = e /\ x.stamp = e.id /\ chunk'[i][d] = x
        BY <1>1, <2>3
    <3>2. e.dim = column[d].dim
        BY <2>3
    <3> HIDE DEF x
    <3>3. CellOK(x, column[d], d)
        BY <3>1, <3>2 DEF CellOK, NoModel
    <3> QED BY <3>1, <3>3
  <2>4. CASE d = c /\ i \in rejected /\ c = "embedding_v2"
    <3> DEFINE x == [vec |-> NULL, stamp |-> AUX_UNEMBEDDABLE_SENTINEL]
    <3>1. x.vec = NULL /\ x.stamp = AUX_UNEMBEDDABLE_SENTINEL /\ chunk'[i][d] = x
        BY <1>1, <2>4
    <3> HIDE DEF x
    <3>2. CellOK(x, column[d], d)
        BY <1>0, <2>4, <3>1 DEF CellOK, NoModel
    <3> QED BY <3>1, <3>2
  <2> QED BY <1>1, <2>2, <2>3, <2>4 DEF Columns
<1>3. CellsOK'
    BY <1>1, <1>2 DEF CellsOK
<1>4. PassLeavesOneModel'
  <2> SUFFICES ASSUME NEW d \in Columns, swept[d].by # NULL, NEW i \in Rows'
               PROVE  /\ chunk'[i][d].vec # NULL /\ chunk'[i][d].vec.id = swept[d].by.id
                      /\ swept[d].exact => chunk'[i][d].vec = swept[d].by
      BY DEF PassLeavesOneModel, Vec
  <2>1. d # c /\ i \in Rows
      BY <1>1
  <2>2. chunk'[i][d] = chunk[i][d]
      BY <1>1, <2>1
  <2> QED BY <1>0, <2>1, <2>2 DEF PassLeavesOneModel, Vec
<1>5. \A i \in b \ rejected : chunk'[i][c].vec = e
    BY <1>1
<1> QED BY <1>0, <1>1, <1>3, <1>4, <1>5 DEF StoreShapes, Wrote

\* A batch is written: the rows up to its last have been passed.
LEMMA BatchIsReembedded ==
    ASSUME StoreInv, _reembed_batch
    PROVE  StoreInv'
<1> DEFINE c == pass.col
           e == pass.stack[c]
           b == pass.batch
<1>1. ReembedOK /\ StoreShapes
    BY DEF StoreInv
<1>2. b # {} /\ pass.cmd = "reembed" /\ UNCHANGED <<column, stack, seeding, swept, settled>>
    BY <1>1 DEF _reembed_batch, ReembedOK
<1>3. PICK rejected \in SUBSET b :
         IF e.dim # column[c].dim /\ rejected # b
         THEN pass' = Idle /\ UNCHANGED chunk
         ELSE /\ chunk' = Written(b, c, e, rejected)
              /\ pass' = [pass EXCEPT !.batch = {}, !.last = IF pass.force THEN LastId(b) ELSE 0,
                                      !.exact = @ /\ rejected = {}]
    BY DEF _reembed_batch
<1>4. CASE e.dim # column[c].dim /\ rejected # b
  <2>1. pass' = Idle /\ UNCHANGED chunk
      BY <1>3, <1>4
  <2>2. stack' \in Stacks /\ seeding' \in Stacks \cup {NULL}
      BY <1>1, <1>2 DEF StoreShapes
  <2> QED BY <1>2, <2>1, <2>2, StoreKept, SweptKept, SettledKept, NothingRuns DEF StoreInv, StoreShapes
<1>5. CASE ~(e.dim # column[c].dim /\ rejected # b)
  <2> DEFINE l == IF pass.force THEN LastId(b) ELSE 0
             x == pass.exact /\ rejected = {}
  <2>1. chunk' = Written(b, c, e, rejected) /\ x \in BOOLEAN
      BY <1>3, <1>5
  <2>2. pass' = [pass EXCEPT !.batch = {}, !.last = l, !.exact = x]
      BY <1>3, <1>5, PassFields DEF Pass
  <2>3. x => pass.exact /\ rejected = {}
      OBVIOUS
  <2>4. l \in {0, LastId(b)} /\ (pass.force => l = LastId(b)) /\ (rejected # b => e.dim = column[c].dim)
      BY <1>5
  <2>5. c = pass.col /\ e = pass.stack[c] /\ b = pass.batch /\ rejected \in SUBSET b
      OBVIOUS
  <2>6. column' = column /\ stack' = stack /\ seeding' = seeding /\ swept' = swept /\ settled' = settled
      BY <1>2
  <2> HIDE DEF l, x, c, e, b
  <2>7. ReembedOK /\ StoreShapes
      BY DEF StoreInv
  <2>8. /\ c \in Columns /\ pass.stack \in Stacks /\ e # NULL /\ e.id \notin NoModel
        /\ b \in SUBSET Rows /\ b \in SUBSET Chunks /\ swept[c].by = NULL
      BY <1>2, <2>5, <2>7, PassFields, StackShape DEF ReembedOK
  <2>9. Wrote(b, c, e, rejected)
      BY <2>1, <2>4, <2>5, <2>6, <2>8, WrittenVectors
  <2>10. LastId(b) \in Nat /\ LastId(b) \in b /\ l \in Nat
      BY <1>2, <2>4, <2>8, LastIdGreatest
  <2>11. /\ pass' \in Pass /\ pass'.cmd = "reembed" /\ pass'.stack = pass.stack /\ pass'.col = c
        /\ pass'.owners = pass.owners /\ pass'.last = l /\ pass'.batch = {} /\ pass'.at = pass.at
      BY <1>2, <2>1, <2>2, <2>5, <2>10, PassFields DEF Pass
  <2>12. pass'.force = pass.force
      BY <2>2, PassFields DEF Pass
  <2>13. pass'.exact = x
      BY <2>1, <2>2, PassFields DEF Pass
  <2>14. ASSUME pass.exact, rejected = {}, NEW i \in Rows', Owner[i] \in pass.owners, i <= l
        PROVE  chunk'[i][c].vec = e
    <3>1. pass.force /\ i \in Rows
        BY <1>2, <2>7, <2>9, <2>14 DEF ReembedOK, Wrote
    <3>2. l = LastId(b)
        BY <2>4, <3>1
    <3>3. CASE i \in b
        BY <2>9, <2>14, <3>3 DEF Wrote
    <3>4. CASE i \notin b
      <4>1. i \notin pass.batch /\ \E j \in pass.batch : i <= j
          BY <2>5, <2>10, <2>14, <3>2, <3>4
      <4>2. Vec(i, c) = e
          BY <1>2, <2>5, <2>7, <2>14, <3>1, <4>1 DEF ReembedOK, Passed
      <4> QED BY <2>9, <3>1, <3>4, <4>2 DEF Vec, Wrote
    <3> QED BY <3>3, <3>4
  <2>15. ReembedOK'
      BY <1>2, <2>3, <2>5, <2>6, <2>7, <2>8, <2>11, <2>12, <2>13, <2>14 DEF ReembedOK, Passed, Vec
  <2>16. SchemaOK'
      BY <1>2, <2>11 DEF SchemaOK, StoreInv
  <2>17. stack' \in Stacks /\ seeding' \in Stacks \cup {NULL}
      BY <2>6, <2>7 DEF StoreShapes
  <2> QED BY <2>6, <2>9, <2>11, <2>15, <2>16, <2>17, SettledKept DEF StoreInv, StoreShapes, Wrote
<1> QED BY <1>4, <1>5

-----------------------------------------------------------------------------
(* The knowledge store: seeding.                                           *)

\* A seeding writes a chunk.
LEMMA ChunkIsSeeded ==
    ASSUME StoreInv, upsert
    PROVE  StoreInv'
<1>0. /\ seeding \in Stacks /\ seeding' = NULL /\ UNCHANGED <<column, stack, settled>>
      /\ StoreShapes /\ CellsOK /\ PassLeavesOneModel /\ ReembedOK /\ SchemaOK /\ ~column["embedding_v2"].notnull
    BY DEF upsert, StoreInv, StoreShapes
<1>1. PICK i \in Chunks \ Rows, aux \in {NULL, make_embedding_provider(seeding, "embedding_v2")} :
         LET e == make_embedding_provider(seeding, "embedding") IN
         /\ e.dim = column["embedding"].dim
         /\ aux # NULL => aux.dim = column["embedding_v2"].dim
         /\ chunk' = [chunk EXCEPT ![i] =
                        [c \in Columns |->
                           LET v == IF c = "embedding" THEN e ELSE aux IN
                           [vec |-> v, stamp |-> IF v = NULL THEN NULL ELSE v.id]]]
         /\ swept' = [c \in Columns |->
                        IF chunk'[i][c].vec = swept[c].by THEN swept[c] ELSE Unswept]
         /\ pass' = [pass EXCEPT !.exact = @ /\ chunk'[i][pass.col].vec = pass.stack[pass.col]]
    BY DEF upsert
<1> DEFINE e == seeding["embedding"]
           Cell(c) == LET v == IF c = "embedding" THEN e ELSE aux IN
                      [vec |-> v, stamp |-> IF v = NULL THEN NULL ELSE v.id]
           x == pass.exact /\ chunk'[i][pass.col].vec = pass.stack[pass.col]
<1>2. /\ e.dim = column["embedding"].dim /\ (aux # NULL => aux.dim = column["embedding_v2"].dim)
      /\ chunk' = [chunk EXCEPT ![i] = [c \in Columns |-> Cell(c)]]
    BY <1>1 DEF make_embedding_provider
<1>3. e # NULL /\ e.id \notin NoModel /\ (aux # NULL => aux.id \notin NoModel)
    BY <1>0, <1>1, StackShape DEF make_embedding_provider, Columns
<1>4. Cell("embedding").vec = e /\ Cell("embedding").stamp = e.id
    BY <1>3
<1>5. Cell("embedding_v2").vec = aux /\ Cell("embedding_v2").stamp = IF aux = NULL THEN NULL ELSE aux.id
    OBVIOUS
<1> HIDE DEF Cell, e
<1>6. /\ DOMAIN chunk' = Chunks /\ DOMAIN chunk'[i] = Columns /\ \A c \in Columns : chunk'[i][c] = Cell(c)
      /\ \A j \in Chunks : j # i => chunk'[j] = chunk[j]
    BY <1>0, <1>1, <1>2 DEF StoreShapes
<1>7. Rows \subseteq Rows' /\ \A j \in Rows' : j = i \/ (j # i /\ j \in Rows)
    BY <1>1, <1>6 DEF Rows
<1>8. CellsOK'
  <2>1. CellOK(Cell("embedding"), column["embedding"], "embedding")
      BY <1>2, <1>3, <1>4 DEF CellOK, NoModel
  <2>2. CellOK(Cell("embedding_v2"), column["embedding_v2"], "embedding_v2")
      BY <1>0, <1>2, <1>3, <1>5 DEF CellOK, NoModel
  <2>3. ASSUME NEW j \in Rows', NEW c \in Columns PROVE CellOK(chunk'[j][c], column[c], c)
    <3>1. CASE j = i
        BY <1>6, <2>1, <2>2, <3>1 DEF Columns
    <3>2. CASE j # i
      <4>1. j \in Rows /\ chunk'[j] = chunk[j]
          BY <1>6, <1>7, <2>3, <3>2 DEF Rows
      <4> QED BY <1>0, <4>1 DEF CellsOK
    <3> QED BY <3>1, <3>2
  <2> QED BY <1>0, <2>3 DEF CellsOK
<1>9. \A j \in Rows' : DOMAIN chunk'[j] = Columns
    BY <1>0, <1>6, <1>7 DEF StoreShapes, Rows
<1>10. /\ swept' \in [Columns -> [by : Embedders \cup {NULL}, exact : BOOLEAN]]
       /\ \A c \in Columns : swept'[c].by # NULL => swept'[c] = swept[c] /\ chunk'[i][c].vec = swept[c].by
       /\ \A c \in Columns : swept[c].by = NULL => swept'[c].by = NULL
  <2>1. Unswept \in [by : Embedders \cup {NULL}, exact : BOOLEAN] /\ Unswept.by = NULL
      BY DEF Unswept
  <2>2. swept' = [c \in Columns |-> IF chunk'[i][c].vec = swept[c].by THEN swept[c] ELSE Unswept]
      BY <1>1
  <2>3. swept \in [Columns -> [by : Embedders \cup {NULL}, exact : BOOLEAN]]
      BY <1>0 DEF StoreShapes
  <2> QED BY <2>1, <2>2, <2>3
<1>11. PassLeavesOneModel'
  <2> SUFFICES ASSUME NEW c \in Columns, swept'[c].by # NULL, NEW j \in Rows'
               PROVE  /\ chunk'[j][c].vec # NULL /\ chunk'[j][c].vec.id = swept'[c].by.id
                      /\ swept'[c].exact => chunk'[j][c].vec = swept'[c].by
      BY DEF PassLeavesOneModel, Vec
  <2>1. swept'[c] = swept[c] /\ chunk'[i][c].vec = swept[c].by
      BY <1>10
  <2>2. CASE j = i
      BY <2>1, <2>2
  <2>3. CASE j # i
    <3>1. j \in Rows /\ chunk'[j] = chunk[j]
        BY <1>6, <1>7, <2>3 DEF Rows
    <3> QED BY <1>0, <2>1, <3>1 DEF PassLeavesOneModel, Vec
  <2> QED BY <2>2, <2>3
<1>12. pass' = [pass EXCEPT !.exact = x] /\ x \in BOOLEAN
    BY <1>1, PassFields DEF Pass
<1>13. x => pass.exact /\ chunk'[i][pass.col].vec = pass.stack[pass.col]
    OBVIOUS
<1> HIDE DEF x
<1>14. /\ pass' \in Pass /\ pass'.cmd = pass.cmd /\ pass'.stack = pass.stack /\ pass'.col = pass.col
       /\ pass'.owners = pass.owners /\ pass'.last = pass.last /\ pass'.batch = pass.batch
       /\ pass'.at = pass.at /\ pass'.plan = pass.plan
    BY <1>12, PassFields DEF Pass
<1>15. pass'.exact = x
    BY <1>12, PassFields DEF Pass
<1>16. pass'.force = pass.force /\ pass'.failed = pass.failed
    BY <1>12, PassFields DEF Pass
<1>17. ReembedOK'
  <2>1. ASSUME pass.cmd = "reembed", pass'.exact, NEW j \in Rows', Owner[j] \in pass.owners, Passed(j)'
        PROVE  chunk'[j][pass.col].vec = pass.stack[pass.col]
    <3>1. pass.exact /\ chunk'[i][pass.col].vec = pass.stack[pass.col]
        BY <1>13, <1>15, <2>1
    <3>2. CASE j = i
        BY <3>1, <3>2
    <3>3. CASE j # i
      <4>1. j \in Rows /\ chunk'[j] = chunk[j] /\ Passed(j)
          BY <1>6, <1>7, <1>14, <2>1, <3>3 DEF Rows, Passed
      <4> QED BY <1>0, <2>1, <3>1, <4>1 DEF ReembedOK, Vec
    <3> QED BY <3>2, <3>3
  <2>2. pass.cmd = "reembed" /\ pass'.exact => pass.force
      BY <1>0, <1>13, <1>15 DEF ReembedOK
  <2>3. pass.col \in Columns
      BY PassFields
  <2>4. pass.cmd = "reembed" => swept'[pass.col].by = NULL
      BY <1>0, <1>10, <2>3 DEF ReembedOK
  <2> QED BY <1>0, <1>7, <1>14, <1>16, <2>1, <2>2, <2>4 DEF ReembedOK, Vec
<1>18. FillOK => FillOK'
  <2>1. \A j \in Rows' : chunk'[j]["embedding"].vec = NULL => j \in Rows /\ chunk[j]["embedding"].vec = NULL
    <3> SUFFICES ASSUME NEW j \in Rows', chunk'[j]["embedding"].vec = NULL
                 PROVE  j \in Rows /\ chunk[j]["embedding"].vec = NULL
        OBVIOUS
    <3>1. chunk'[i]["embedding"].vec = e
        BY <1>4, <1>6 DEF Columns
    <3>2. j # i
        BY <1>3, <3>1
    <3> QED BY <1>6, <1>7, <3>2 DEF Rows
  <2> QED BY <1>14, <1>16, <2>1 DEF FillOK, Vec
<1>19. SchemaOK'
    BY <1>0, <1>14, <1>16, <1>18 DEF SchemaOK
<1>20. column' \in [Columns -> Column] /\ stack' \in Stacks /\ ~column'["embedding_v2"].notnull
    BY <1>0 DEF StoreShapes
<1> QED BY <1>0, <1>6, <1>8, <1>9, <1>10, <1>11, <1>14, <1>17, <1>19, <1>20, SettledKept
        DEF StoreInv, StoreShapes

-----------------------------------------------------------------------------
(* The knowledge store: embedding_schema.                                  *)

\* The plan of a column says what is wrong with it.
LEMMA PlanIsMade ==
    ASSUME StoreInv, NEW s \in Stacks, NEW c \in Columns
    PROVE  /\ build_column_plan(s, c) \in Flags
           /\ PlanOK(build_column_plan(s, c), column[c], c, s)
           /\ s[c] # NULL /\ ~build_column_plan(s, c).reembed_nulls => Null(c) = {}
<1> DEFINE retype == column[c].dim # Width(s, c)
           nulls == s[c] # NULL /\ (retype \/ Null(c) # {})
           restore == c = "embedding" /\ (retype \/ ~column[c].notnull)
           index == retype \/ column[c].index # IndexKind(Width(s, c))
           p == [retype |-> retype, reembed_nulls |-> nulls, restore_not_null |-> restore, build_index |-> index]
<1>1. build_column_plan(s, c) = p
    BY DEF build_column_plan
<1>2. retype \in BOOLEAN /\ nulls \in BOOLEAN /\ restore \in BOOLEAN /\ index \in BOOLEAN
    OBVIOUS
<1>3. /\ retype \/ column[c].dim = Width(s, c)
      /\ index \/ column[c].index = IndexKind(Width(s, c))
      /\ c = "embedding" => restore \/ column[c].notnull
      /\ restore => c = "embedding"
      /\ retype => index /\ (c = "embedding" => restore /\ nulls)
      /\ nulls => s[c] # NULL
      /\ s[c] # NULL /\ ~nulls => Null(c) = {}
    BY StackShape
<1> HIDE DEF retype, nulls, restore, index
<1>4. p \in Flags
    BY <1>2 DEF Flags
<1>5. p.retype = retype /\ p.reembed_nulls = nulls /\ p.restore_not_null = restore /\ p.build_index = index
    OBVIOUS
<1> HIDE DEF p
<1> QED BY <1>1, <1>3, <1>4, <1>5 DEF PlanOK

\* A plan begins with the first thing it has to do.
LEMMA WorkBegins ==
    ASSUME NEW p \in Flags
    PROVE  /\ Begins(p) \in {"retype", "fill", "finalize"}
           /\ Begins(p) = "retype" => p.retype
           /\ Begins(p) = "fill" => ~p.retype /\ p.reembed_nulls
           /\ Begins(p) = "finalize" => ~p.retype /\ ~p.reembed_nulls
BY DEF Begins

\* A primary vector that is missing is one embedding_schema finds.
LEMMA MissingIsFound ==
    ASSUME StoreInv, NEW i \in Rows, Vec(i, "embedding") = NULL
    PROVE  i \in Null("embedding")
<1>1. CellOK(chunk[i]["embedding"], column["embedding"], "embedding")
    BY DEF StoreInv, CellsOK, Columns
<1> QED BY <1>1 DEF CellOK, Null, Vec, Stamp

\* An embedding_schema starts.
LEMMA SchemaStarts ==
    ASSUME StoreInv, StartSchema
    PROVE  StoreInv'
<1> DEFINE plan == [c \in Columns |-> build_column_plan(stack, c)]
           first == IF in_sync(plan["embedding"]) THEN "embedding_v2" ELSE "embedding"
           at == Begins(plan[first])
           p == [Idle EXCEPT !.cmd = "schema", !.stack = stack, !.plan = plan, !.col = first, !.at = at]
<1>0. stack \in Stacks /\ seeding \in Stacks \cup {NULL} /\ StoreShapes
    BY DEF StoreInv, StoreShapes
<1>1. pass' = p /\ settled' = NULL /\ UNCHANGED <<chunk, column, stack, seeding, swept>>
    BY DEF StartSchema
<1>2. /\ plan \in [Columns -> Flags]
      /\ \A c \in Columns : PlanOK(plan[c], column[c], c, stack)
      /\ ~plan["embedding"].reembed_nulls => Null("embedding") = {}
    BY <1>0, PlanIsMade, StackShape DEF Columns
<1>3. first \in Columns /\ (first = "embedding_v2" => in_sync(plan["embedding"]))
    BY DEF Columns
<1> HIDE DEF plan, first
<1>4. /\ at \in {"retype", "fill", "finalize"} /\ (at = "retype" => plan[first].retype)
      /\ at = "fill" => ~plan[first].retype /\ plan[first].reembed_nulls
      /\ at = "finalize" => ~plan[first].retype /\ ~plan[first].reembed_nulls
    BY <1>2, <1>3, WorkBegins
<1> HIDE DEF at
<1>5. /\ p \in Pass /\ p.cmd = "schema" /\ p.stack = stack /\ p.plan = plan /\ p.col = first /\ p.at = at
      /\ p.last = 0 /\ p.batch = {}
    BY <1>0, <1>2, <1>3, <1>4, IdleShape DEF Pass
<1> HIDE DEF p
<1>6. ReembedOK'
    BY <1>1, <1>5 DEF ReembedOK
<1>7. FillOK'
  <2>1. \A i \in Rows : i > 0
      BY KnowledgeAssumption DEF Rows
  <2>2. first = "embedding" /\ at = "finalize" => \A i \in Rows : Vec(i, "embedding") # NULL
      BY <1>2, <1>4, MissingIsFound
  <2> QED BY <1>1, <1>5, <2>1, <2>2 DEF FillOK, Rows, Vec
<1>8. first = "embedding_v2" => FirstDone(column["embedding"], stack, pass'.failed)
    BY <1>2, <1>3 DEF in_sync, PlanOK, FirstDone, Columns
<1>9. SchemaOK'
  <2>1. at # "retype" => column[first].dim = Width(stack, first)
      BY <1>2, <1>3, <1>4 DEF PlanOK
  <2>2. at = "fill" => stack[first] # NULL
      BY <1>2, <1>3, <1>4 DEF PlanOK
  <2> QED BY <1>0, <1>1, <1>2, <1>4, <1>5, <1>7, <1>8, <2>1, <2>2 DEF SchemaOK
<1>10. SettledOK'
    BY <1>1 DEF SettledOK
<1> QED BY <1>0, <1>1, <1>5, <1>6, <1>9, <1>10, StoreKept, SweptKept DEF StoreInv, StoreShapes

\* A column takes its new width and loses its vectors.
LEMMA ColumnIsRetyped ==
    ASSUME StoreInv, _retype_column
    PROVE  StoreInv'
<1> DEFINE c == pass.col
           k == [dim |-> Width(pass.stack, c), notnull |-> FALSE, index |-> "none"]
           at == IF pass.plan[c].reembed_nulls THEN "fill" ELSE "finalize"
<1>0. /\ pass.at = "retype" /\ pass.cmd = "schema" /\ StoreShapes /\ CellsOK /\ PassLeavesOneModel
      /\ ReembedOK /\ SchemaOK /\ ~column["embedding_v2"].notnull /\ c \in Columns
      /\ UNCHANGED <<stack, seeding, settled>>
    BY PassFields DEF _retype_column, StoreInv, SchemaOK
<1>1. /\ column' = [column EXCEPT ![c] = k]
      /\ chunk' = [i \in Chunks |-> IF i \in Rows THEN [chunk[i] EXCEPT ![c] = Cleared(i, c)] ELSE NULL]
      /\ swept' = [swept EXCEPT ![c] = Unswept]
      /\ pass' = [pass EXCEPT !.at = at]
    BY DEF _retype_column
<1>2. /\ pass.stack \in Stacks /\ pass.plan \in [Columns -> Flags] /\ settled = NULL /\ pass.plan[c].retype
      /\ \A d \in Columns : PlanOK(pass.plan[d], column[d], d, pass.stack)
      /\ c = "embedding_v2" => FirstDone(column["embedding"], pass.stack, pass.failed)
      /\ c = "embedding" => pass.last = 0
    BY <1>0 DEF SchemaOK, FillOK
<1>3. k \in Column /\ k.dim = Width(pass.stack, c)
    BY <1>0, <1>2, StackShape DEF Column
<1>4. ~k.notnull
    OBVIOUS
<1>5. at \in {"fill", "finalize"} /\ (at = "fill" => pass.plan[c].reembed_nulls)
      /\ (at = "finalize" => ~pass.plan[c].reembed_nulls)
    OBVIOUS
<1> HIDE DEF k, at
<1>6. /\ column' \in [Columns -> Column] /\ column'[c] = k /\ \A d \in Columns : d # c => column'[d] = column[d]
    BY <1>0, <1>1, <1>3 DEF StoreShapes
<1>7. /\ DOMAIN chunk' = Chunks /\ Rows' \subseteq Rows
      /\ \A i \in Rows : /\ DOMAIN chunk'[i] = Columns /\ chunk'[i][c] = Cleared(i, c)
                         /\ \A d \in Columns : d # c => chunk'[i][d] = chunk[i][d]
    BY <1>0, <1>1 DEF StoreShapes, Rows
<1>8. ~column'["embedding_v2"].notnull
    BY <1>0, <1>4, <1>6 DEF Columns
<1>9. CellsOK'
  <2> SUFFICES ASSUME NEW i \in Rows, NEW d \in Columns PROVE CellOK(chunk'[i][d], column'[d], d)
      BY <1>7 DEF CellsOK
  <2>1. CASE d # c
      BY <1>0, <1>6, <1>7, <2>1 DEF CellsOK
  <2>2. CASE d = c
    <3> DEFINE x == Cleared(i, c)
    <3>1. x.vec = NULL /\ x.stamp = IF c = "embedding" THEN RETYPED_STAMP ELSE NULL
        BY DEF Cleared
    <3>2. chunk'[i][d] = x /\ column'[d] = k
        BY <1>6, <1>7, <2>2
    <3>3. NULL # RETYPED_STAMP /\ RETYPED_STAMP # AUX_UNEMBEDDABLE_SENTINEL
        BY KnowledgeAssumption DEF RETYPED_STAMP, AUX_UNEMBEDDABLE_SENTINEL
    <3> HIDE DEF x
    <3>4. CellOK(x, k, d)
        BY <1>4, <2>2, <3>1, <3>3 DEF CellOK, NoModel
    <3> QED BY <3>2, <3>4
  <2> QED BY <2>1, <2>2
<1>10. /\ swept' \in [Columns -> [by : Embedders \cup {NULL}, exact : BOOLEAN]] /\ swept'[c].by = NULL
       /\ \A d \in Columns : d # c => swept'[d] = swept[d]
  <2>1. Unswept \in [by : Embedders \cup {NULL}, exact : BOOLEAN] /\ Unswept.by = NULL
      BY DEF Unswept
  <2> QED BY <1>0, <1>1, <2>1 DEF StoreShapes
<1>11. PassLeavesOneModel'
  <2> SUFFICES ASSUME NEW d \in Columns, swept'[d].by # NULL, NEW i \in Rows
               PROVE  /\ chunk'[i][d].vec # NULL /\ chunk'[i][d].vec.id = swept'[d].by.id
                      /\ swept'[d].exact => chunk'[i][d].vec = swept'[d].by
      BY <1>7 DEF PassLeavesOneModel, Vec
  <2>1. d # c
      BY <1>10
  <2>2. swept'[d] = swept[d] /\ chunk'[i][d] = chunk[i][d]
      BY <1>7, <1>10, <2>1
  <2> QED BY <1>0, <2>2 DEF PassLeavesOneModel, Vec
<1>12. /\ pass' \in Pass /\ pass'.cmd = "schema" /\ pass'.stack = pass.stack /\ pass'.col = c
       /\ pass'.last = pass.last /\ pass'.batch = pass.batch /\ pass'.at = at /\ pass'.plan = pass.plan
    BY <1>0, <1>1, <1>5, PassFields DEF Pass
<1>13. pass'.failed = pass.failed
    BY <1>1, PassFields DEF Pass
<1>14. ReembedOK'
    BY <1>0, <1>12 DEF ReembedOK
<1>15. \A d \in Columns : PlanOK(pass.plan[d], column'[d], d, pass.stack)
    BY <1>2, <1>6 DEF PlanOK
<1>16. FillOK'
  <2>1. c = "embedding" => at = "fill" /\ pass.last = 0
      BY <1>0, <1>2, <1>5 DEF PlanOK
  <2>2. \A i \in Rows' : i > 0
      BY KnowledgeAssumption DEF Rows
  <2> QED BY <1>12, <2>1, <2>2 DEF FillOK
<1>17. SchemaOK'
  <2>1. at = "fill" => pass.stack[c] # NULL
      BY <1>0, <1>2, <1>5 DEF PlanOK
  <2>2. c = "embedding_v2" => FirstDone(column'["embedding"], pass.stack, pass.failed)
      BY <1>2, <1>6 DEF Columns
  <2> QED BY <1>0, <1>2, <1>3, <1>5, <1>6, <1>12, <1>13, <1>15, <1>16, <2>1, <2>2 DEF SchemaOK
<1>18. SettledOK' /\ settled' \in Stacks \cup {NULL}
    BY <1>0, <1>2 DEF SettledOK
<1>19. stack' \in Stacks /\ seeding' \in Stacks \cup {NULL}
    BY <1>0 DEF StoreShapes
<1> QED BY <1>6, <1>7, <1>8, <1>9, <1>10, <1>11, <1>12, <1>14, <1>17, <1>18, <1>19
        DEF StoreInv, StoreShapes

\* Empty vectors are filled, batch by batch.
LEMMA VectorsAreFilled ==
    ASSUME StoreInv, _reembed_null_vectors
    PROVE  StoreInv'
<1> DEFINE c == pass.col
           e == pass.stack[c]
           left == {i \in Null(c) : i > pass.last}
<1>0. /\ pass.at = "fill" /\ pass.cmd = "schema" /\ StoreShapes /\ CellsOK /\ PassLeavesOneModel
      /\ ReembedOK /\ SchemaOK /\ c \in Columns /\ UNCHANGED <<column, stack, seeding, swept, settled>>
    BY PassFields DEF _reembed_null_vectors, StoreInv, SchemaOK
<1>1. /\ pass.stack \in Stacks /\ pass.plan \in [Columns -> Flags] /\ settled = NULL
      /\ \A d \in Columns : PlanOK(pass.plan[d], column[d], d, pass.stack)
      /\ column[c].dim = Width(pass.stack, c) /\ e # NULL /\ FillOK
      /\ c = "embedding_v2" => FirstDone(column["embedding"], pass.stack, pass.failed)
    BY <1>0 DEF SchemaOK
<1>2. e.id \notin NoModel /\ e.dim = column[c].dim
    BY <1>0, <1>1, StackShape
<1>3. left \in SUBSET Chunks /\ left \subseteq Rows /\ \A i \in left : Vec(i, c) = NULL
    BY DEF Null, Rows
<1>4. stack' \in Stacks /\ seeding' \in Stacks \cup {NULL}
    BY <1>0 DEF StoreShapes
\* Every missing primary vector beyond the last id is among those left.
<1>5. c = "embedding" => \A i \in Rows : Vec(i, "embedding") = NULL /\ i > pass.last => i \in left
    BY MissingIsFound
<1>6. \/ left = {} /\ pass' = [pass EXCEPT !.at = "finalize", !.last = 0] /\ UNCHANGED chunk
      \/ /\ left # {}
         /\ \E b \in Batches(left, TRUE) : \E rejected \in SUBSET b :
               /\ chunk' = Written(b, c, e, rejected)
               /\ pass' = [pass EXCEPT !.last = LastId(b), !.failed = @ \/ (c = "embedding" /\ rejected # {})]
    BY DEF _reembed_null_vectors
<1>7. c = pass.col
    OBVIOUS
<1>8. e = pass.stack[c]
    OBVIOUS
<1> HIDE DEF c, e, left
<1>9. CASE left = {} /\ pass' = [pass EXCEPT !.at = "finalize", !.last = 0] /\ UNCHANGED chunk
  <2>1. /\ pass' \in Pass /\ pass'.cmd = "schema" /\ pass'.stack = pass.stack /\ pass'.col = c
        /\ pass'.batch = pass.batch /\ pass'.at = "finalize" /\ pass'.plan = pass.plan
      BY <1>0, <1>7, <1>9, PassFields DEF Pass
  <2>2. pass'.failed = pass.failed
      BY <1>9, PassFields DEF Pass
  <2>3. FillOK'
    <3>1. c = "embedding" /\ ~pass.failed => \A i \in Rows : Vec(i, "embedding") # NULL
        BY <1>0, <1>1, <1>5, <1>7, <1>9 DEF FillOK
    <3> QED BY <1>9, <2>1, <2>2, <3>1 DEF FillOK, Rows, Vec
  <2>4. SchemaOK'
      BY <1>0, <1>1, <2>1, <2>2, <2>3 DEF SchemaOK
  <2>5. ReembedOK'
      BY <1>0, <2>1 DEF ReembedOK
  <2> QED BY <1>0, <1>4, <1>9, <2>1, <2>4, <2>5, StoreKept, SweptKept, SettledKept DEF StoreInv, StoreShapes
<1>10. CASE /\ left # {}
            /\ \E b \in Batches(left, TRUE) : \E rejected \in SUBSET b :
                  /\ chunk' = Written(b, c, e, rejected)
                  /\ pass' = [pass EXCEPT !.last = LastId(b), !.failed = @ \/ (c = "embedding" /\ rejected # {})]
  <2>0. PICK b \in Batches(left, TRUE) : \E rejected \in SUBSET b :
               /\ chunk' = Written(b, c, e, rejected)
               /\ pass' = [pass EXCEPT !.last = LastId(b), !.failed = @ \/ (c = "embedding" /\ rejected # {})]
      BY <1>10
  <2>1. PICK rejected \in SUBSET b :
               /\ chunk' = Written(b, c, e, rejected)
               /\ pass' = [pass EXCEPT !.last = LastId(b), !.failed = @ \/ (c = "embedding" /\ rejected # {})]
      BY <2>0
  <2> DEFINE l == LastId(b)
             f == pass.failed \/ (c = "embedding" /\ rejected # {})
  <2>2. b \subseteq left /\ b # {} /\ \A i \in b, j \in left \ b : i < j
      BY <1>3, <1>10, BatchTaken
  <2>3. b \in SUBSET Rows /\ b \in SUBSET Chunks
      BY <1>3, <2>2
  <2>4. l \in b /\ l \in Nat
      BY <2>2, <2>3, LastIdGreatest
  <2>5. swept[c].by = NULL
      BY <1>0, <1>3, <2>2, <2>4 DEF PassLeavesOneModel
  <2>6. Wrote(b, c, e, rejected)
    <3>1. column' = column /\ swept' = swept
        BY <1>0
    <3> QED BY <1>0, <1>1, <1>2, <2>1, <2>3, <2>5, <3>1, WrittenVectors
  <2>7. pass' = [pass EXCEPT !.last = l, !.failed = f]
      BY <2>1, PassFields DEF Pass
  <2>8. f \in BOOLEAN /\ (pass.failed => f) /\ (c = "embedding" /\ ~f => ~pass.failed /\ rejected = {})
      BY PassFields
  <2> HIDE DEF l, f
  <2>9. /\ pass' \in Pass /\ pass'.cmd = "schema" /\ pass'.stack = pass.stack /\ pass'.col = c
        /\ pass'.batch = pass.batch /\ pass'.at = "fill" /\ pass'.plan = pass.plan /\ pass'.last = l
      BY <1>0, <1>7, <2>4, <2>7, <2>8, PassFields DEF Pass
  <2>10. pass'.failed = f
      BY <2>7, <2>8, PassFields DEF Pass
  <2>11. FillOK'
    <3> SUFFICES ASSUME c = "embedding", ~f, NEW i \in Rows', chunk'[i]["embedding"].vec = NULL
                 PROVE  i > l
        BY <2>9, <2>10 DEF FillOK, Vec
    <3>1. ~pass.failed /\ rejected = {} /\ i \in Rows
        BY <2>6, <2>8 DEF Wrote
    <3>2. i \notin b
        BY <1>1, <2>6, <3>1 DEF Wrote
    <3>3. Vec(i, "embedding") = NULL
        BY <2>6, <3>1, <3>2 DEF Wrote, Vec
    <3>4. i \in left
        BY <1>0, <1>1, <1>5, <1>7, <3>1, <3>3 DEF FillOK
    <3>5. l < i /\ i \in Nat
        BY <2>2, <2>4, <3>2, <3>4, <1>3, KnowledgeAssumption
    <3> QED BY <2>4, <3>5
  <2>12. SchemaOK'
    <3>1. c = "embedding_v2" => FirstDone(column["embedding"], pass.stack, f)
        BY <1>1, <2>8 DEF FirstDone
    <3> QED BY <1>0, <1>1, <1>8, <2>9, <2>10, <2>11, <3>1 DEF SchemaOK
  <2>13. ReembedOK'
      BY <1>0, <2>9 DEF ReembedOK
  <2> QED BY <1>0, <1>4, <2>6, <2>9, <2>12, <2>13, SettledKept DEF StoreInv, StoreShapes, Wrote
<1> QED BY <1>6, <1>9, <1>10

\* A column gets its index, and the next one its turn.
LEMMA ColumnIsFinalized ==
    ASSUME StoreInv, _finalize_column
    PROVE  StoreInv'
<1> DEFINE c == pass.col
           s == pass.stack
           p == pass.plan[c]
           other == pass.plan["embedding_v2"]
           nn == column[c].notnull \/ (p.restore_not_null /\ ~pass.failed)
           ix == IF p.build_index THEN IndexKind(Width(s, c)) ELSE column[c].index
           k == [column[c] EXCEPT !.notnull = nn, !.index = ix]
<1>0. /\ pass.at = "finalize" /\ pass.cmd = "schema" /\ StoreShapes /\ CellsOK /\ PassLeavesOneModel
      /\ ReembedOK /\ SchemaOK /\ c \in Columns /\ UNCHANGED <<chunk, stack, seeding, swept>>
      /\ ~column["embedding_v2"].notnull
    BY PassFields DEF _finalize_column, StoreInv, SchemaOK
<1>1. /\ s \in Stacks /\ pass.plan \in [Columns -> Flags] /\ settled = NULL
      /\ \A d \in Columns : PlanOK(pass.plan[d], column[d], d, s)
      /\ column[c].dim = Width(s, c) /\ FillOK
      /\ c = "embedding_v2" => FirstDone(column["embedding"], s, pass.failed)
    BY <1>0 DEF SchemaOK
<1>2. column[c] \in Column /\ p \in Flags /\ PlanOK(p, column[c], c, s)
    BY <1>0, <1>1 DEF StoreShapes
<1>3. column' = [column EXCEPT ![c] = k]
    BY <1>0 DEF _finalize_column, StoreShapes, Column
<1>4. IF c = "embedding" /\ ~in_sync(other)
      THEN pass' = [pass EXCEPT !.col = "embedding_v2", !.at = Begins(other)] /\ UNCHANGED settled
      ELSE pass' = Idle /\ settled' = IF pass.failed THEN NULL ELSE s
    BY DEF _finalize_column
<1>5. nn \in BOOLEAN /\ ix \in {"none", "cosine", "bq"} /\ ix = IndexKind(Width(s, c))
    BY <1>2 DEF Column, PlanOK, IndexKind
<1>6. /\ c = "embedding_v2" => ~nn
      /\ column[c].notnull => nn
      /\ c = "embedding" => pass.failed \/ nn
      /\ c = "embedding" /\ nn => column[c].notnull \/ \A i \in Rows : Vec(i, "embedding") # NULL
    BY <1>0, <1>1, <1>2 DEF PlanOK, FillOK
<1>7. c = pass.col /\ s = pass.stack /\ p = pass.plan[c] /\ other = pass.plan["embedding_v2"]
    OBVIOUS
<1> HIDE DEF nn, ix, c, s, p, other
<1>8. k \in Column /\ k.dim = column[c].dim /\ k.index = ix
    BY <1>2, <1>5 DEF Column
<1>9. k.notnull = nn
    BY <1>2, <1>5 DEF Column
<1> HIDE DEF k
<1>10. column' \in [Columns -> Column] /\ column'[c] = k /\ \A d \in Columns : d # c => column'[d] = column[d]
    BY <1>0, <1>3, <1>8 DEF StoreShapes
<1>11. ~column'["embedding_v2"].notnull
    BY <1>0, <1>6, <1>9, <1>10 DEF Columns
<1>12. CellsOK'
  <2> SUFFICES ASSUME NEW i \in Rows, NEW d \in Columns PROVE CellOK(chunk[i][d], column'[d], d)
      BY <1>0 DEF CellsOK, Rows
  <2>1. CellOK(chunk[i][d], column[d], d)
      BY <1>0 DEF CellsOK
  <2>2. CASE d # c
      BY <1>10, <2>1, <2>2
  <2>3. CASE d = c
    <3>1. ASSUME chunk[i][d].vec = NULL PROVE ~k.notnull
      <4>1. ~column[c].notnull
          BY <2>1, <2>3, <3>1 DEF CellOK
      <4>2. c = "embedding" => ~ \A j \in Rows : Vec(j, "embedding") # NULL
          BY <2>3, <3>1 DEF Vec
      <4> QED BY <1>0, <1>6, <1>9, <4>1, <4>2 DEF Columns
    <3> QED BY <1>8, <1>10, <2>1, <2>3, <3>1 DEF CellOK
  <2> QED BY <2>2, <2>3
<1>13. /\ DOMAIN chunk' = Chunks /\ \A i \in Rows' : DOMAIN chunk'[i] = Columns
       /\ stack' \in Stacks /\ seeding' \in Stacks \cup {NULL}
    BY <1>0 DEF StoreShapes, Rows
<1>14. c = "embedding" => FirstDone(k, s, pass.failed)
    BY <1>1, <1>5, <1>6, <1>8, <1>9 DEF FirstDone
<1>15. CASE c = "embedding" /\ ~in_sync(other)
  <2> DEFINE at == Begins(other)
  <2>0. pass' = [pass EXCEPT !.col = "embedding_v2", !.at = at] /\ settled' = settled
      BY <1>4, <1>15
  <2>1. other \in Flags /\ PlanOK(other, column["embedding_v2"], "embedding_v2", s) /\ "embedding_v2" \in Columns
      BY <1>1, <1>7 DEF Columns
  <2>2. /\ at \in {"retype", "fill", "finalize"} /\ (at = "retype" => other.retype)
        /\ at = "fill" => ~other.retype /\ other.reembed_nulls
        /\ at = "finalize" => ~other.retype /\ ~other.reembed_nulls
      BY <2>1, WorkBegins
  <2> HIDE DEF at
  <2>3. /\ pass' \in Pass /\ pass'.cmd = "schema" /\ pass'.stack = s /\ pass'.col = "embedding_v2"
        /\ pass'.batch = pass.batch /\ pass'.at = at /\ pass'.plan = pass.plan
      BY <1>0, <1>7, <2>0, <2>1, <2>2, PassFields DEF Pass
  <2>4. pass'.failed = pass.failed
      BY <2>0, PassFields DEF Pass
  <2>5. column'["embedding_v2"] = column["embedding_v2"] /\ column'["embedding"] = k
      BY <1>10, <1>15, <2>1
  <2>6. PlanOK(pass.plan["embedding"], k, "embedding", s)
      BY <1>2, <1>5, <1>6, <1>7, <1>8, <1>9, <1>15 DEF PlanOK
  <2>7. \A d \in Columns : PlanOK(pass.plan[d], column'[d], d, s)
      BY <1>7, <2>1, <2>5, <2>6 DEF Columns
  <2>8. FillOK'
      BY <2>3 DEF FillOK
  <2>9. (at # "retype" => column'["embedding_v2"].dim = Width(s, "embedding_v2"))
        /\ (at = "fill" => s["embedding_v2"] # NULL)
      BY <2>1, <2>2, <2>5 DEF PlanOK
  <2>10. SchemaOK'
      BY <1>1, <1>7, <1>14, <1>15, <2>0, <2>2, <2>3, <2>4, <2>5, <2>7, <2>8, <2>9 DEF SchemaOK
  <2>11. ReembedOK'
      BY <1>0, <2>3 DEF ReembedOK
  <2>12. SettledOK' /\ settled' \in Stacks \cup {NULL}
      BY <1>1, <2>0 DEF SettledOK
  <2> QED BY <1>0, <1>10, <1>11, <1>12, <1>13, <2>3, <2>10, <2>11, <2>12, SweptKept DEF StoreInv, StoreShapes
<1>16. CASE ~(c = "embedding" /\ ~in_sync(other))
  <2>0. pass' = Idle /\ settled' = IF pass.failed THEN NULL ELSE s
      BY <1>4, <1>16
  <2>1. ASSUME ~pass.failed PROVE FirstDone(column'["embedding"], s, FALSE)
    <3>1. CASE c = "embedding"
        BY <1>10, <1>14, <2>1, <3>1 DEF FirstDone, Columns
    <3>2. CASE c = "embedding_v2"
        BY <1>1, <1>10, <2>1, <3>2 DEF FirstDone, Columns
    <3> QED BY <1>0, <3>1, <3>2 DEF Columns
  <2>2. column'["embedding_v2"].dim = Width(s, "embedding_v2")
        /\ column'["embedding_v2"].index = IndexKind(Width(s, "embedding_v2"))
    <3>1. CASE c = "embedding"
      <4>1. in_sync(other) /\ PlanOK(other, column["embedding_v2"], "embedding_v2", s)
          BY <1>1, <1>7, <1>16, <3>1 DEF Columns
      <4> QED BY <1>10, <3>1, <4>1 DEF in_sync, PlanOK, Columns
    <3>2. CASE c = "embedding_v2"
        BY <1>1, <1>5, <1>8, <1>10, <3>2
    <3> QED BY <1>0, <3>1, <3>2 DEF Columns
  <2>3. SettledOK' /\ settled' \in Stacks \cup {NULL}
    <3>1. CASE pass.failed
        BY <2>0, <3>1 DEF SettledOK
    <3>2. CASE ~pass.failed
      <4>1. settled' = s
          BY <2>0, <3>2
      <4> QED BY <1>1, <2>1, <2>2, <3>2, <4>1 DEF SettledOK, FirstDone, Columns
    <3> QED BY <3>1, <3>2
  <2> QED BY <1>0, <1>10, <1>11, <1>12, <1>13, <2>0, <2>3, NothingRuns, SweptKept DEF StoreInv, StoreShapes
<1> QED BY <1>15, <1>16

-----------------------------------------------------------------------------
(* The knowledge store: the theorems.                                      *)

\* The store begins without a chunk, with the columns of its settings.
LEMMA StoreInit == NInit => StoreInv
<1> SUFFICES ASSUME NInit PROVE StoreInv
    OBVIOUS
<1> DEFINE k(c) == [dim |-> stack["embedding"].dim, notnull |-> c = "embedding", index |-> "cosine"]
<1>0. /\ chunk = [i \in Chunks |-> NULL] /\ stack \in Stacks /\ column = [c \in Columns |-> k(c)]
      /\ seeding = NULL /\ pass = Idle /\ swept = [c \in Columns |-> Unswept] /\ settled = NULL
    BY DEF NInit
<1>1. Rows = {} /\ DOMAIN chunk = Chunks
    BY <1>0 DEF Rows
<1>2. stack["embedding"].dim \in Widths
    BY <1>0, StackShape DEF Width, Columns
<1>3. \A c \in Columns : k(c) \in Column
    BY <1>2 DEF Column
<1>4. ~k("embedding_v2").notnull
    OBVIOUS
<1> HIDE DEF k
<1>5. column \in [Columns -> Column] /\ ~column["embedding_v2"].notnull
    BY <1>0, <1>3, <1>4 DEF Columns
<1>6. swept \in [Columns -> [by : Embedders \cup {NULL}, exact : BOOLEAN]] /\ \A c \in Columns : swept[c].by = NULL
    BY <1>0 DEF Unswept
<1>7. pass \in Pass /\ ReembedOK /\ SchemaOK
    BY <1>0, IdleShape DEF ReembedOK, SchemaOK
<1> QED BY <1>0, <1>1, <1>5, <1>6, <1>7 DEF StoreInv, StoreShapes, CellsOK, PassLeavesOneModel, SettledOK

\* Every step of the knowledge store keeps the invariant.
LEMMA StoreInvKept == StoreInv /\ [NNext]_nvars => StoreInv'
<1> SUFFICES ASSUME StoreInv, [NNext]_nvars PROVE StoreInv'
    OBVIOUS
<1>1. CASE UNCHANGED nvars
  <2>1. UNCHANGED <<chunk, column, pass, swept, settled, stack, seeding>>
      BY <1>1 DEF nvars
  <2>2. stack' \in Stacks /\ seeding' \in Stacks \cup {NULL}
      BY <2>1 DEF StoreInv, StoreShapes
  <2> QED BY <2>1, <2>2, SettingsSteps
<1>2. CASE PassStep
    BY <1>2, BatchIsSelected, BatchIsReembedded, ReembedIsDone, ColumnIsRetyped, VectorsAreFilled,
       ColumnIsFinalized DEF PassStep
<1>3. CASE PassKilled \/ StartSchema \/ StartSeeding \/ upsert \/ SeedingFails \/ \E s \in Stacks : ChangeSettings(s)
    BY <1>3, PassIsKilled, SchemaStarts, SeedingStartsOrFails, ChunkIsSeeded
<1>4. ASSUME NEW c \in Columns, NEW force \in BOOLEAN,
             NEW owners \in {{Owner[i] : i \in Chunks}} \cup {{Owner[i]} : i \in Chunks},
             StartReembed(c, force, owners)
      PROVE  StoreInv'
  <2>1. owners \in SUBSET {Owner[i] : i \in Chunks}
      BY <1>4
  <2> QED BY <1>4, <2>1, ReembedStarts
<1> QED BY <1>1, <1>2, <1>3, <1>4 DEF NNext

\* The knowledge store, through every kill and change of settings: a vector's
\* stamp names the model that made it and its column's width is the vector's, a
\* missing vector is never stamped with a model, and NOT NULL holds.
THEOREM StampsStayHonest == OpsSpec => []StampsAreHonest
<1>1. StoreInv => StampsAreHonest
    BY DEF StoreInv, CellsOK, CellOK, StampsAreHonest, NoModel, Vec, Stamp
<1> QED BY <1>1, PartsOfOperations, StoreInit, StoreInvKept, PTL

\* reembed of the whole corpus that returns leaves vectors of one model, and a
\* forced one that rejected nothing those of one embedder, until a chunk is
\* seeded with another or the column is re-typed: for every corpus, batch size
\* and set of configurations, with seeding and changes of settings beside it.
THEOREM ReembedLeavesOneModel == OpsSpec => []PassLeavesOneModel
<1>1. StoreInv => PassLeavesOneModel
    BY DEF StoreInv
<1> QED BY <1>1, PartsOfOperations, StoreInit, StoreInvKept, PTL

\* embedding_schema that reports done, by one run or by resuming killed and
\* failed ones, leaves both columns of the configured width with the right
\* index, NOT NULL on the primary, and search finds what a text matches.
THEOREM SchemaIsSettled == OpsSpec => []SchemaSettles
<1>1. StoreInv => SchemaSettles
  <2> SUFFICES ASSUME StoreInv, settled # NULL PROVE SchemaSettles
      BY DEF SchemaSettles
  <2>1. /\ column["embedding"].notnull
        /\ \A c \in Columns : column[c].dim = Width(settled, c) /\ column[c].index = IndexKind(Width(settled, c))
      BY DEF StoreInv, SettledOK, FirstDone
  <2>2. \A i \in Rows : Vec(i, "embedding") # NULL
      BY <2>1 DEF StoreInv, CellsOK, CellOK, Vec, Columns
  <2>3. \A o, words : _fts_candidates(o, words) \subseteq search(o, words)
      BY <2>2 DEF _fts_candidates, search, _vector_candidates, _vector_aux_candidates, Visible
  <2> QED BY <2>1, <2>3 DEF SchemaSettles
<1> QED BY <1>1, PartsOfOperations, StoreInit, StoreInvKept, PTL

-----------------------------------------------------------------------------
(* The certificates.                                                       *)

\* The next file to write belongs to n.
Pending(n) == job.out # <<>> /\ Head(job.out).path[1] = n

Bare(n) == ~Exists(n, "cert") /\ ~Exists(n, "key")

\* Both files of n can be read and hold one pair.
Whole(n) == Readable(n, "cert") /\ Readable(n, "key") /\ File(n, "cert").key = File(n, "key").key

CaGood(k) == Whole("ca") /\ File("ca", "cert").key = k
Trusted(n, k) == Whole(n) /\ File(n, "cert").signer = k

\* What a reissue may put in the place of a certificate.
Replaces(cert, old) == old.st = "ok" => cert.kind = old.kind /\ old.sans \subseteq cert.sans

KShapes ==
    /\ disk = [p \in Paths |-> disk[p]]
    /\ \A p \in Paths : /\ disk[p].st \in {"none", "torn", "ok"}
                        /\ disk[p].kind \in {"none", "server", "client"}
                        /\ disk[p].sans \subseteq Hosts
    /\ job = [cmd |-> job.cmd, sel |-> job.sel, sans |-> job.sans, cakey |-> job.cakey,
              todo |-> job.todo, out |-> job.out]
    /\ job.cmd \in {"idle", "init", "add-host", "renew", "renew-ca"}
    /\ job.sans \subseteq Hosts /\ job.todo \subseteq Names
    /\ issued \in 0..MaxCommands

\* Both files of a pair are ahead, or its key is and its certificate is on disk.
CaAhead == job.out = CaFiles(job.cakey)
CaHalf == 
    /\ job.out = <<write_key_pem("ca", job.cakey)>>
    /\ Readable("ca", "cert") /\ File("ca", "cert").key = job.cakey
LeafCert(k, kind, sans) ==
    [st |-> "ok", key |-> k, signer |-> job.cakey, kind |-> kind, sans |-> sans]
LeafAhead(n, k, kind, sans) ==
    /\ job.out = <<write_cert_pem(n, LeafCert(k, kind, sans)), write_key_pem(n, k)>>
    /\ Replaces(LeafCert(k, kind, sans), File(n, "cert"))
LeafHalf(n, k) ==
    /\ job.out = <<write_key_pem(n, k)>>
    /\ Readable(n, "cert") /\ File(n, "cert").key = k /\ File(n, "cert").signer = job.cakey

OutOK ==
    \/ job.out = <<>>
    \/ CaAhead
    \/ CaHalf
    \/ \E n \in Names \ job.todo :
          \/ \E k : \E kind \in {"server", "client", "none"}, sans \in SUBSET Hosts : LeafAhead(n, k, kind, sans)
          \/ \E k : LeafHalf(n, k)

CaOK ==
    /\ job.cmd # "idle" /\ (job.cmd \in {"init", "renew-ca"} \/ ~excused) /\ ~Pending("ca")
        => CaGood(job.cakey)
    /\ job.cmd # "idle" /\ ~Pending("ca") => ca_exists
    /\ job.cmd \notin {"idle", "init"} => ca_exists
    /\ ca_exists \/ \A n \in Names : Bare(n)

Settles ==
    \/ job.cmd = "init" /\ (job.sans # {} \/ ~excused)
    \/ job.cmd = "renew-ca" /\ job.sel = Names
    \/ job.cmd \in {"add-host", "renew"} /\ ~excused

LeavesOK ==
    /\ Settles => \A n \in leaves_present :
         ~Pending(n) /\ (n \notin job.todo \/ job.cmd \in {"add-host", "renew"}) => Trusted(n, job.cakey)
    /\ \A n \in job.todo : /\ job.cmd = "init" => Bare(n)
                           /\ ~excused /\ job.cmd # "init" => Readable(n, "cert")

RestOK ==
    job.cmd = "idle" =>
        /\ job.out = <<>> /\ job.todo = {}
        /\ ~excused /\ ca_exists =>
              /\ CaGood(File("ca", "cert").key)
              /\ \A n \in leaves_present : Trusted(n, File("ca", "cert").key)

KInv == KShapes /\ OutOK /\ CaOK /\ LeavesOK /\ RestOK

\* One file to write.
LEMMA OneOut ==
    ASSUME NEW a
    PROVE  Head(<<a>>) = a /\ Tail(<<a>>) = <<>> /\ <<a>> # <<>>
OBVIOUS

\* Two files to write.
LEMMA TwoOut ==
    ASSUME NEW a, NEW b
    PROVE  Head(<<a, b>>) = a /\ Tail(<<a, b>>) = <<b>> /\ <<a, b>> # <<>>
<1>1. /\ <<a, b>> \in Seq({a, b}) /\ Len(<<a, b>>) = 2 /\ Head(<<a, b>>) = a
    OBVIOUS
<1>2. Tail(<<a, b>>) \in Seq({a, b}) /\ Len(Tail(<<a, b>>)) = 1 /\ Tail(<<a, b>>)[1] = b
    BY <1>1
<1>3. Tail(<<a, b>>) = <<b>>
    BY <1>2
<1> QED BY <1>1, <1>3

\* The files of different names, and of one name, are different.
LEMMA PathsApart ==
    /\ "ca" \notin Names
    /\ \A n \in Names \cup {"ca"} : <<n, "cert">> \in Paths /\ <<n, "key">> \in Paths
    /\ \A n \in Names \cup {"ca"}, w \in {"cert", "key"} : <<n, w>>[1] = n
    /\ \A n, m \in Names \cup {"ca"}, v, w \in {"cert", "key"} :
          <<n, v>> = <<m, w>> <=> n = m /\ v = w
    /\ \A p \in Paths : \E n \in Names \cup {"ca"}, w \in {"cert", "key"} : p = <<n, w>>
BY CertsAssumption DEF Paths

\* The store begins without a file.
LEMMA CertsInit == KInit => KInv
<1> SUFFICES ASSUME KInit PROVE KInv
    OBVIOUS
<1>1. /\ disk = [p \in Paths |-> NoFile] /\ job = NoJob /\ excused = FALSE /\ issued = 0
    BY DEF KInit
<1>2. /\ job = [cmd |-> "idle", sel |-> Names, sans |-> {}, cakey |-> 0, todo |-> {}, out |-> <<>>]
    BY <1>1 DEF NoJob
<1>3. /\ job.cmd = "idle" /\ job.sans = {} /\ job.todo = {} /\ job.out = <<>>
    BY <1>2
<1>4. \A p \in Paths : disk[p].st = "none" /\ disk[p].kind = "none" /\ disk[p].sans = {}
    BY <1>1 DEF NoFile
<1>5. KShapes
  <2>1. job = [cmd |-> job.cmd, sel |-> job.sel, sans |-> job.sans, cakey |-> job.cakey,
               todo |-> job.todo, out |-> job.out]
      BY <1>2
  <2>2. issued \in 0..MaxCommands
      BY <1>1, CertsAssumption
  <2> QED BY <1>1, <1>3, <1>4, <2>1, <2>2 DEF KShapes
<1>6. OutOK /\ LeavesOK
    BY <1>3 DEF OutOK, LeavesOK, Settles
<1>7. \A n \in Names : Bare(n)
    BY <1>4, PathsApart DEF Bare, Exists, File
<1>8. ~ca_exists
    BY <1>4, PathsApart DEF ca_exists, Exists, File
<1>9. CaOK /\ RestOK
    BY <1>3, <1>7, <1>8 DEF CaOK, RestOK
<1> QED BY <1>5, <1>6, <1>9 DEF KInv

\* Only the files to write change.
LEMMA OutMoves ==
    ASSUME KShapes, NEW o, job' = [job EXCEPT !.out = o]
    PROVE  /\ job' = [cmd |-> job'.cmd, sel |-> job'.sel, sans |-> job'.sans,
                      cakey |-> job'.cakey, todo |-> job'.todo, out |-> job'.out]
           /\ job'.cmd = job.cmd /\ job'.sel = job.sel /\ job'.sans = job.sans
           /\ job'.cakey = job.cakey /\ job'.todo = job.todo /\ job'.out = o
BY DEF KShapes

\* The files of a new pair.
LEMMA NewCert ==
    ASSUME NEW n, NEW cert
    PROVE  write_cert_pem(n, cert).path = <<n, "cert">> /\ write_cert_pem(n, cert).file = cert
BY DEF write_cert_pem

\* What a command writes for a key.
LEMMA NewKey ==
    ASSUME NEW n, NEW k
    PROVE  /\ write_key_pem(n, k).path = <<n, "key">>
           /\ write_key_pem(n, k).file.st = "ok" /\ write_key_pem(n, k).file.key = k
           /\ write_key_pem(n, k).file.kind = "none" /\ write_key_pem(n, k).file.sans = {}
BY DEF write_key_pem, NoFile

\* A write keeps the invariant, and a readable certificate its kind and names.
LEMMA WriteKept ==
    ASSUME KInv, WriteFile
    PROVE  /\ KInv'
           /\ \A n \in Names : Replaces(File(n, "cert")', File(n, "cert")) \/ ~Readable(n, "cert")'
<1>a. KShapes /\ OutOK /\ CaOK /\ LeavesOK /\ RestOK
    BY DEF KInv
<1>b. /\ job.out # <<>>
      /\ disk' = [disk EXCEPT ![Head(job.out).path] = Head(job.out).file]
      /\ job' = [job EXCEPT !.out = Tail(job.out)]
      /\ excused' = excused /\ issued' = issued
    BY DEF WriteFile
<1>c. /\ job' = [cmd |-> job'.cmd, sel |-> job'.sel, sans |-> job'.sans,
                 cakey |-> job'.cakey, todo |-> job'.todo, out |-> job'.out]
      /\ job'.cmd = job.cmd /\ job'.sel = job.sel /\ job'.sans = job.sans
      /\ job'.cakey = job.cakey /\ job'.todo = job.todo /\ job'.out = Tail(job.out)
    BY <1>a, <1>b, OutMoves
<1>d. job.cmd # "idle"
    BY <1>a, <1>b DEF RestOK
<1>e. RestOK'
    BY <1>c, <1>d DEF RestOK
\* A step that wrote file f of n; only its kind and names matter to the shapes.
<1>f. ASSUME NEW p \in Paths, NEW f, Head(job.out).path = p, Head(job.out).file = f,
             f.st = "ok", f.kind \in {"none", "server", "client"}, f.sans \subseteq Hosts
      PROVE  /\ KShapes' /\ disk'[p] = f
             /\ \A q \in Paths : q # p => disk'[q] = disk[q]
  <2>1. /\ disk' = [q \in Paths |-> disk'[q]] /\ disk'[p] = f
        /\ \A q \in Paths : q # p => disk'[q] = disk[q]
    <3>1. disk = [q \in Paths |-> disk[q]] /\ disk' = [disk EXCEPT ![p] = f]
        BY <1>a, <1>b, <1>f DEF KShapes
    <3> QED BY <3>1
  <2> QED BY <1>a, <1>b, <1>c, <1>f, <2>1 DEF KShapes
<1>1. CASE CaAhead
  <2> DEFINE c == write_cert_pem("ca", [NoFile EXCEPT !.st = "ok", !.key = job.cakey, !.signer = job.cakey])
             y == write_key_pem("ca", job.cakey)
  <2>1. /\ Head(job.out) = c /\ job'.out = <<y>>
        /\ Pending("ca") /\ ~(job'.out = <<>>) /\ Head(job'.out) = y
      BY <1>1, <1>c, TwoOut, OneOut DEF CaAhead, CaFiles, Pending, write_cert_pem
  <2>2. /\ c.path = <<"ca", "cert">> /\ c.file.st = "ok" /\ c.file.key = job.cakey
        /\ c.file.kind = "none" /\ c.file.sans = {} /\ y.path = <<"ca", "key">>
      BY NewKey DEF NoFile, write_cert_pem
  <2>3. y = write_key_pem("ca", job.cakey)
      OBVIOUS
  <2> HIDE DEF c, y
  <2>4. /\ KShapes' /\ disk'[<<"ca", "cert">>] = c.file
        /\ \A q \in Paths : q # <<"ca", "cert">> => disk'[q] = disk[q]
      BY <1>f, <2>1, <2>2, PathsApart
  <2>5. /\ File("ca", "cert")' = c.file /\ File("ca", "key")' = File("ca", "key")
        /\ \A n \in Names : File(n, "cert")' = File(n, "cert") /\ File(n, "key")' = File(n, "key")
      BY <2>4, PathsApart DEF File
  <2>6. CaHalf'
      BY <1>c, <2>1, <2>2, <2>3, <2>5 DEF CaHalf, Readable, write_key_pem
  <2>7. OutOK'
      BY <2>6 DEF OutOK
  <2>8. Pending("ca")' /\ \A n \in Names : ~Pending(n) /\ ~Pending(n)'
      BY <2>1, <2>2, PathsApart DEF Pending
  <2>9. CaOK'
      BY <1>a, <1>c, <2>2, <2>5, <2>8 DEF CaOK, ca_exists, Exists, Bare
  <2>10. LeavesOK'
      BY <1>a, <1>b, <1>c, <2>5, <2>8
         DEF KShapes, LeavesOK, Settles, leaves_present, Exists, Bare, Trusted, Whole, Readable
  <2> QED BY <1>a, <1>e, <2>4, <2>5, <2>7, <2>9, <2>10 DEF KInv, Replaces, Readable
<1>2. CASE CaHalf
  <2> DEFINE y == write_key_pem("ca", job.cakey)
  <2>1. Head(job.out) = y /\ job'.out = <<>>
      BY <1>2, <1>c, OneOut DEF CaHalf
  <2>2. /\ y.path = <<"ca", "key">> /\ y.file.st = "ok" /\ y.file.key = job.cakey
        /\ y.file.kind = "none" /\ y.file.sans = {}
      BY NewKey
  <2>3. Head(job.out).path = y.path /\ Head(job.out).file = y.file
      BY <2>1
  <2> HIDE DEF y
  <2>a. /\ <<"ca", "key">> \in Paths /\ Head(job.out).path = <<"ca", "key">>
        /\ y.file.st = "ok" /\ y.file.kind \in {"none", "server", "client"} /\ y.file.sans \subseteq Hosts
      BY <2>2, <2>3, PathsApart
  <2>4. /\ KShapes' /\ disk'[<<"ca", "key">>] = y.file
        /\ \A q \in Paths : q # <<"ca", "key">> => disk'[q] = disk[q]
      BY <1>f, <2>a, <2>3
  <2>5. /\ File("ca", "key")' = y.file /\ File("ca", "cert")' = File("ca", "cert")
        /\ \A n \in Names : File(n, "cert")' = File(n, "cert") /\ File(n, "key")' = File(n, "key")
      BY <2>4, PathsApart DEF File
  <2>7. OutOK'
      BY <2>1 DEF OutOK
  <2>8. \A n \in Names : ~Pending(n) /\ ~Pending(n)'
      BY <2>1, <2>2, PathsApart DEF Pending
  <2>9. CaGood(job.cakey)' /\ ca_exists'
      BY <1>2, <1>c, <2>2, <2>5 DEF CaHalf, CaGood, Whole, Readable, ca_exists, Exists
  <2>10. CaOK'
      BY <1>c, <2>9 DEF CaOK, CaGood
  <2>11. LeavesOK'
      BY <1>a, <1>b, <1>c, <2>5, <2>8
         DEF KShapes, LeavesOK, Settles, leaves_present, Exists, Bare, Trusted, Whole, Readable
  <2> QED BY <1>a, <1>e, <2>4, <2>5, <2>7, <2>10, <2>11 DEF KInv, Replaces, Readable
<1>3. ASSUME NEW n \in Names \ job.todo, NEW k, NEW kind \in {"server", "client", "none"},
             NEW sans \in SUBSET Hosts, LeafAhead(n, k, kind, sans)
      PROVE  KInv' /\ \A m \in Names : Replaces(File(m, "cert")', File(m, "cert")) \/ ~Readable(m, "cert")'
  <2> DEFINE f == LeafCert(k, kind, sans)
             y == write_key_pem(n, k)
  <2>1. /\ Head(job.out).path = <<n, "cert">> /\ Head(job.out).file = f /\ job'.out = <<y>>
        /\ job'.out # <<>> /\ Head(job'.out) = y
      BY <1>3, <1>c, TwoOut, OneOut, NewCert DEF LeafAhead
  <2>2. /\ f.st = "ok" /\ f.key = k /\ f.signer = job.cakey /\ f.kind = kind /\ f.sans = sans
        /\ y.path = <<n, "key">>
      BY NewKey DEF LeafCert
  <2>3. y = write_key_pem(n, k) /\ Replaces(f, File(n, "cert"))
      BY <1>3 DEF LeafAhead
  <2> HIDE DEF f, y
  <2>4. /\ KShapes' /\ disk'[<<n, "cert">>] = f
        /\ \A q \in Paths : q # <<n, "cert">> => disk'[q] = disk[q]
      BY <1>f, <2>1, <2>2, PathsApart
  <2>5. /\ File(n, "cert")' = f /\ File(n, "key")' = File(n, "key")
        /\ \A m \in (Names \cup {"ca"}) \ {n} :
              File(m, "cert")' = File(m, "cert") /\ File(m, "key")' = File(m, "key")
      BY <2>4, PathsApart DEF File
  <2>6. LeafHalf(n, k)'
      BY <1>c, <2>1, <2>2, <2>3, <2>5 DEF LeafHalf, Readable, write_key_pem
  <2>7. OutOK'
      BY <1>c, <2>6 DEF OutOK
  <2>8. /\ Pending(n) /\ Pending(n)' /\ \A m \in (Names \cup {"ca"}) \ {n} : ~Pending(m) /\ ~Pending(m)'
      BY <1>b, <2>1, <2>2, PathsApart DEF Pending
  <2>9. /\ "ca" \in (Names \cup {"ca"}) \ {n} /\ n \notin job'.todo
        /\ \A m \in job'.todo : m \in (Names \cup {"ca"}) \ {n}
      BY <1>3, <1>a, <1>c, PathsApart DEF KShapes
  <2>10. CaOK'
      BY <1>a, <1>b, <1>c, <1>d, <2>5, <2>8, <2>9 DEF CaOK, ca_exists, Exists, CaGood, Whole, Readable
  <2>11. LeavesOK'
      BY <1>a, <1>b, <1>c, <2>5, <2>8, <2>9
         DEF LeavesOK, Settles, leaves_present, Exists, Bare, Trusted, Whole, Readable
  <2>12. \A m \in Names : Replaces(File(m, "cert")', File(m, "cert"))
      BY <1>a, <2>3, <2>5 DEF Replaces
  <2> QED BY <1>e, <2>4, <2>7, <2>10, <2>11, <2>12 DEF KInv
<1>4. ASSUME NEW n \in Names \ job.todo, NEW k, LeafHalf(n, k)
      PROVE  KInv' /\ \A m \in Names : Replaces(File(m, "cert")', File(m, "cert")) \/ ~Readable(m, "cert")'
  <2> DEFINE y == write_key_pem(n, k)
  <2>1. Head(job.out) = y /\ job'.out = <<>>
      BY <1>4, <1>c, OneOut DEF LeafHalf
  <2>2. /\ y.path = <<n, "key">> /\ y.file.st = "ok" /\ y.file.key = k
        /\ y.file.kind = "none" /\ y.file.sans = {}
      BY NewKey
  <2>3. Head(job.out).path = y.path /\ Head(job.out).file = y.file
      BY <2>1
  <2> HIDE DEF y
  <2>a. /\ <<n, "key">> \in Paths /\ Head(job.out).path = <<n, "key">>
        /\ y.file.st = "ok" /\ y.file.kind \in {"none", "server", "client"} /\ y.file.sans \subseteq Hosts
      BY <2>2, <2>3, PathsApart
  <2>4. /\ KShapes' /\ disk'[<<n, "key">>] = y.file
        /\ \A q \in Paths : q # <<n, "key">> => disk'[q] = disk[q]
      BY <1>f, <2>a, <2>3
  <2>5. /\ File(n, "key")' = y.file /\ File(n, "cert")' = File(n, "cert")
        /\ \A m \in (Names \cup {"ca"}) \ {n} :
              File(m, "cert")' = File(m, "cert") /\ File(m, "key")' = File(m, "key")
      BY <2>4, PathsApart DEF File
  <2>7. OutOK'
      BY <2>1 DEF OutOK
  <2>8. \A m \in (Names \cup {"ca"}) \ {n} : ~Pending(m) /\ ~Pending(m)'
      BY <1>b, <2>1, <2>2, PathsApart DEF Pending
  <2>9. /\ "ca" \in (Names \cup {"ca"}) \ {n} /\ n \notin job'.todo
        /\ \A m \in job'.todo : m \in (Names \cup {"ca"}) \ {n}
      BY <1>4, <1>a, <1>c, PathsApart DEF KShapes
  <2>10. CaOK'
      BY <1>a, <1>b, <1>c, <1>d, <2>5, <2>8, <2>9 DEF CaOK, ca_exists, Exists, CaGood, Whole, Readable
  <2>11. Trusted(n, job.cakey)'
      BY <1>4, <1>c, <2>2, <2>5 DEF LeafHalf, Trusted, Whole, Readable
  <2>12. LeavesOK'
      BY <1>a, <1>b, <1>c, <2>5, <2>8, <2>9, <2>11
         DEF LeavesOK, Settles, leaves_present, Exists, Bare, Trusted, Whole, Readable
  <2>13. \A m \in Names : Replaces(File(m, "cert")', File(m, "cert"))
      BY <1>a, <2>5 DEF Replaces
  <2> QED BY <1>e, <2>4, <2>7, <2>10, <2>12, <2>13 DEF KInv
<1> QED BY <1>a, <1>b, <1>1, <1>2, <1>3, <1>4 DEF OutOK

\* The next file to write belongs to a name and is its certificate or key.
LEMMA NextPath ==
    ASSUME OutOK, job.out # <<>>
    PROVE  \E m \in Names \cup {"ca"}, w \in {"cert", "key"} : Head(job.out).path = <<m, w>>
<1>1. CASE CaAhead
    BY <1>1, TwoOut, NewCert DEF CaAhead, CaFiles
<1>2. CASE CaHalf
    BY <1>2, OneOut, NewKey DEF CaHalf
<1>3. ASSUME NEW n \in Names \ job.todo, NEW k, NEW kind, NEW sans, LeafAhead(n, k, kind, sans)
      PROVE  \E m \in Names \cup {"ca"}, w \in {"cert", "key"} : Head(job.out).path = <<m, w>>
    BY <1>3, TwoOut, NewCert DEF LeafAhead
<1>4. ASSUME NEW n \in Names \ job.todo, NEW k, LeafHalf(n, k)
      PROVE  \E m \in Names \cup {"ca"}, w \in {"cert", "key"} : Head(job.out).path = <<m, w>>
    BY <1>4, OneOut, NewKey DEF LeafHalf
<1> QED BY <1>1, <1>2, <1>3, <1>4 DEF OutOK

\* What holds of the command when there is none.
LEMMA AtRest ==
    ASSUME job' = NoJob
    PROVE  /\ job' = [cmd |-> job'.cmd, sel |-> job'.sel, sans |-> job'.sans,
                      cakey |-> job'.cakey, todo |-> job'.todo, out |-> job'.out]
           /\ job'.cmd = "idle" /\ job'.sans = {} /\ job'.todo = {} /\ job'.out = <<>>
           /\ OutOK' /\ LeavesOK'
<1>1. job' = [cmd |-> "idle", sel |-> Names, sans |-> {}, cakey |-> 0, todo |-> {}, out |-> <<>>]
    BY DEF NoJob
<1>2. /\ job' = [cmd |-> job'.cmd, sel |-> job'.sel, sans |-> job'.sans,
                 cakey |-> job'.cakey, todo |-> job'.todo, out |-> job'.out]
      /\ job'.cmd = "idle" /\ job'.sans = {} /\ job'.todo = {} /\ job'.out = <<>>
    BY <1>1
<1> QED BY <1>2 DEF OutOK, LeavesOK, Settles

\* A kill, within a write or between two, keeps the invariant.
LEMMA KilledKept ==
    ASSUME KInv, Killed
    PROVE  /\ KInv'
           /\ \A n \in Names : Replaces(File(n, "cert")', File(n, "cert")) \/ ~Readable(n, "cert")'
<1>a. KShapes /\ OutOK /\ CaOK
    BY DEF KInv
<1>b. /\ job' = NoJob /\ excused' = TRUE /\ issued' = issued /\ job.cmd # "idle"
      /\ \/ disk' = disk
         \/ job.out # <<>> /\ disk' = [disk EXCEPT ![Head(job.out).path] = Torn]
    BY DEF Killed
<1>c. excused'
    BY <1>b
<1>d. Torn.st = "torn" /\ Torn.kind = "none" /\ Torn.sans = {}
    BY DEF Torn, NoFile
<1>1. RestOK'
    BY <1>b, <1>c, AtRest DEF RestOK
<1>2. CASE disk' = disk
  <2>1. KShapes'
      BY <1>a, <1>b, <1>2, AtRest DEF KShapes
  <2>2. CaOK'
      BY <1>a, <1>b, <1>2, AtRest DEF CaOK, ca_exists, Exists, File, Bare
  <2>3. \A n \in Names : Replaces(File(n, "cert")', File(n, "cert"))
      BY <1>2 DEF Replaces, File
  <2> QED BY <1>b, <1>1, <2>1, <2>2, <2>3, AtRest DEF KInv
<1>3. CASE job.out # <<>> /\ disk' = [disk EXCEPT ![Head(job.out).path] = Torn]
  <2>1. PICK m \in Names \cup {"ca"}, w \in {"cert", "key"} : Head(job.out).path = <<m, w>>
      BY <1>a, <1>3, NextPath
  <2> DEFINE p == <<m, w>>
  <2>2. p \in Paths /\ p[1] = m
      BY PathsApart
  <2>3. /\ disk' = [q \in Paths |-> disk'[q]] /\ disk'[p] = Torn
        /\ \A q \in Paths : q # p => disk'[q] = disk[q]
    <3>1. disk = [q \in Paths |-> disk[q]] /\ disk' = [disk EXCEPT ![p] = Torn]
        BY <1>a, <1>3, <2>1 DEF KShapes
    <3> HIDE DEF p
    <3> QED BY <2>2, <3>1
  <2>4. Pending(m)
      BY <1>3, <2>1, <2>2 DEF Pending
  <2>5. /\ \A q \in Paths : /\ disk'[q].st \in {"none", "torn", "ok"}
                            /\ disk'[q].kind \in {"none", "server", "client"}
                            /\ disk'[q].sans \subseteq Hosts
      BY <1>a, <1>d, <2>3 DEF KShapes
  <2>6. KShapes'
      BY <1>a, <1>b, <2>3, <2>5, AtRest DEF KShapes
  <2>7. \A q \in Paths : disk[q].st # "none" => disk'[q].st # "none"
      BY <1>d, <2>3
  <2>8. ca_exists => ca_exists'
      BY <2>7, PathsApart DEF ca_exists, Exists, File
  <2>9. m # "ca" => ca_exists
      BY <1>a, <1>b, <2>1, <2>2, PathsApart DEF CaOK, Pending
  <2>10. m = "ca" => \A n \in Names : File(n, "cert")' = File(n, "cert") /\ File(n, "key")' = File(n, "key")
    <3>1. m = "ca" => \A n \in Names : <<n, "cert">> # p /\ <<n, "key">> # p
        BY PathsApart
    <3> HIDE DEF p
    <3> QED BY <2>3, <3>1, PathsApart DEF File
  <2>11. CaOK'
      BY <1>a, <1>b, <2>8, <2>9, <2>10, AtRest DEF CaOK, Bare, Exists
  <2>12. \A n \in Names : Replaces(File(n, "cert")', File(n, "cert")) \/ ~Readable(n, "cert")'
      BY <1>d, <2>3, PathsApart DEF Replaces, File, Readable
  <2> QED BY <1>b, <1>1, <2>6, <2>11, <2>12, AtRest DEF KInv
<1> QED BY <1>b, <1>2, <1>3

\* The same files: what is said of them carries over.
LEMMA SameFiles ==
    ASSUME disk' = disk
    PROVE  /\ leaves_present' = leaves_present /\ ca_exists' = ca_exists
           /\ \A n \in Names : Replaces(File(n, "cert")', File(n, "cert"))
           /\ \A n : /\ Bare(n)' = Bare(n) /\ Readable(n, "cert")' = Readable(n, "cert")
                     /\ File(n, "cert")' = File(n, "cert")
           /\ \A k : CaGood(k)' = CaGood(k)
           /\ \A n, k : Trusted(n, k)' = Trusted(n, k)
BY DEF leaves_present, ca_exists, Replaces, File, Bare, Exists, Readable, CaGood, Trusted, Whole

\* A command ends.
LEMMA EndsKept ==
    ASSUME KInv, CommandEnds
    PROVE  KInv'
<1>a. KShapes /\ CaOK /\ LeavesOK
    BY DEF KInv
<1>b. /\ job' = NoJob /\ disk' = disk /\ issued' = issued
      /\ job.cmd # "idle" /\ job.out = <<>> /\ job.todo = {}
    BY DEF CommandEnds
<1>c. excused' = CASE job.cmd = "init" -> excused /\ job.sans = {}
                    [] job.cmd = "renew-ca" -> job.sel # Names
                    [] OTHER -> excused
    BY DEF CommandEnds
<1>d. job.cmd \in {"init", "add-host", "renew", "renew-ca"}
    BY <1>a, <1>b DEF KShapes
<1>1. KShapes'
    BY <1>a, <1>b, AtRest DEF KShapes
<1>2. CaOK'
    BY <1>a, <1>b, AtRest, SameFiles DEF CaOK
<1>3. ~excused' => Settles /\ (job.cmd \in {"init", "renew-ca"} \/ ~excused)
  <2>1. CASE job.cmd = "init"
      BY <1>c, <2>1 DEF Settles
  <2>2. CASE job.cmd = "renew-ca"
      BY <1>c, <2>2 DEF Settles
  <2>3. CASE job.cmd \in {"add-host", "renew"}
      BY <1>c, <2>3 DEF Settles
  <2> QED BY <1>d, <2>1, <2>2, <2>3
<1>4. ~Pending("ca") /\ \A n \in Names : ~Pending(n)
    BY <1>b DEF Pending
<1>5. ~excused' => /\ CaGood(job.cakey)
                   /\ \A n \in leaves_present : Trusted(n, job.cakey)
  <2>1. leaves_present \subseteq Names
      BY DEF leaves_present
  <2>2. ~excused' => CaGood(job.cakey)
      BY <1>a, <1>b, <1>3, <1>4 DEF CaOK
  <2>3. ~excused' => \A n \in leaves_present : Trusted(n, job.cakey)
      BY <1>a, <1>b, <1>3, <1>4, <2>1 DEF LeavesOK
  <2> QED BY <2>2, <2>3
<1>6. CaGood(job.cakey) => job.cakey = File("ca", "cert").key
    BY DEF CaGood
<1>7. RestOK'
    BY <1>b, <1>5, <1>6, AtRest DEF RestOK, CaGood, Trusted, Whole, Readable, File, leaves_present, Exists
<1> QED BY <1>b, <1>1, <1>2, <1>7, AtRest DEF KInv

\* A revocation takes every leaf away.
LEMMA RevokeKept ==
    ASSUME KInv, cmd_revoke
    PROVE  /\ KInv'
           /\ \A n \in Names : ~Readable(n, "cert")'
<1>a. KShapes /\ RestOK
    BY DEF KInv
<1>b. /\ job.cmd = "idle" /\ disk' = [p \in Paths |-> NoFile] /\ excused' = FALSE
      /\ job' = job /\ issued' = issued
    BY DEF cmd_revoke
<1>c. job.out = <<>> /\ job.todo = {}
    BY <1>a, <1>b DEF RestOK
<1>1. \A p \in Paths : disk'[p].st = "none" /\ disk'[p].kind = "none" /\ disk'[p].sans = {}
    BY <1>b DEF NoFile
<1>2. KShapes'
  <2>1. disk' = [p \in Paths |-> disk'[p]]
      BY <1>b
  <2> QED BY <1>a, <1>b, <1>1, <2>1 DEF KShapes
<1>3. OutOK' /\ LeavesOK'
    BY <1>b, <1>c DEF OutOK, LeavesOK, Settles
<1>4. (\A n \in Names : Bare(n)' /\ ~Readable(n, "cert")') /\ ~ca_exists'
    BY <1>1, PathsApart DEF Bare, ca_exists, Readable, Exists, File
<1>5. CaOK' /\ RestOK'
    BY <1>b, <1>c, <1>4 DEF CaOK, RestOK
<1> QED BY <1>2, <1>3, <1>4, <1>5 DEF KInv

\* An init begins with a new authority.
LEMMA InitKept ==
    ASSUME KInv, NEW sans \in SUBSET Hosts, cmd_init(sans)
    PROVE  KInv'
<1>a. KShapes /\ CaOK
    BY DEF KInv
<1> DEFINE k == generate_ca
           todo == IF sans = {} THEN {} ELSE Names
<1>b. /\ job.cmd = "idle" /\ ~ca_exists /\ issued < MaxCommands /\ issued' = issued + 1
      /\ job' = [cmd |-> "init", sel |-> Names, sans |-> sans, cakey |-> k,
                 todo |-> todo, out |-> CaFiles(k)]
      /\ disk' = disk /\ excused' = excused
    BY DEF cmd_init, Begin
<1> HIDE DEF k
<1>c. todo \subseteq Names
    OBVIOUS
<1> HIDE DEF todo
<1>d. /\ job' = [cmd |-> job'.cmd, sel |-> job'.sel, sans |-> job'.sans, cakey |-> job'.cakey,
                 todo |-> job'.todo, out |-> job'.out]
      /\ job'.cmd = "init" /\ job'.sans = sans /\ job'.cakey = k
      /\ job'.todo = todo /\ job'.out = CaFiles(k)
    BY <1>b
<1>1. KShapes'
  <2>1. issued' \in 0..MaxCommands
      BY <1>a, <1>b, CertsAssumption DEF KShapes
  <2> QED BY <1>a, <1>b, <1>c, <1>d, <2>1 DEF KShapes
<1>2. OutOK'
    BY <1>d DEF OutOK, CaAhead, CaFiles, write_cert_pem, write_key_pem, NoFile
<1>3. Pending("ca")'
    BY <1>d, TwoOut, NewCert DEF Pending, CaFiles
<1>4. /\ \A n \in Names : Bare(n)
      /\ leaves_present = {}
    BY <1>a, <1>b DEF CaOK, Bare, leaves_present
<1>5. CaOK' /\ LeavesOK' /\ RestOK'
    BY <1>b, <1>c, <1>d, <1>3, <1>4, SameFiles DEF CaOK, LeavesOK, RestOK
<1> QED BY <1>1, <1>2, <1>5 DEF KInv

\* A command that reissues the leaves of a selection with the key that is there.
LEMMA ReissueKept ==
    ASSUME KInv, NEW cmd \in {"add-host", "renew"}, NEW sel, NEW sans \in SUBSET Hosts,
           job.cmd = "idle", ca_exists,
           Begin(cmd, sel, sans, File("ca", "key").key, _select_leaves(sel), <<>>),
           disk' = disk, excused' = excused
    PROVE  KInv'
<1>a. KShapes /\ CaOK /\ RestOK
    BY DEF KInv
<1> DEFINE k == File("ca", "key").key
           todo == _select_leaves(sel)
<1>b. /\ issued < MaxCommands /\ issued' = issued + 1
      /\ job' = [cmd |-> cmd, sel |-> sel, sans |-> sans, cakey |-> k, todo |-> todo, out |-> <<>>]
    BY DEF Begin
<1>c. todo \subseteq leaves_present /\ leaves_present \subseteq Names
    BY DEF _select_leaves, leaves_present
<1>d. ~excused => /\ CaGood(k)
                  /\ \A n \in leaves_present : Trusted(n, k)
    BY <1>a DEF RestOK, CaGood, Whole
<1> HIDE DEF k, todo
<1>e. /\ job' = [cmd |-> job'.cmd, sel |-> job'.sel, sans |-> job'.sans, cakey |-> job'.cakey,
                 todo |-> job'.todo, out |-> job'.out]
      /\ job'.cmd = cmd /\ job'.sans = sans /\ job'.cakey = k
      /\ job'.todo = todo /\ job'.out = <<>>
    BY <1>b
<1>f. \A n : Trusted(n, k) => Readable(n, "cert")
    BY DEF Trusted, Whole
<1>1. KShapes'
  <2>1. issued' \in 0..MaxCommands
      BY <1>a, <1>b, CertsAssumption DEF KShapes
  <2> QED BY <1>a, <1>c, <1>e, <2>1 DEF KShapes
<1>2. OutOK'
    BY <1>e DEF OutOK
<1>3. /\ \A n \in leaves_present : Trusted(n, job.cakey)' = Trusted(n, k)
      /\ CaGood(job.cakey)' = CaGood(k)
    BY <1>e DEF Trusted, CaGood, Whole, Readable, File
<1>4. CaOK'
    BY <1>d, <1>e, <1>3, SameFiles DEF CaOK
<1>5. LeavesOK'
    BY <1>c, <1>d, <1>e, <1>f, <1>3, SameFiles DEF LeavesOK, Settles
<1>6. RestOK'
    BY <1>e DEF RestOK
<1> QED BY <1>1, <1>2, <1>4, <1>5, <1>6 DEF KInv

\* A renew --ca begins with a new authority for the leaves on disk.
LEMMA RenewCaKept ==
    ASSUME KInv, NEW sel \in Selections, RenewCa(sel)
    PROVE  KInv'
<1>a. KShapes /\ CaOK /\ RestOK
    BY DEF KInv
<1> DEFINE k == generate_ca
           todo == _select_leaves(sel)
<1>b. /\ job.cmd = "idle" /\ ca_exists /\ issued < MaxCommands /\ issued' = issued + 1
      /\ job' = [cmd |-> "renew-ca", sel |-> sel, sans |-> {}, cakey |-> k,
                 todo |-> todo, out |-> CaFiles(k)]
      /\ disk' = disk /\ excused' = excused
    BY DEF RenewCa, Begin
<1>c. todo \subseteq leaves_present /\ leaves_present \subseteq Names
    BY DEF _select_leaves, leaves_present
<1>d. sel = Names => todo = leaves_present
    BY DEF _select_leaves, leaves_present
<1> HIDE DEF k, todo
<1>e. /\ job' = [cmd |-> job'.cmd, sel |-> job'.sel, sans |-> job'.sans, cakey |-> job'.cakey,
                 todo |-> job'.todo, out |-> job'.out]
      /\ job'.cmd = "renew-ca" /\ job'.sel = sel /\ job'.sans = {} /\ job'.cakey = k
      /\ job'.todo = todo /\ job'.out = CaFiles(k)
    BY <1>b
<1>f. ~excused => \A n \in leaves_present : Readable(n, "cert")
    BY <1>a, <1>b DEF RestOK, Trusted, Whole
<1>1. KShapes'
  <2>1. issued' \in 0..MaxCommands
      BY <1>a, <1>b, CertsAssumption DEF KShapes
  <2> QED BY <1>a, <1>b, <1>c, <1>e, <2>1 DEF KShapes
<1>2. OutOK'
    BY <1>e DEF OutOK, CaAhead, CaFiles, write_cert_pem, write_key_pem, NoFile
<1>3. Pending("ca")'
    BY <1>e, TwoOut, NewCert DEF Pending, CaFiles
<1>4. CaOK'
    BY <1>b, <1>e, <1>3, SameFiles DEF CaOK
<1>5. LeavesOK'
    BY <1>b, <1>c, <1>d, <1>e, <1>f, SameFiles DEF LeavesOK, Settles
<1>6. RestOK'
    BY <1>e DEF RestOK
<1> QED BY <1>1, <1>2, <1>4, <1>5, <1>6 DEF KInv

\* A leaf that is signed: its two files are ahead, and nothing else changes.
LEMMA SignKept ==
    ASSUME KInv, NEW n \in job.todo, NEW kind \in {"server", "client", "none"},
           NEW sans \in SUBSET Hosts,
           job.cmd # "idle", job.out = <<>>,
           \A k : Replaces(LeafCert(k, kind, sans), File(n, "cert")),
           job' = [[job EXCEPT !.todo = job.todo \ {n}] EXCEPT !.out = sign_leaf(n, kind, sans)],
           disk' = disk, excused' = excused, issued' = issued
    PROVE  KInv'
<1>a. KShapes /\ CaOK /\ LeavesOK
    BY DEF KInv
<1> DEFINE o == sign_leaf(n, kind, sans)
<1>b. PICK k : o = <<write_cert_pem(n, LeafCert(k, kind, sans)), write_key_pem(n, k)>>
    BY DEF sign_leaf, LeafCert
<1>c. Replaces(LeafCert(k, kind, sans), File(n, "cert"))
    OBVIOUS
<1> HIDE DEF o
<1>d. /\ job' = [cmd |-> job'.cmd, sel |-> job'.sel, sans |-> job'.sans, cakey |-> job'.cakey,
                 todo |-> job'.todo, out |-> job'.out]
      /\ job'.cmd = job.cmd /\ job'.sel = job.sel /\ job'.sans = job.sans
      /\ job'.cakey = job.cakey /\ job'.todo = job.todo \ {n} /\ job'.out = o
    BY <1>a DEF KShapes, o
<1>e. n \in Names /\ job'.todo \subseteq job.todo /\ n \notin job'.todo
    BY <1>a, <1>d DEF KShapes
<1>1. KShapes'
    BY <1>a, <1>d, <1>e DEF KShapes
<1>2. LeafAhead(n, k, kind, sans)'
  <2>1. LeafCert(k, kind, sans)' = LeafCert(k, kind, sans)
      BY <1>d DEF LeafCert
  <2> QED BY <1>b, <1>c, <1>d, <2>1 DEF LeafAhead, Replaces, File, write_cert_pem, write_key_pem
<1>3. OutOK'
    BY <1>e, <1>2 DEF OutOK
<1>4. /\ Pending(n)' /\ \A m : ~Pending(m)
      /\ ~Pending("ca")'
  <2>1. job'.out # <<>> /\ Head(job'.out).path = <<n, "cert">>
      BY <1>b, <1>d, TwoOut, NewCert
  <2> QED BY <1>e, <2>1, PathsApart DEF Pending
<1>5. \A m \in Names \cup {"ca"} : Trusted(m, job.cakey)' = Trusted(m, job.cakey)
    BY <1>d DEF Trusted, Whole, Readable, File
<1>6. CaGood(job.cakey)' = CaGood(job.cakey)
    BY <1>d DEF CaGood, Whole, Readable, File
<1>7. CaOK'
    BY <1>a, <1>d, <1>4, <1>6, SameFiles DEF CaOK
<1>8. leaves_present \subseteq Names
    BY DEF leaves_present
<1>9. LeavesOK'
    BY <1>a, <1>d, <1>e, <1>4, <1>5, <1>8, SameFiles DEF LeavesOK, Settles
<1>10. RestOK'
    BY <1>d DEF RestOK
<1> QED BY <1>1, <1>3, <1>7, <1>9, <1>10 DEF KInv

\* The next leaf is issued under the authority the command read.
LEMMA NextLeafKept ==
    ASSUME KInv, NextLeaf
    PROVE  KInv'
<1>a. KShapes /\ CaOK /\ LeavesOK
    BY DEF KInv
<1>b. job.cmd # "idle" /\ job.out = <<>> /\ disk' = disk /\ excused' = excused /\ issued' = issued
    BY DEF NextLeaf
<1>c. PICK n \in job.todo :
        LET cert == File(n, "cert")
            more == [job EXCEPT !.todo = @ \ {n}]
        IN job' = IF job.cmd = "init"
                  THEN [more EXCEPT !.out = sign_leaf(n, _BUILTIN_LEAVES(n), job.sans)]
                  ELSE IF ~Readable(n, "cert") THEN NoJob
                  ELSE IF job.cmd = "add-host" /\ job.sans \subseteq cert.sans THEN more
                  ELSE [more EXCEPT !.out =
                          sign_leaf(n, _kind_from_eku(cert), cert.sans \cup job.sans)]
    BY DEF NextLeaf
<1>d. /\ n \in Names /\ <<n, "cert">> \in Paths
      /\ File(n, "cert").kind \in {"none", "server", "client"} /\ File(n, "cert").sans \subseteq Hosts
      /\ job.sans \subseteq Hosts
    BY <1>a, PathsApart DEF KShapes, File
<1>1. CASE job.cmd = "init"
  <2>1. job' = [[job EXCEPT !.todo = job.todo \ {n}] EXCEPT !.out = sign_leaf(n, _BUILTIN_LEAVES(n), job.sans)]
      BY <1>c, <1>1
  <2>2. Bare(n)
      BY <1>a, <1>1 DEF LeavesOK
  <2>3. \A k : Replaces(LeafCert(k, _BUILTIN_LEAVES(n), job.sans), File(n, "cert"))
      BY <2>2 DEF Bare, Exists, Replaces
  <2>4. _BUILTIN_LEAVES(n) \in {"server", "client", "none"}
      BY DEF _BUILTIN_LEAVES
  <2> QED BY <1>b, <1>d, <2>1, <2>3, <2>4, SignKept
<1>2. CASE job.cmd # "init" /\ ~Readable(n, "cert")
  <2>1. job' = NoJob
      BY <1>c, <1>2
  <2>2. excused
      BY <1>a, <1>2 DEF LeavesOK
  <2>3. KShapes'
      BY <1>a, <1>b, <2>1, AtRest DEF KShapes
  <2>4. CaOK' /\ RestOK'
      BY <1>a, <1>b, <2>1, <2>2, AtRest, SameFiles DEF CaOK, RestOK
  <2> QED BY <2>1, <2>3, <2>4, AtRest DEF KInv
<1>3. CASE job.cmd = "add-host" /\ Readable(n, "cert") /\ job.sans \subseteq File(n, "cert").sans
  <2>1. job' = [job EXCEPT !.todo = job.todo \ {n}]
      BY <1>c, <1>3
  <2>2. /\ job' = [cmd |-> job'.cmd, sel |-> job'.sel, sans |-> job'.sans, cakey |-> job'.cakey,
                   todo |-> job'.todo, out |-> job'.out]
        /\ job'.cmd = job.cmd /\ job'.sel = job.sel /\ job'.sans = job.sans
        /\ job'.cakey = job.cakey /\ job'.todo = job.todo \ {n} /\ job'.out = job.out
      BY <1>a, <2>1 DEF KShapes
  <2>3. KShapes' /\ OutOK'
      BY <1>a, <1>b, <2>2 DEF KShapes, OutOK
  <2>4. \A m : Pending(m)' = Pending(m) /\ Trusted(m, job.cakey)' = Trusted(m, job.cakey)
      BY <1>b, <2>2 DEF Pending, Trusted, Whole, Readable, File
  <2>5. CaGood(job.cakey)' = CaGood(job.cakey)
      BY <1>b, <2>2 DEF CaGood, Whole, Readable, File
  <2>6. CaOK' /\ RestOK'
      BY <1>a, <1>b, <2>2, <2>4, <2>5, SameFiles DEF CaOK, RestOK
  <2>7. LeavesOK'
      BY <1>a, <1>b, <1>3, <2>2, <2>4, SameFiles DEF LeavesOK, Settles
  <2> QED BY <2>3, <2>6, <2>7 DEF KInv
<1>4. CASE /\ job.cmd # "init" /\ Readable(n, "cert")
           /\ ~(job.cmd = "add-host" /\ job.sans \subseteq File(n, "cert").sans)
  <2> DEFINE kind == File(n, "cert").kind
             sans == File(n, "cert").sans \cup job.sans
  <2>1. job' = [[job EXCEPT !.todo = job.todo \ {n}] EXCEPT !.out = sign_leaf(n, kind, sans)]
      BY <1>c, <1>4 DEF _kind_from_eku
  <2>2. \A k : Replaces(LeafCert(k, kind, sans), File(n, "cert"))
      BY DEF Replaces, LeafCert
  <2>3. kind \in {"server", "client", "none"} /\ sans \in SUBSET Hosts
      BY <1>d
  <2> HIDE DEF kind, sans
  <2> QED BY <1>b, <2>1, <2>2, <2>3, SignKept
<1> QED BY <1>1, <1>2, <1>3, <1>4

\* Every step of the certificate commands keeps the invariant.
LEMMA KInvKept == KInv /\ [KNext]_kvars => KInv'
<1> SUFFICES ASSUME KInv, [KNext]_kvars PROVE KInv'
    OBVIOUS
<1>1. CASE UNCHANGED kvars
  <2>1. disk' = disk /\ job' = job /\ excused' = excused /\ issued' = issued
      BY <1>1 DEF kvars
  <2>2. KShapes /\ OutOK /\ CaOK /\ LeavesOK /\ RestOK
      BY DEF KInv
  <2>3. KShapes'
      BY <2>1, <2>2 DEF KShapes
  <2>4. OutOK'
    <3>1. CASE job.out = <<>> \/ CaAhead \/ CaHalf
        BY <2>1, <3>1 DEF OutOK, CaAhead, CaHalf, CaFiles, write_cert_pem, write_key_pem, Readable, File
    <3>2. ASSUME NEW n \in Names \ job.todo, NEW k, NEW kind \in {"server", "client", "none"},
                 NEW sans \in SUBSET Hosts, LeafAhead(n, k, kind, sans)
          PROVE  OutOK'
      <4>1. LeafAhead(n, k, kind, sans)'
          BY <2>1, <3>2 DEF LeafAhead, LeafCert, Replaces, write_cert_pem, write_key_pem, File
      <4> QED BY <2>1, <4>1 DEF OutOK
    <3>3. ASSUME NEW n \in Names \ job.todo, NEW k, LeafHalf(n, k) PROVE OutOK'
      <4>1. LeafHalf(n, k)'
          BY <2>1, <3>3 DEF LeafHalf, write_key_pem, Readable, File
      <4> QED BY <2>1, <4>1 DEF OutOK
    <3> QED BY <2>2, <3>1, <3>2, <3>3 DEF OutOK
  <2>5. /\ \A n : Pending(n)' = Pending(n) /\ Trusted(n, job.cakey)' = Trusted(n, job.cakey)
        /\ CaGood(job.cakey)' = CaGood(job.cakey)
        /\ CaGood(File("ca", "cert").key)' = CaGood(File("ca", "cert").key)
        /\ \A n : Trusted(n, File("ca", "cert").key)' = Trusted(n, File("ca", "cert").key)
      BY <2>1 DEF Pending, Trusted, CaGood, Whole, Readable, File
  <2>6. CaOK' /\ LeavesOK' /\ RestOK'
      BY <2>1, <2>2, <2>5, SameFiles DEF CaOK, LeavesOK, RestOK, Settles
  <2> QED BY <2>3, <2>4, <2>6 DEF KInv
<1>2. CASE WriteFile \/ NextLeaf \/ CommandEnds \/ Killed \/ cmd_revoke
    BY <1>2, WriteKept, NextLeafKept, EndsKept, KilledKept, RevokeKept
<1>3. ASSUME NEW sans \in SUBSET Hosts, cmd_init(sans) PROVE KInv'
    BY <1>3, InitKept
<1>4. ASSUME NEW sel \in Selections, cmd_renew(sel) PROVE KInv'
  <2>1. /\ job.cmd = "idle" /\ ca_exists /\ disk' = disk /\ excused' = excused
        /\ Begin("renew", sel, {}, File("ca", "key").key, _select_leaves(sel), <<>>)
      BY <1>4 DEF cmd_renew
  <2> QED BY <2>1, ReissueKept
<1>5. ASSUME NEW sel \in Selections, RenewCa(sel) PROVE KInv'
    BY <1>5, RenewCaKept
<1>6. ASSUME NEW sel \in Selections, NEW h \in Hosts, cmd_add_host(h, sel) PROVE KInv'
  <2>1. /\ job.cmd = "idle" /\ ca_exists /\ disk' = disk /\ excused' = excused
        /\ Begin("add-host", sel, {h}, File("ca", "key").key, _select_leaves(sel), <<>>)
      BY <1>6 DEF cmd_add_host
  <2>2. {h} \in SUBSET Hosts
      OBVIOUS
  <2> QED BY <2>1, <2>2, ReissueKept
<1> QED BY <1>1, <1>2, <1>3, <1>4, <1>5, <1>6 DEF KNext

\* The invariant holds in every state.
LEMMA CertsInvariant == OpsSpec => []KInv
BY CertsInit, KInvKept, PartsOfOperations, PTL

\* Whatever sequence of init, add-host, renew and revoke was run and wherever
\* one of them was killed: between commands that were neither killed nor asked
\* to leave leaves behind, every leaf holds one pair and is signed by the CA in
\* the store, for every set of leaves and hosts and any number of commands.
THEOREM LeavesStayTrusted == OpsSpec => []LeavesAreTrusted
<1>1. KInv => LeavesAreTrusted
  <2> SUFFICES ASSUME KInv, job.cmd = "idle", ~excused, NEW n \in leaves_present
               PROVE  /\ Readable(n, "cert") /\ Readable(n, "key")
                      /\ File(n, "cert").key = File(n, "key").key
                      /\ File(n, "cert").signer = File("ca", "cert").key
      BY DEF LeavesAreTrusted
  <2>1. n \in Names /\ ~Bare(n)
      BY DEF leaves_present, Bare
  <2>2. ca_exists
      BY <2>1 DEF KInv, CaOK
  <2>3. Trusted(n, File("ca", "cert").key)
      BY <2>2 DEF KInv, RestOK
  <2> QED BY <2>3 DEF Trusted, Whole
<1> QED BY <1>1, CertsInvariant, PTL

\* Every write of a leaf's certificate over one that can be read keeps its kind
\* and its names, whichever command makes it and whatever was killed before.
THEOREM ReissuesKeepTheLeaf == OpsSpec => ReissueKeepsLeaf
<1> DEFINE Keeps(n) == Readable(n, "cert") /\ disk'[<<n, "cert">>].st = "ok" =>
                         /\ disk'[<<n, "cert">>].kind = File(n, "cert").kind
                         /\ File(n, "cert").sans \subseteq disk'[<<n, "cert">>].sans
<1>1. KInv /\ [KNext]_kvars => [\A n \in Names : Keeps(n)]_kvars
  <2> SUFFICES ASSUME KInv, KNext, NEW n \in Names PROVE Keeps(n)
      OBVIOUS
  <2>1. \/ Replaces(File(n, "cert")', File(n, "cert")) \/ ~Readable(n, "cert")'
        \/ disk' = disk
    <3>1. CASE WriteFile \/ Killed
        BY <3>1, WriteKept, KilledKept
    <3>2. CASE cmd_revoke
        BY <3>2, RevokeKept
    <3>3. CASE NextLeaf \/ CommandEnds
        BY <3>3 DEF NextLeaf, CommandEnds
    <3>4. CASE \E sans \in SUBSET Hosts : cmd_init(sans)
        BY <3>4 DEF cmd_init
    <3>5. CASE \E sel \in Selections :
                  cmd_renew(sel) \/ RenewCa(sel) \/ \E h \in Hosts : cmd_add_host(h, sel)
        BY <3>5 DEF cmd_renew, RenewCa, cmd_add_host
    <3> QED BY <3>1, <3>2, <3>3, <3>4, <3>5 DEF KNext
  <2> QED BY <2>1 DEF Replaces, Readable, File
<1>2. OpsSpec => []KInv /\ [][KNext]_kvars
    BY CertsInvariant, PartsOfOperations, PTL
<1> QED BY <1>1, <1>2, PTL DEF ReissueKeepsLeaf

\* Every part of what an operator keeps is of its types, whatever the sizes.
THEOREM OperationsTypes == OpsSpec => []OperationsTypeOK
<1>1. KInv => CertsTypeOK
  <2> SUFFICES ASSUME KInv PROVE CertsTypeOK
      OBVIOUS
  <2>1. KShapes /\ OutOK
      BY DEF KInv
  <2>2. Len(job.out) <= 2
    <3>0. Len(<<>>) = 0 /\ \A a, b : Len(<<a>>) = 1 /\ Len(<<a, b>>) = 2
        OBVIOUS
    <3>1. CASE job.out = <<>>
      <4>1. Len(job.out) = 0
          BY <3>0, <3>1
      <4> QED BY <4>1
    <3>2. CASE CaHalf
      <4>1. \E a : job.out = <<a>>
          BY <3>2 DEF CaHalf
      <4> QED BY <3>0, <4>1
    <3>3. CASE CaAhead
      <4>1. \E a, b : job.out = <<a, b>>
          BY <3>3 DEF CaAhead, CaFiles
      <4> QED BY <3>0, <4>1
    <3>4. ASSUME NEW n \in Names \ job.todo, NEW k, NEW kind, NEW sans, LeafAhead(n, k, kind, sans)
          PROVE  Len(job.out) <= 2
        BY <3>4 DEF LeafAhead
    <3>5. ASSUME NEW n \in Names \ job.todo, NEW k, LeafHalf(n, k)
          PROVE  Len(job.out) <= 2
        BY <3>5 DEF LeafHalf
    <3> QED BY <2>1, <3>1, <3>2, <3>3, <3>4, <3>5 DEF OutOK
  <2> QED BY <2>1, <2>2 DEF KShapes, CertsTypeOK
<1>2. DatabaseInv => DatabaseTypeOK
    BY DEF DatabaseInv
<1>3. CredInv => CredentialsTypeOK
  <2> SUFFICES ASSUME CredInv PROVE CredentialsTypeOK
      OBVIOUS
  <2>1. CredShapes /\ \A c \in Scopes : row[c].validated => row[c].there
      BY DEF CredInv
  <2>2. DOMAIN Empty = Sides
      BY DEF Empty, Sides
  <2>3. \A c \in Scopes, s \in Sides : vault[c][s].p \in 0..MaxSaves
      BY <2>1 DEF CredShapes, Creds, Cred
  <2>4. \A r \in Saves : save[r] \in Request
      BY <2>1 DEF CredShapes
  <2>5. \A r \in Saves : save[r].st \in {"new", "resolve indexer", "resolve api", "probe", "write",
                                        "second", "last", "load indexer", "load api", "open", "done"}
      BY <2>4 DEF Request
  <2> QED BY <2>1, <2>2, <2>3, <2>5 DEF CredentialsTypeOK
<1>4. StoreInv => KnowledgeTypeOK
  <2> SUFFICES ASSUME StoreInv PROVE KnowledgeTypeOK
      OBVIOUS
  <2>1. StoreShapes /\ CellsOK
      BY DEF StoreInv
  <2>2. \A i \in Rows : Stamp(i, "embedding") # NULL
      BY <2>1 DEF CellsOK, CellOK, Stamp, Columns
  <2>3. \A c \in Columns : column[c].index \in {"none", "cosine", "bq"}
      BY <2>1 DEF StoreShapes, Column
  <2>4. /\ pass.cmd \in {"idle", "reembed", "schema"}
        /\ pass.at \in {"none", "retype", "fill", "finalize"}
      BY <2>1 DEF StoreShapes, Pass
  <2> QED BY <2>1, <2>2, <2>3, <2>4 DEF KnowledgeTypeOK, StoreShapes
<1>5. OpsSpec => [](KInv /\ DatabaseInv /\ CredInv /\ StoreInv)
    BY CertsInvariant, PartsOfOperations, DatabaseInit, DatabaseKept, CredInit, CredKept,
       StoreInit, StoreInvKept, PTL
<1> QED BY <1>1, <1>2, <1>3, <1>4, <1>5, PTL DEF OperationsTypeOK
=============================================================================
