---------------------------- MODULE Credentials ----------------------------
(***************************************************************************)
(* The Wazuh credentials of one organization and of the install: saved by  *)
(* the superuser's API (api/wazuh_credentials.py, api/wazuh_topology.py)   *)
(* and by the bootstrap command, read by every tool call                   *)
(* (wazuh/resolver.py).  Secrets and rows are two stores: a save resolves  *)
(* the passwords left blank, probes Wazuh, and writes the secrets one by   *)
(* one before the row (the API) or after it (the command).  Saves may      *)
(* overlap, and may be cut off anywhere.                                   *)
(*                                                                         *)
(* A password is named after the request it was typed in (0 for how the    *)
(* install may have been set up before), and remembers the user it was     *)
(* typed for.  What a probe answers is Wazuh's choice.                     *)
(***************************************************************************)
EXTENDS Naturals, FiniteSets

CONSTANTS
    MaxSaves,   \* bound on the requests
    AtOnce,     \* and on how many run at once
    WazuhUsers,
    Forms,      \* which passwords a form may have typed in
    NoOne       \* no user, no password

ASSUME CredentialsAssumption ==
    MaxSaves \in Nat /\ AtOnce \in Nat /\ WazuhUsers # {} /\ Forms \subseteq SUBSET {"indexer", "api"}

Saves == 1..MaxSaves
Scopes == {"org", "install"}

VARIABLES
    vault,      \* the secrets backend: user and password, by scope and side
    row,        \* the row of each scope; of the organization's, what was probed
    save,       \* each request: its form, how far it is, what it resolved
    clash       \* history, by scope: saves overlapped or were cut off

wvars == <<vault, row, save, clash>>

NoCred == [u |-> NoOne, for |-> NoOne, p |-> 0]
TypedCred(u, r) == [u |-> u, for |-> u, p |-> r]
Empty == [s \in {"indexer", "api"} |-> NoCred]
Fresh == [st |-> "new", via |-> "none", scope |-> "org", user |-> NoOne, typed |-> {},
          got |-> Empty, seen |-> Empty, ok |-> FALSE, over |-> FALSE]

WInit ==
    /\ \E creds \in {Empty, [s \in DOMAIN Empty |-> TypedCred(CHOOSE u \in WazuhUsers : TRUE, 0)]} :
          LET set == creds # Empty IN
          /\ vault = [c \in Scopes |-> IF c = "install" THEN creds ELSE Empty]
          /\ row = [c \in Scopes |-> LET there == c = "install" /\ set IN
                                     [there |-> there, validated |-> there, seen |-> Empty]]
    /\ save = [r \in Saves |-> Fresh]
    /\ clash = [c \in Scopes |-> FALSE]

Active(r) == save[r].st \notin {"new", "open", "done"}

\* A request of this form arrives; it overlaps those of its scope that run.
Arrive(r, form) ==
    /\ save[r].st = "new" /\ \A q \in 1..r - 1 : save[q].st # "new"
    /\ Cardinality({q \in Saves : Active(q)}) < AtOnce
    /\ LET met == {q \in Saves : Active(q) /\ save[q].scope = form.scope} IN
       save' = [q \in Saves |->
                  CASE q = r -> [form EXCEPT !.over = met # {}]
                    [] q \in met -> [save[q] EXCEPT !.over = TRUE]
                    [] OTHER -> save[q]]

\* The next thing a request awaits, or its end.
Goes(r, st) == save' = [save EXCEPT ![r].st = st]
Gone(r) == save' = [save EXCEPT ![r] = [Fresh EXCEPT !.st = "done"]]

-----------------------------------------------------------------------------
\* PUT wazuh-credentials: 409 without the install's topology.
put_wazuh_credentials(r, u, typed) ==
    /\ row["install"].there
    /\ Arrive(r, [Fresh EXCEPT !.st = "resolve indexer", !.via = "api",
                               !.user = u, !.typed = typed])
    /\ UNCHANGED <<vault, row, clash>>

\* PUT wazuh-topology.
put_wazuh_topology(r, u, typed) ==
    /\ Arrive(r, [Fresh EXCEPT !.st = "resolve indexer", !.via = "api", !.scope = "install",
                               !.user = u, !.typed = typed])
    /\ UNCHANGED <<vault, row, clash>>

\* A validated organization exists: the command refuses without --update.
_organization_exists_with_validated_config == row["org"].there /\ row["org"].validated

\* The command: both passwords are arguments; a probe needs the topology.
bootstrap_organization(r, u, update, skip) ==
    /\ _organization_exists_with_validated_config => update
    /\ skip \/ row["install"].there
    /\ Arrive(r, [Fresh EXCEPT !.st = IF skip THEN "write" ELSE "probe", !.via = "cli",
                               !.typed = {"indexer", "api"},
                               !.got = [s \in DOMAIN Empty |-> TypedCred(u, r)]])
    /\ UNCHANGED <<vault, row, clash>>

-----------------------------------------------------------------------------
\* Mutant: a stored password is kept whoever the user is.
_resolve_credential_any(r, s) ==
    LET kept == vault["org"][s] IN
    IF s \in save[r].typed THEN TypedCred(save[r].user, r)
    ELSE [kept EXCEPT !.u = save[r].user]

\* The organization's: a password left blank is the stored one, for the stored
\* user only (NoCred stands for the 422).
_resolve_credential(r, s) ==
    LET kept == vault["org"][s] IN
    IF s \in save[r].typed THEN TypedCred(save[r].user, r)
    ELSE IF kept.u = save[r].user THEN kept ELSE NoCred

\* The install's: the stored user and password, whatever user was entered.
_resolve_admin_credential(r, s) ==
    IF s \in save[r].typed THEN TypedCred(save[r].user, r) ELSE vault["install"][s]

\* One side resolved, in order; a 422 ends the request.
Resolve(r, at, s, next) ==
    /\ save[r].st = at
    /\ LET cred == IF save[r].scope = "org" THEN _resolve_credential(r, s)
                   ELSE _resolve_admin_credential(r, s)
       IN IF cred = NoCred THEN Gone(r)
          ELSE save' = [save EXCEPT ![r].st = next, ![r].got[s] = cred,
                                    ![r].user = IF next = "probe" THEN NoOne ELSE @]
    /\ UNCHANGED <<vault, row, clash>>

\* The organization's probe fails softly: the save goes on unvalidated.
probe_org_credentials(r) ==
    /\ save[r].via = "api" /\ save[r].scope = "org"
    /\ \E ok \in BOOLEAN : save' = [save EXCEPT ![r].st = "write", ![r].ok = ok]

\* The topology's blocks the save; a worker that is down does not.
_probe_topology(r) ==
    /\ save[r].scope = "install"
    /\ \/ save' = [save EXCEPT ![r].st = "write", ![r].ok = TRUE]
       \/ Gone(r)

\* The command's raises.
_validate_wazuh_connection(r) ==
    /\ save[r].via = "cli"
    /\ \/ save' = [save EXCEPT ![r].st = "write", ![r].ok = TRUE]
       \/ Gone(r)

Probe(r) ==
    /\ save[r].st = "probe"
    /\ probe_org_credentials(r) \/ _probe_topology(r) \/ _validate_wazuh_connection(r)
    /\ UNCHANGED <<vault, row, clash>>

-----------------------------------------------------------------------------
\* Mutant: a secret that is there is not replaced.
SetSecret_once(r, s) ==
    vault' = IF s \in save[r].typed /\ vault[save[r].scope][s] = NoCred
             THEN [vault EXCEPT ![save[r].scope][s] = save[r].got[s]] ELSE vault

\* A secret is written when its password was typed.
SetSecret(r, s) ==
    vault' = IF s \in save[r].typed THEN [vault EXCEPT ![save[r].scope][s] = save[r].got[s]]
             ELSE vault

RowOf(r) == [there |-> TRUE, validated |-> save[r].ok, seen |-> save[r].got]

\* validated_at is stamped when the probe succeeded, and taken away if not.
CommitCredentials(r) == row' = [row EXCEPT !["org"] = RowOf(r)]
_upsert_wazuh_config(r) == row' = [row EXCEPT !["org"] = RowOf(r)]

CommitTopology(r) == row' = [row EXCEPT !["install"] = [RowOf(r) EXCEPT !.seen = Empty]]

\* A save that ends: alone, what it leaves is of one piece again.
Ends(r) ==
    /\ Gone(r)
    /\ clash' = [clash EXCEPT ![save[r].scope] = save[r].over]

\* The API: both secrets, then the row.
SaveFromApi(r) ==
    /\ save[r].via = "api"
    /\ \/ save[r].st = "write" /\ SetSecret(r, "indexer") /\ Goes(r, "second") /\ UNCHANGED <<row, clash>>
       \/ save[r].st = "second" /\ SetSecret(r, "api") /\ Goes(r, "last") /\ UNCHANGED <<row, clash>>
       \/ /\ save[r].st = "last" /\ Ends(r) /\ UNCHANGED vault
          /\ IF save[r].scope = "org" THEN CommitCredentials(r) ELSE CommitTopology(r)

\* The command: organization, admin, binding and row in one transaction,
\* then both secrets.
SaveFromCommand(r) ==
    /\ save[r].via = "cli"
    /\ \/ save[r].st = "write" /\ _upsert_wazuh_config(r) /\ Goes(r, "second") /\ UNCHANGED <<vault, clash>>
       \/ save[r].st = "second" /\ SetSecret(r, "indexer") /\ Goes(r, "last") /\ UNCHANGED <<row, clash>>
       \/ save[r].st = "last" /\ SetSecret(r, "api") /\ Ends(r) /\ UNCHANGED row

\* The tool call is over.
Disconnects(r) == save[r].st = "open" /\ Gone(r) /\ UNCHANGED <<vault, row, clash>>

\* The process dies, the commit fails or the client goes away.
CutOff(r) ==
    /\ Active(r)
    /\ Gone(r)
    /\ clash' = [clash EXCEPT ![save[r].scope] = @ \/ save[r].st \in {"write", "second", "last"}]
    /\ UNCHANGED <<vault, row>>

-----------------------------------------------------------------------------
\* A tool call: the rows, then each secret; whatever is missing is an error.
get_wazuh_connection(r) ==
    /\ row["org"].there /\ row["install"].there
    /\ Arrive(r, [Fresh EXCEPT !.st = "load indexer", !.via = "tool",
                               !.ok = row["org"].validated, !.seen = row["org"].seen])
    /\ UNCHANGED <<vault, row, clash>>

_load_credential_blob(r, at, s, next) ==
    /\ save[r].st = at
    /\ IF vault["org"][s] = NoCred THEN Gone(r)
       ELSE save' = [save EXCEPT ![r].st = next, ![r].got[s] = vault["org"][s],
                                 ![r].over = @ \/ clash["org"]]
    /\ UNCHANGED <<vault, row, clash>>

WNext ==
    \E r \in Saves :
        \/ \E u \in WazuhUsers :
              \/ \E typed \in Forms :
                    put_wazuh_credentials(r, u, typed) \/ put_wazuh_topology(r, u, typed)
              \/ \E update \in BOOLEAN, skip \in BOOLEAN : bootstrap_organization(r, u, update, skip)
        \/ Resolve(r, "resolve indexer", "indexer", "resolve api")
        \/ Resolve(r, "resolve api", "api", "probe")
        \/ Probe(r) \/ SaveFromApi(r) \/ SaveFromCommand(r) \/ CutOff(r)
        \/ Disconnects(r) \/ get_wazuh_connection(r)
        \/ _load_credential_blob(r, "load indexer", "indexer", "load api")
        \/ _load_credential_blob(r, "load api", "api", "open")

-----------------------------------------------------------------------------
CredentialsTypeOK ==
    /\ \A c \in Scopes, s \in DOMAIN Empty : vault[c][s].p \in 0..MaxSaves
    /\ \A r \in Saves : save[r].st \in {"new", "resolve indexer", "resolve api", "probe", "write",
                                        "second", "last", "load indexer", "load api", "open", "done"}
    /\ \A c \in Scopes : row[c].validated => row[c].there

\* A password is only ever tried or stored with the user it was typed for,
\* whatever is left blank and whatever saves run at once ("switching the
\* username with a blank password must NOT silently reuse the previous user's
\* password").
PasswordsKeepTheirUser ==
    \A s \in DOMAIN Empty :
        /\ \A r \in Saves : save[r].got[s].u = save[r].got[s].for
        /\ \A c \in Scopes : vault[c][s].u = vault[c][s].for

\* The connection of a validated organization presents the credentials that
\* were probed when it was stamped, unless saves overlapped or one was cut off
\* and none was made alone since.
ConnectsAsValidated ==
    \A r \in Saves : save[r].st = "open" /\ save[r].ok /\ ~save[r].over =>
        save[r].got = save[r].seen
=============================================================================
