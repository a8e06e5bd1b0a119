------------------------------- MODULE Certs -------------------------------
(***************************************************************************)
(* wolf-cert (packages/cert): the private CA and the leaves that the TLS   *)
(* listeners and the mTLS middleware use, as files under one directory.    *)
(* A command writes its files one after the other and may be killed        *)
(* between any two writes, or within one (the file is then empty).         *)
(*                                                                         *)
(* Key pairs are numbers.  A new pair differs from every pair a file still *)
(* holds; a number no file holds any more stands for another pair later.   *)
(***************************************************************************)
EXTENDS Naturals, Sequences, FiniteSetsExt, SequencesExt

CONSTANTS
    Builtin,    \* _BUILTIN_LEAVES: the names, in order
    Hosts,      \* what a SAN may be
    MaxCommands \* bound on the commands of one store

VARIABLES
    disk,       \* the files, by path
    job,        \* the command that runs: what is still to be written
    excused,    \* history: killed, or asked to leave leaves behind
    issued      \* commands given so far

kvars == <<disk, job, excused, issued>>

Names == Range(Builtin)

\* The order of the directory listing.
Sorted == <<"dashboard", "dashboard-client", "server">>

ASSUME CertsAssumption ==
    /\ IsFiniteSet(Hosts) /\ MaxCommands \in Nat
    /\ IsInjective(Builtin) /\ Names \subseteq Range(Sorted) /\ "ca" \notin Names

Paths == ({"ca"} \cup Names) \X {"cert", "key"}

NoFile == [st |-> "none", key |-> 0, signer |-> 0, kind |-> "none", sans |-> {}]
Torn == [NoFile EXCEPT !.st = "torn"]
NoJob == [cmd |-> "idle", sel |-> Names, sans |-> {}, cakey |-> 0, todo |-> {}, out |-> <<>>]

KInit == disk = [p \in Paths |-> NoFile] /\ job = NoJob /\ excused = FALSE /\ issued = 0

File(n, what) == disk[<<n, what>>]
Exists(n, what) == File(n, what).st # "none"
Readable(n, what) == File(n, what).st = "ok"

-----------------------------------------------------------------------------
\* The files of a new pair: the certificate, then the key.
write_cert_pem(n, cert) == [path |-> <<n, "cert">>, file |-> cert]
write_key_pem(n, k) == [path |-> <<n, "key">>, file |-> [NoFile EXCEPT !.st = "ok", !.key = k]]

Unused(held) == Min((1 .. Cardinality(held) + 1) \ held)

\* The number of a new CA pair: no file is signed with it yet.
generate_ca == Unused({disk[p].key : p \in {"ca"} \X {"cert", "key"}} \cup {disk[p].signer : p \in Paths})

CaFiles(k) ==
    <<write_cert_pem("ca", [NoFile EXCEPT !.st = "ok", !.key = k, !.signer = k]),
      write_key_pem("ca", k)>>

\* A leaf of a new pair, signed with the CA key in hand.
sign_leaf(n, kind, sans) ==
    LET k == Unused({File(n, "cert").key, File(n, "key").key}) IN
    <<write_cert_pem(n, [st |-> "ok", key |-> k, signer |-> job.cakey,
                         kind |-> kind, sans |-> sans]),
      write_key_pem(n, k)>>

ca_exists == Exists("ca", "cert") /\ Exists("ca", "key")

leaves_present == {n \in Names : Exists(n, "cert") /\ Exists(n, "key")}

_select_leaves(sel) == leaves_present \cap sel

\* Leaf n comes before m: init mints in the order of _BUILTIN_LEAVES, the others
\* reissue in that of the listing.
Precedes(n, m) ==
    LET order == IF job.cmd = "init" THEN Builtin ELSE Sorted IN
    \E i, j \in DOMAIN order : i < j /\ order[i] = n /\ order[j] = m

\* The kind each of the built-in leaves is minted with.
_BUILTIN_LEAVES(n) == IF n = "dashboard-client" THEN "client" ELSE "server"

\* Mutant: a reissued leaf is a server leaf.
_kind_from_eku_server(cert) == "server"

\* The kind a certificate was issued with, read back from it.
_kind_from_eku(cert) == cert.kind

-----------------------------------------------------------------------------
Begin(cmd, sel, sans, k, todo, out) ==
    /\ issued < MaxCommands /\ issued' = issued + 1
    /\ job' = [cmd |-> cmd, sel |-> sel, sans |-> sans, cakey |-> k, todo |-> todo, out |-> out]

\* init: refused when there is a CA; the CA is written before it turns out
\* that there is no name to put into the leaves.
cmd_init(sans) ==
    /\ job.cmd = "idle" /\ ~ca_exists
    /\ Begin("init", Names, sans, generate_ca, IF sans = {} THEN {} ELSE Names,
             CaFiles(generate_ca))
    /\ UNCHANGED <<disk, excused>>

\* add-host: both CA files are read first (a torn one raises).
cmd_add_host(host, sel) ==
    /\ job.cmd = "idle" /\ ca_exists /\ _select_leaves(sel) # {}
    /\ Readable("ca", "cert") /\ Readable("ca", "key")
    /\ Begin("add-host", sel, {host}, File("ca", "key").key, _select_leaves(sel), <<>>)
    /\ UNCHANGED <<disk, excused>>

\* renew without --ca.
cmd_renew(sel) ==
    /\ job.cmd = "idle" /\ ca_exists /\ Readable("ca", "cert") /\ Readable("ca", "key")
    /\ Begin("renew", sel, {}, File("ca", "key").key, _select_leaves(sel), <<>>)
    /\ UNCHANGED <<disk, excused>>

\* Mutant: the leaves are signed with the key that was there.
RenewCa_oldKey(sel) ==
    /\ job.cmd = "idle" /\ ca_exists /\ Readable("ca", "cert")
    /\ Begin("renew-ca", sel, {}, File("ca", "key").key, _select_leaves(sel), CaFiles(generate_ca))
    /\ UNCHANGED <<disk, excused>>

\* renew --ca: a new CA pair over the old, then the selected leaves with it.
RenewCa(sel) ==
    /\ job.cmd = "idle" /\ ca_exists /\ Readable("ca", "cert")
    /\ Begin("renew-ca", sel, {}, generate_ca, _select_leaves(sel), CaFiles(generate_ca))
    /\ UNCHANGED <<disk, excused>>

\* revoke --yes: the whole directory goes.
cmd_revoke ==
    /\ job.cmd = "idle"
    /\ disk' = [p \in Paths |-> NoFile] /\ excused' = FALSE
    /\ UNCHANGED <<job, issued>>

-----------------------------------------------------------------------------
WriteFile ==
    /\ job.out # <<>>
    /\ disk' = [disk EXCEPT ![Head(job.out).path] = Head(job.out).file]
    /\ job' = [job EXCEPT !.out = Tail(@)]
    /\ UNCHANGED <<excused, issued>>

\* The next leaf: minted by init; otherwise reissued as its certificate says,
\* unless the host is in it already or the certificate cannot be read.
NextLeaf ==
    /\ job.cmd # "idle" /\ job.out = <<>>
    /\ \E n \in job.todo :
          LET cert == File(n, "cert")
              more == [job EXCEPT !.todo = @ \ {n}]
          IN /\ \A m \in job.todo \ {n} : Precedes(n, m)
             /\ job' = IF job.cmd = "init"
                       THEN [more EXCEPT !.out = sign_leaf(n, _BUILTIN_LEAVES(n), job.sans)]
                       ELSE IF ~Readable(n, "cert") THEN NoJob
                       ELSE IF job.cmd = "add-host" /\ job.sans \subseteq cert.sans THEN more
                       ELSE [more EXCEPT !.out =
                               sign_leaf(n, _kind_from_eku(cert), cert.sans \cup job.sans)]
    /\ UNCHANGED <<disk, excused, issued>>

\* The command returns.
CommandEnds ==
    /\ job.cmd # "idle" /\ job.out = <<>> /\ job.todo = {}
    /\ job' = NoJob
    /\ excused' = CASE job.cmd = "init" -> excused /\ job.sans = {}
                    [] job.cmd = "renew-ca" -> job.sel # Names
                    [] OTHER -> excused
    /\ UNCHANGED <<disk, issued>>

\* The process dies, perhaps with a file opened for writing.
Killed ==
    /\ job.cmd # "idle"
    /\ \/ UNCHANGED disk
       \/ job.out # <<>> /\ disk' = [disk EXCEPT ![Head(job.out).path] = Torn]
    /\ job' = NoJob /\ excused' = TRUE /\ UNCHANGED issued

Selections == {Names} \cup {{n} : n \in Names}

KNext ==
    \/ WriteFile \/ NextLeaf \/ CommandEnds \/ Killed \/ cmd_revoke
    \/ \E sans \in SUBSET Hosts : cmd_init(sans)
    \/ \E sel \in Selections :
          cmd_renew(sel) \/ RenewCa(sel) \/ \E h \in Hosts : cmd_add_host(h, sel)

-----------------------------------------------------------------------------
CertsTypeOK ==
    /\ \A p \in Paths : /\ disk[p].st \in {"none", "torn", "ok"}
                        /\ disk[p].kind \in {"none", "server", "client"}
                        /\ disk[p].sans \subseteq Hosts
    /\ issued \in 0..MaxCommands
    /\ job.cmd \in {"idle", "init", "add-host", "renew", "renew-ca"}
    /\ job.todo \subseteq Names /\ Len(job.out) <= 2

\* A reissue is the same leaf: for as long as a leaf's certificate can be read
\* it keeps its kind and every name it was ever given, through any sequence of
\* add-host and renew, killed or not ("add-host and renew shouldn't
\* accidentally change a server leaf into a client leaf or vice versa").
ReissueKeepsLeaf ==
    [][\A n \in Names : Readable(n, "cert") /\ disk'[<<n, "cert">>].st = "ok" =>
          /\ disk'[<<n, "cert">>].kind = File(n, "cert").kind
          /\ File(n, "cert").sans \subseteq disk'[<<n, "cert">>].sans]_kvars

\* Between commands every leaf in the store has the key of its certificate and
\* is signed by the CA in the store, unless a command was killed or the CA was
\* renewed for some leaves only; a renew --ca of all leaves that returns puts
\* that right, whatever was killed before it.
LeavesAreTrusted ==
    job.cmd = "idle" /\ ~excused =>
        \A n \in leaves_present :
            /\ Readable(n, "cert") /\ Readable(n, "key")
            /\ File(n, "cert").key = File(n, "key").key
            /\ File(n, "cert").signer = File("ca", "cert").key
=============================================================================
