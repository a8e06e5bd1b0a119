---------------------------- MODULE ConfigChange ----------------------------
(***************************************************************************)
(* The config_change executor (gateway/executors.py), the scope its        *)
(* propose tool freezes (tools/propose_config_change.py) and the           *)
(* ossec.conf files it edits (wazuh/config_change.py).  A cluster does not *)
(* sync ossec.conf, so a change is written to every node in scope, node by *)
(* node, validated once, proved node by node and put back on the nodes     *)
(* already written when a call before the restart fails.  An all-in-one    *)
(* manager takes the same steps on its one file, but puts it back only     *)
(* when the manager refused the edit.                                      *)
(***************************************************************************)
EXTENDS WazuhFaults, FiniteSets

CONSTANTS
    Nodes,      \* the nodes a deployment may have
    Sections,   \* addressed sections or block keys
    Contents,   \* contents of a section
    Absent,     \* the section is not in the file
    Many,       \* the section is in the file more than once
    Changes     \* forward proposals

ASSUME ConfigChangeAssumption ==
    Absent \notin Contents /\ Many \notin Contents \cup {Absent} /\ IsFiniteSet(Nodes)

VARIABLES
    cluster, \* TRUE: distributed; FALSE: an all-in-one manager, one node
    conf,    \* ossec.conf of each node of the deployment
    chg,     \* the life of each forward proposal
    unchg    \* the execution of its reversal

cvars == <<cluster, conf, chg, unchg, faults, intrusions, disturbed>>

Members == DOMAIN conf

\* house: the file is in the manager's own indentation, which the Server API
\* gives every file it writes.
ConfFile == [sec : [Sections -> Contents \cup {Absent, Many}], house : BOOLEAN]

\* What a node holds after a PUT of f.
Served(f) == [f EXCEPT !.house = TRUE]

ConfigOps == {"update_section", "upsert_block", "remove_block"}

\* The nodes a proposal addresses: every node, or the ones that carry the block.
in_scope(op, s) ==
    LET carriers == {n \in Members : conf[n].sec[s] # Absent} IN
    IF op = "update_section" \/ (op = "upsert_block" /\ carriers = {}) THEN Members ELSE carriers

\* The change applies to f: one block to replace or remove, or room to add one.
Applies(f, op, s) ==
    /\ f.sec[s] # Many
    /\ op = "remove_block" => f.sec[s] # Absent

build_candidate(f, s, new) == [f EXCEPT !.sec[s] = new]

ChangeAtRest == {"none", "pending", "done"}

\* The executions in flight.
Running ==
    {Forward(c) : c \in {d \in Changes : chg[d].pc \notin ChangeAtRest}} \cup
    {Undo(c) : c \in {d \in Changes : unchg[d].pc \notin {"idle", "done"}}}

\* An execution begins, while others run or not.
Begins == IF Running = {} THEN UNCHANGED intrusions ELSE Intrusion

-----------------------------------------------------------------------------
(* Propose, freshness, snapshot.                                           *)

\* The dry run: the target reads unambiguously on every node, and the change
\* applies to each one in scope.
Captured(op, s) ==
    /\ in_scope(op, s) # {}
    /\ \A n \in Members : conf[n].sec[s] # Many
    /\ \A n \in in_scope(op, s) : Applies(conf[n], op, s)

\* Sections are the ones that may be edited; a removal, and nothing else, comes
\* without a block.
_validate_config_change(op, new) == (new = Absent) <=> (op = "remove_block")

\* The confirmed proposal is queued with what the approver is shown; a preview
\* and a refusal queue nothing.
ProposeChange(c, op, s, new) ==
    /\ chg[c].pc = "none"
    /\ _validate_config_change(op, new)
    /\ Captured(op, s)
    /\ chg' = [chg EXCEPT ![c] =
                 [ @ EXCEPT !.pc = "pending", !.op = op, !.s = s, !.new = new, !.scope = in_scope(op, s),
                     !.frozen = [n \in Members |-> conf[n].sec[s]] ]]
    /\ UNCHANGED <<conf, unchg, faults, intrusions>>

\* end tells how perform ended: "ok", "stale" or "refused" by a check, "raised" by a call.
ChangeEnds(c, state, end) ==
    chg' = [chg EXCEPT ![c].pc = "done", ![c].left = {}, ![c].written = {},
                       ![c].state = state, ![c].end = end]

\* Mutant: only one node is compared.
target_fresh_one(c) == \E n \in chg[c].scope : conf[n].sec[chg[c].s] = chg[c].frozen[n]

target_fresh(c) == \A n \in chg[c].scope : conf[n].sec[chg[c].s] = chg[c].frozen[n]

\* The live targets are the frozen ones, or the permission is void; a lost
\* grant, a node that left or an unreadable inventory voids it too.
ChangeFreshness(c) ==
    /\ chg[c].pc = "pending" /\ Begins
    /\ \/ target_fresh(c) /\ chg' = [chg EXCEPT ![c].pc = "snapshot"]
       \/ ChangeEnds(c, "expired", "stale")
    /\ UNCHANGED <<conf, unchg, faults>>

\* Every node's file before any write: the undo's restore point.
ChangeSnapshot(c) ==
    /\ chg[c].pc = "snapshot"
    /\ IF \A n \in chg[c].scope : Applies(conf[n], chg[c].op, chg[c].s)
       THEN chg' = [chg EXCEPT ![c].pc = "write", ![c].snap = conf, ![c].left = chg[c].scope]
       ELSE ChangeEnds(c, "failed", "refused")
    /\ UNCHANGED <<conf, unchg, faults, intrusions>>

-----------------------------------------------------------------------------
(* Write, validate, prove, restart; or put back.                           *)

\* restore_all(written), then the exception goes on.
PutBack(c, end) ==
    chg' = [chg EXCEPT ![c].pc = "restore", ![c].left = chg[c].written, ![c].end = end]

\* A PUT on the next node; the manager may ignore it.
update_node_configuration(c, n) ==
    LET left == chg[c].left \ {n}
        written == chg[c].written \cup {n} IN
    /\ chg[c].pc = "write" /\ n \in chg[c].left
    /\ \/ /\ conf' = [conf EXCEPT ![n] = Served(build_candidate(chg[c].snap[n], chg[c].s, chg[c].new))]
          /\ UNCHANGED faults
       \/ conf' = conf /\ Fault
    /\ chg' = [chg EXCEPT ![c].written = written,
                 ![c].pc = IF left = {} THEN "validate" ELSE "write",
                 ![c].left = IF left = {} THEN written ELSE left]
    /\ UNCHANGED <<unchg, intrusions>>

ChangeValidate(c, valid) ==
    /\ chg[c].pc = "validate"
    /\ IF valid THEN chg' = [chg EXCEPT ![c].pc = "prove"] ELSE PutBack(c, "refused")
    /\ UNCHANGED <<conf, unchg, faults, intrusions>>

\* Mutant: one node proves for all.
change_persisted_any(c, n) == \E m \in chg[c].written : conf[m].sec[chg[c].s] = chg[c].new

\* The content matches whatever the manager's indentation, or the block is gone.
change_persisted(c, n) == conf[n].sec[chg[c].s] = chg[c].new

ChangeProve(c, n) ==
    LET left == chg[c].left \ {n} IN
    /\ chg[c].pc = "prove" /\ n \in chg[c].left
    /\ IF change_persisted(c, n)
       THEN chg' = [chg EXCEPT ![c].left = left, ![c].pc = IF left = {} THEN "restart" ELSE "prove"]
       ELSE PutBack(c, "refused")
    /\ UNCHANGED <<conf, unchg, faults, intrusions>>

\* A call up to the proof raises: a cluster that began to write puts the written
\* nodes back, an all-in-one manager does not.  A PUT that raised may have landed.
ChangeRaises(c) ==
    /\ chg[c].pc \in {"snapshot", "write", "validate", "prove"} /\ Fault
    /\ \/ UNCHANGED conf
       \/ \E n \in chg[c].left :
             /\ chg[c].pc = "write"
             /\ conf' = [conf EXCEPT ![n] = Served(build_candidate(chg[c].snap[n], chg[c].s, chg[c].new))]
    /\ IF cluster /\ chg[c].pc # "snapshot" THEN PutBack(c, "raised")
                                            ELSE ChangeEnds(c, "failed", "raised")
    /\ UNCHANGED <<unchg, intrusions>>

ChangeRestore(c, n) ==
    /\ chg[c].pc = "restore" /\ n \in chg[c].left
    /\ conf' = [conf EXCEPT ![n] = Served(chg[c].snap[n])]
    /\ chg' = [chg EXCEPT ![c].left = @ \ {n}]
    /\ UNCHANGED <<unchg, faults, intrusions>>

ChangeRestored(c) ==
    /\ chg[c].pc = "restore" /\ chg[c].left = {}
    /\ ChangeEnds(c, "failed", chg[c].end)
    /\ UNCHANGED <<conf, unchg, faults, intrusions>>

\* A restore that raises after a refusal is caught by the same handler and
\* starts over; the second time, and on an all-in-one manager, it is the end.
ChangeRestoreRaises(c) ==
    /\ chg[c].pc = "restore" /\ chg[c].left # {} /\ Fault
    /\ \/ UNCHANGED conf
       \/ \E n \in chg[c].left : conf' = [conf EXCEPT ![n] = Served(chg[c].snap[n])]
    /\ IF cluster /\ chg[c].end = "refused" THEN PutBack(c, "raised") ELSE ChangeEnds(c, "failed", "raised")
    /\ UNCHANGED <<unchg, intrusions>>

\* The restart is outside the handler that puts files back.
ChangeRestart(c) ==
    /\ chg[c].pc = "restart"
    /\ \/ ChangeEnds(c, "succeeded", "ok") /\ UNCHANGED faults
       \/ ChangeEnds(c, "failed", "raised") /\ Fault
    /\ UNCHANGED <<conf, unchg, intrusions>>

-----------------------------------------------------------------------------
(* Reverse: PUT each snapshot, compare hashes, validate, restart.  A       *)
(* cluster compares after each PUT, an all-in-one manager after validation. *)

UnchangeEnds(c, state) ==
    unchg' = [unchg EXCEPT ![c] = [pc |-> "done", left |-> {}, at |-> Absent, ok |-> TRUE,
                                   valid |-> FALSE, state |-> state]]

\* restore_config recalls the active change of a section that its organization
\* made last; others share the file, so any active change may be it.
RecalledChange(c) == chg[c].state = "succeeded" /\ unchg[c].pc = "idle"

UnchangeStart(c) ==
    /\ RecalledChange(c) /\ Begins
    /\ unchg' = [unchg EXCEPT ![c].pc = "put", ![c].left = chg[c].scope]
    /\ UNCHANGED <<conf, chg, faults>>

UnchangePut(c, n) ==
    /\ unchg[c].pc = "put" /\ n \in unchg[c].left
    /\ \/ conf' = [conf EXCEPT ![n] = Served(chg[c].snap[n])] /\ UNCHANGED faults
       \/ conf' = conf /\ Fault
    /\ unchg' = [unchg EXCEPT ![c].at = n, ![c].left = @ \ {n},
                            ![c].pc = IF cluster THEN "compare" ELSE "validate"]
    /\ UNCHANGED <<chg, intrusions>>

AfterCompare(c) == IF ~cluster THEN "restart" ELSE IF unchg[c].left = {} THEN "validate" ELSE "put"

\* sha256 of the file read back against the snapshot: indentation counts.
UnchangeCompare(c) ==
    /\ unchg[c].pc = "compare"
    /\ unchg' = [unchg EXCEPT ![c].ok = @ /\ conf[unchg[c].at] = chg[c].snap[unchg[c].at],
                            ![c].pc = AfterCompare(c)]
    /\ UNCHANGED <<conf, chg, faults, intrusions>>

\* A cluster records an invalid restore and goes on; an all-in-one manager raises.
UnchangeValidate(c, valid) ==
    /\ unchg[c].pc = "validate"
    /\ IF cluster
       THEN unchg' = [unchg EXCEPT ![c].ok = @ /\ valid, ![c].valid = valid, ![c].pc = "restart"]
       ELSE IF valid THEN unchg' = [unchg EXCEPT ![c].valid = TRUE, ![c].pc = "compare"]
                     ELSE UnchangeEnds(c, "failed")
    /\ UNCHANGED <<conf, chg, faults, intrusions>>

\* The outcome, and the original's rolled_back with it (complete_api_reversal).
UnchangeRestart(c) ==
    /\ unchg[c].pc = "restart"
    /\ UnchangeEnds(c, IF unchg[c].ok THEN "succeeded" ELSE "failed")
    /\ chg' = IF unchg[c].ok THEN [chg EXCEPT ![c].state = "rolled_back"] ELSE chg
    /\ UNCHANGED <<conf, faults, intrusions>>

UnchangeRaises(c) ==
    /\ unchg[c].pc \notin {"idle", "done"} /\ Fault
    /\ \/ UNCHANGED conf
       \/ \E n \in unchg[c].left :
             unchg[c].pc = "put" /\ conf' = [conf EXCEPT ![n] = Served(chg[c].snap[n])]
    /\ UnchangeEnds(c, "failed")
    /\ UNCHANGED <<chg, intrusions>>

-----------------------------------------------------------------------------

\* An operator edits a node's file by hand.
OperatorEdit(n, s, v) ==
    /\ Intrusion
    /\ conf' = [conf EXCEPT ![n].sec[s] = v, ![n].house = FALSE]
    /\ UNCHANGED <<chg, unchg, faults>>

CInit ==
    /\ cluster \in BOOLEAN
    /\ \E v \in Contents \cup {Absent}, D \in SUBSET Nodes :
          /\ IF cluster THEN D = Nodes ELSE Cardinality(D) = 1
          /\ conf = [n \in D |-> [sec |-> [s \in Sections |-> v], house |-> TRUE]]
    /\ chg = [c \in Changes |->
                [pc |-> "none", op |-> "update_section", s |-> Absent, new |-> Absent, scope |-> {},
                 frozen |-> <<>>, snap |-> <<>>, left |-> {}, written |-> {},
                 state |-> "approved", end |-> "none"]]
    /\ unchg = [c \in Changes |->
                [pc |-> "idle", left |-> {}, at |-> Absent, ok |-> TRUE, valid |-> FALSE,
                 state |-> "approved"]]
    /\ faults = 0 /\ intrusions = 0 /\ disturbed = {}

CNext ==
    /\ UNCHANGED cluster
    /\ \/ \E c \in Changes :
             /\ \/ \E op \in ConfigOps, s \in Sections, new \in Contents \cup {Absent} :
                      ProposeChange(c, op, s, new)
                \/ ChangeFreshness(c) \/ ChangeSnapshot(c) \/ ChangeRaises(c)
                \/ ChangeRestored(c) \/ ChangeRestoreRaises(c) \/ ChangeRestart(c)
                \/ \E n \in Members : \/ update_node_configuration(c, n) \/ ChangeProve(c, n)
                                      \/ ChangeRestore(c, n) \/ UnchangePut(c, n)
                \/ \E valid \in BOOLEAN : ChangeValidate(c, valid) \/ UnchangeValidate(c, valid)
                \/ UnchangeStart(c) \/ UnchangeCompare(c) \/ UnchangeRestart(c) \/ UnchangeRaises(c)
             /\ Disturbs(conf' # conf, Running \ {Forward(c), Undo(c)}, Running')
       \/ \E n \in Members, s \in Sections, v \in Contents \cup {Absent, Many} :
             OperatorEdit(n, s, v) /\ Disturbs(conf' # conf, Running, Running')

CSpec == CInit /\ [][CNext]_cvars

-----------------------------------------------------------------------------
(* Properties.  Those about an execution's outcome speak of executions     *)
(* under which nobody else wrote the files.                                *)

\* Types of the files and of the executions' progress.
ConfigTypeOK ==
    /\ conf \in [Members -> ConfFile] /\ Members \subseteq Nodes
    /\ \A c \in Changes :
          /\ chg[c].written \subseteq chg[c].scope /\ chg[c].left \subseteq chg[c].scope
          /\ chg[c].scope \subseteq Members /\ unchg[c].left \subseteq chg[c].scope
          /\ chg[c].state \in {"approved", "expired", "succeeded", "failed", "rolled_back"}
          /\ unchg[c].state \in {"approved", "succeeded", "failed"}

ChangeBecomes(c, state) == chg[c].state # state /\ chg'[c].state = state

\* What the ledger records holds on every node in scope, not only on the
\* master: a change recorded as succeeded is in every file; one the manager
\* refused ("restored the prior file on all node(s).  No change applied.")
\* leaves every content as the snapshot has it; one recorded as rolled back has
\* every file back, to the byte.
ChangeOutcomeIsTrue ==
    [][\A c \in Changes :
        /\ ChangeBecomes(c, "succeeded") /\ Forward(c) \notin disturbed =>
              \A n \in chg[c].scope : conf[n].sec[chg[c].s] = chg[c].new
        /\ ChangeBecomes(c, "failed") /\ chg'[c].end = "refused" /\ Forward(c) \notin disturbed =>
              \A n \in chg[c].written : conf[n].sec = chg[c].snap[n].sec
        /\ ChangeBecomes(c, "rolled_back") /\ Undo(c) \notin disturbed =>
              \A n \in chg[c].scope : conf[n] = chg[c].snap[n]]_cvars

\* What runs is the diff the approver saw: every node that is written held, in
\* the snapshot it is written from, the content frozen at propose time.
DiffIsWhatRuns ==
    \A c \in Changes : Forward(c) \notin disturbed => \A n \in chg[c].written :
        chg[c].snap[n].sec[chg[c].s] = chg[c].frozen[n]
=============================================================================
