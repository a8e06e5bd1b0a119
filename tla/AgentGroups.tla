---------------------------- MODULE AgentGroups ----------------------------
(***************************************************************************)
(* agent_action, from its propose tool (tools/propose_agent_action.py) to  *)
(* its executor (gateway/executors.py): assign an agent to a group or      *)
(* remove it from one, verified by reading the agent's groups     *)
(* (resolve_agent_groups, wazuh/capabilities.py), and undone by the inverse *)
(* operation (wazuh/agent_actions.py).  One agent; operators change its    *)
(* groups too.                                                             *)
(***************************************************************************)
EXTENDS WazuhFaults

CONSTANTS
    Groups,
    Actions     \* forward proposals

VARIABLES
    groups,  \* the agent's groups on the manager
    act,     \* each forward proposal
    unact    \* the state of its reversal

gvars == <<groups, act, unact, faults, intrusions, disturbed>>

GroupOps == {"assign_group", "remove_group"}

INVERSE_OP == [op \in GroupOps |-> IF op = "assign_group" THEN "remove_group" ELSE "assign_group"]

Applied(op, g) == IF op = "assign_group" THEN groups \cup {g} ELSE groups \ {g}

\* Every group the manager names, or none when the read fails in any way.
resolve_agent_groups(seen) ==
    \/ seen = groups /\ UNCHANGED faults
    \/ seen = {} /\ Fault

\* Mutant: the write's answer is trusted.
Verified_trusting(op, g, seen) == TRUE

Verified(op, g, seen) == (g \in seen) <=> (op = "assign_group")

\* op on g is the undo of an active action of Wolf's on the same agent.
Inverts(a, op, g) ==
    /\ act[a].state = "succeeded" /\ unact[a] = "none"
    /\ INVERSE_OP[op] = act[a].op /\ g = act[a].g

\* The tool queues what was asked for as an action of its own, unless it is the
\* undo of an earlier one ...
ProposeGroup(a, op, g) ==
    /\ act[a].state = "none"
    /\ \A b \in Actions : ~Inverts(b, op, g)
    /\ act' = [act EXCEPT ![a] = [state |-> "approved", op |-> op, g |-> g]]
    /\ UNCHANGED <<groups, unact, faults, intrusions>>

\* ... which is then linked to it (of several alike, to the last).
ProposeInverse(a, op, g) ==
    /\ Inverts(a, op, g)
    /\ unact' = [unact EXCEPT ![a] = "approved"]
    /\ UNCHANGED <<groups, act, faults, intrusions>>

\* The write: done, ignored by the manager, or raised after or before it landed.
\* A write that raised is a failed execution without a verification read.
GroupWrite(op, g, next) ==
    \/ next = "verify" /\ groups' = Applied(op, g) /\ UNCHANGED faults
    \/ next = "verify" /\ groups' = groups /\ Fault
    \/ next = "failed" /\ groups' \in {groups, Applied(op, g)} /\ Fault

GroupPerform(a, next) ==
    /\ act[a].state = "approved"
    /\ GroupWrite(act[a].op, act[a].g, next)
    /\ act' = [act EXCEPT ![a].state = next]
    /\ UNCHANGED <<unact, intrusions>>

GroupVerify(a, seen) ==
    /\ act[a].state = "verify"
    /\ resolve_agent_groups(seen)
    /\ act' = [act EXCEPT ![a].state =
                 IF Verified(act[a].op, act[a].g, seen) THEN "succeeded" ELSE "failed"]
    /\ UNCHANGED <<groups, unact, intrusions>>

\* The reversal performs the inverse operation.
GroupPerformReverse(a, next) ==
    /\ unact[a] = "approved"
    /\ GroupWrite(INVERSE_OP[act[a].op], act[a].g, next)
    /\ unact' = [unact EXCEPT ![a] = next]
    /\ UNCHANGED <<act, intrusions>>

\* Mutant: an undo flips its original whatever the read shows.
GroupVerifyReverse_anyway(a, seen) ==
    LET ok == Verified(INVERSE_OP[act[a].op], act[a].g, seen) IN
    /\ unact[a] = "verify"
    /\ resolve_agent_groups(seen)
    /\ unact' = [unact EXCEPT ![a] = IF ok THEN "succeeded" ELSE "failed"]
    /\ act' = [act EXCEPT ![a].state = "rolled_back"]
    /\ UNCHANGED <<groups, intrusions>>

\* A verified reversal is tagged completed, and its original rolled back.
GroupVerifyReverse(a, seen) ==
    LET ok == Verified(INVERSE_OP[act[a].op], act[a].g, seen) IN
    /\ unact[a] = "verify"
    /\ resolve_agent_groups(seen)
    /\ unact' = [unact EXCEPT ![a] = IF ok THEN "succeeded" ELSE "failed"]
    /\ act' = IF ok THEN [act EXCEPT ![a].state = "rolled_back"] ELSE act
    /\ UNCHANGED <<groups, intrusions>>

OperatorMoves(g) ==
    /\ Intrusion
    /\ groups' \in {groups \cup {g}, groups \ {g}}
    /\ UNCHANGED <<act, unact, faults>>

GInit ==
    /\ groups \in SUBSET Groups
    /\ act = [a \in Actions |-> [state |-> "none", op |-> "assign_group", g |-> "none"]]
    /\ unact = [a \in Actions |-> "none"]
    /\ faults = 0 /\ intrusions = 0 /\ disturbed = {}

GNext ==
    /\ UNCHANGED disturbed
    /\ \/ \E a \in Actions :
             \/ \E op \in GroupOps, g \in Groups : ProposeGroup(a, op, g) \/ ProposeInverse(a, op, g)
             \/ \E next \in {"verify", "failed"} : GroupPerform(a, next) \/ GroupPerformReverse(a, next)
             \/ \E seen \in SUBSET Groups : GroupVerify(a, seen) \/ GroupVerifyReverse(a, seen)
       \/ \E g \in Groups : OperatorMoves(g)

GSpec == GInit /\ [][GNext]_gvars

-----------------------------------------------------------------------------
(* Properties.                                                             *)

ActBecomes(a, state) == act[a].state # state /\ act'[a].state = state

\* Types of the agent's groups and of the proposals.
GroupsTypeOK ==
    /\ groups \in SUBSET Groups
    /\ \A a \in Actions :
          /\ act[a].state \in {"none", "approved", "verify", "succeeded", "failed", "rolled_back"}
          /\ unact[a] \in {"none", "approved", "verify", "succeeded", "failed"}
          /\ act[a].state = "rolled_back" => unact[a] = "succeeded"

\* An assignment recorded as succeeded is on the manager when it is recorded,
\* whatever calls failed; so is the assignment that undoes a removal.
AssignedIsMember ==
    [][\A a \in Actions :
          /\ ActBecomes(a, "succeeded") /\ act[a].op = "assign_group" => act[a].g \in groups
          /\ ActBecomes(a, "rolled_back") /\ act[a].op = "remove_group" => act[a].g \in groups]_gvars
=============================================================================
