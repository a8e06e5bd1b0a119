----------------------------- MODULE Executors -----------------------------
(***************************************************************************)
(* The class executors registered in gateway/executors.py, side by side.   *)
(* They work on disjoint artefacts of Wazuh (local_rules.xml, ossec.conf,  *)
(* an agent's groups), so a behaviour of all of them is a shuffle of one   *)
(* behaviour of each, and a property of one of them that holds while the   *)
(* others rest holds of every shuffle.  on is the executor that moves.     *)
(***************************************************************************)
EXTENDS RuleTuning, ConfigChange, AgentGroups

CONSTANT Registered     \* action classes whose executor may move

VARIABLE on

evars == <<on, file, tune, untune, cluster, conf, chg, unchg, groups, act, unact, faults, intrusions, disturbed>>

\* The artefacts of the executors at rest are in one representative state.
EInit ==
    /\ on \in Registered
    /\ TInit /\ CInit /\ GInit
    /\ on # "rule_tuning" => file.own
    /\ on # "config_change" => /\ cluster
                               /\ \A n \in Members, s \in Sections : conf[n].sec[s] = Absent
    /\ on # "agent_action" => groups = {}

TStep ==
    /\ on = "rule_tuning" /\ TNext
    /\ UNCHANGED <<on, cluster, conf, chg, unchg, groups, act, unact>>

CStep ==
    /\ on = "config_change" /\ CNext
    /\ UNCHANGED <<on, file, tune, untune, groups, act, unact>>

GStep ==
    /\ on = "agent_action" /\ GNext
    /\ UNCHANGED <<on, file, tune, untune, cluster, conf, chg, unchg>>

ENext == TStep \/ CStep \/ GStep

ESpec == EInit /\ [][ENext]_evars

\* Types of the artefacts and of the executions of every class.
ExecutorsTypeOK == TuningTypeOK /\ ConfigTypeOK /\ GroupsTypeOK
=============================================================================
