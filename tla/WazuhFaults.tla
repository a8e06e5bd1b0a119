---------------------------- MODULE WazuhFaults ----------------------------
(***************************************************************************)
(* What the class executors (gateway/executors.py) share: the Wazuh Server *)
(* API they write through, which may fail under any call, and the people   *)
(* who change the same artefacts without Wolf.                             *)
(***************************************************************************)
EXTENDS Naturals

CONSTANTS
    MaxFaults,  \* bound on Server API calls that raise or are ignored
    MaxIntrusions    \* bound on operators' edits and executions that cross another

ASSUME FaultsAssumption == MaxFaults \in Nat /\ MaxIntrusions \in Nat

VARIABLES
    faults,
    intrusions,
    disturbed   \* history: running executions under which others changed the artefact

\* A call raises, or a write is accepted and not applied.  The write that puts
\* an artefact back after a failure lands or raises, and is never ignored.
Fault == faults < MaxFaults /\ faults' = faults + 1

\* Somebody turns to an artefact others may be working on.
Intrusion == intrusions < MaxIntrusions /\ intrusions' = intrusions + 1

\* The execution of a proposal, and of its undo.
Forward(p) == <<p, "forward">>
Undo(p) == <<p, "undo">>

\* An artefact changes under the executions in runs; left are those still running.
Disturbs(changed, runs, left) ==
    disturbed' = left \cap (disturbed \cup IF changed THEN runs ELSE {})
=============================================================================
