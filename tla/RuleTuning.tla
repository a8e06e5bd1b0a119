----------------------------- MODULE RuleTuning -----------------------------
(***************************************************************************)
(* The rule_tuning executor (gateway/executors.py) and the file it edits   *)
(* (wazuh/rule_tuning.py): what Perform of Gateway does for this class,    *)
(* call by call.  local_rules.xml is one file shared by every organization *)
(* and nothing locks it: an execution reads it, writes the whole file,     *)
(* asks the manager to validate it, reads it again and restarts the        *)
(* cluster, and other executions run between any two of these calls.       *)
(***************************************************************************)
EXTENDS WazuhFaults

CONSTANTS
    Rules, Levels,  \* rule ids, and the levels a proposal may ask for
    Tunes,          \* forward proposals
    None            \* no override of a rule

RULE_TUNING_FORWARD_OPS == {"disable_rule", "adjust_level"}
DISABLE_LEVEL == 0

ASSUME RuleTuningAssumption == None \notin Levels /\ DISABLE_LEVEL \in Levels

VARIABLES
    file,    \* local_rules.xml on disk
    tune,    \* the execution of each forward proposal
    untune   \* the execution of its reversal

tvars == <<file, tune, untune, faults, intrusions, disturbed>>

\* own: the operators' own rules, which keep the file from being empty;
\* ovr: the level Wolf's marked override block gives each rule.
RulesFile == [own : BOOLEAN, ovr : [Rules -> Levels \cup {None}]]

has_override(f, rule) == f.ovr[rule] # None

\* Strip the rule's marked block, append the new one.
apply_override(f, rule, level) == [f EXCEPT !.ovr[rule] = level]

EmptyFile(f) == ~f.own /\ \A r \in Rules : ~has_override(f, r)

TuneAtRest == {"idle", "pending", "done"}

\* The executions in flight.
TunesRunning ==
    {Forward(t) : t \in {u \in Tunes : tune[u].pc \notin TuneAtRest}} \cup
    {Undo(t) : t \in {u \in Tunes : untune[u].pc \notin TuneAtRest}}

-----------------------------------------------------------------------------
(* Forward: propose, resolve and snapshot, PUT, validate, confirm, restart. *)

is_valid_level(level) == level \in 0..16

\* Only a level can be wrong with a proposal about one known rule.
_validate_rule_tuning(op, level) == op = "adjust_level" => is_valid_level(level)

\* The tool queues a proposal to silence a rule or to give it a level from 0 to
\* 16; what the validator refuses, and what the credential may not do, leaves
\* nothing behind.
ProposeTuning(t, op, rule, level) ==
    /\ tune[t].pc = "idle"
    /\ _validate_rule_tuning(op, level)
    /\ tune' = [tune EXCEPT ![t].pc = "pending", ![t].rule = rule,
                            ![t].level = IF op = "disable_rule" THEN DISABLE_LEVEL ELSE level]
    /\ UNCHANGED <<file, untune, faults>>

\* end tells how perform ended: "ok", "refused" (RulesetValidationError after
\* the prior file was put back) or "raised" (a Server API call failed).
TuneEnds(t, state, end) ==
    tune' = [tune EXCEPT ![t].pc = "done", ![t].state = state, ![t].end = end]

TuneGoes(t, pc) == tune' = [tune EXCEPT ![t].pc = pc]

\* Resolve the rule, take the snapshot into prior_state, read the rule's body.
TuneSnapshot(t) ==
    /\ tune[t].pc = "pending"
    /\ tune' = [tune EXCEPT ![t].pc = "write", ![t].snap = file, ![t].state = "executing"]
    /\ UNCHANGED <<file, untune, faults>>

\* PUT of the snapshot with the override; the manager may ignore it.
put_local_rules(t) ==
    /\ tune[t].pc = "write"
    /\ \/ file' = apply_override(tune[t].snap, tune[t].rule, tune[t].level) /\ UNCHANGED faults
       \/ file' = file /\ Fault
    /\ TuneGoes(t, "validate")
    /\ UNCHANGED untune

\* Mutant: an invalid ruleset is reported without putting the prior file back.
TuneValidate_keeps(t, valid) ==
    /\ tune[t].pc = "validate"
    /\ IF valid THEN TuneGoes(t, "confirm") ELSE TuneEnds(t, "failed", "refused")
    /\ UNCHANGED <<file, untune, faults>>

TuneValidate(t, valid) ==
    /\ tune[t].pc = "validate"
    /\ TuneGoes(t, IF valid THEN "confirm" ELSE "restore")
    /\ UNCHANGED <<file, untune, faults>>

\* Mutant: the write is not read back.
TuneConfirm_blind(t) ==
    /\ tune[t].pc = "confirm"
    /\ TuneGoes(t, "restart")
    /\ UNCHANGED <<file, untune, faults>>

\* Read the file again and look for the marked block.
TuneConfirm(t) ==
    /\ tune[t].pc = "confirm"
    /\ TuneGoes(t, IF has_override(file, tune[t].rule) THEN "restart" ELSE "restore")
    /\ UNCHANGED <<file, untune, faults>>

TuneRestore(t) ==
    /\ tune[t].pc = "restore"
    /\ file' = tune[t].snap
    /\ TuneEnds(t, "failed", "refused")
    /\ UNCHANGED <<untune, faults>>

TuneRestart(t) ==
    /\ tune[t].pc = "restart"
    /\ TuneEnds(t, "succeeded", "ok")
    /\ UNCHANGED <<file, untune, faults>>

\* A Server API call raises out of perform; a PUT may have landed all the same.
TuneRaises(t) ==
    /\ tune[t].pc \notin TuneAtRest /\ Fault
    /\ file' \in {file} \cup
         (CASE tune[t].pc = "write" -> {apply_override(tune[t].snap, tune[t].rule, tune[t].level)}
            [] tune[t].pc = "restore" -> {tune[t].snap}
            [] OTHER -> {})
    /\ TuneEnds(t, "failed", "raised")
    /\ UNCHANGED untune

-----------------------------------------------------------------------------
(* Reverse: PUT the snapshot, validate, confirm, restart.                  *)

UntuneEnds(t, state) == untune' = [untune EXCEPT ![t].pc = "done", ![t].state = state]

UntuneGoes(t, pc) == untune' = [untune EXCEPT ![t].pc = pc]

\* restore_rules recalls the active tuning of a rule that its organization made
\* last.  The file is everybody's, so the one recalled need not be the last one
\* written: any active tuning may be it.
RecalledTune(t) == tune[t].state = "succeeded" /\ untune[t].pc = "idle"

\* The reversal's freshness check wants a snapshot with content.
UntuneStart(t) ==
    /\ RecalledTune(t)
    /\ IF EmptyFile(tune[t].snap) THEN UntuneEnds(t, "expired") ELSE UntuneGoes(t, "write")
    /\ UNCHANGED <<file, tune, faults>>

UntunePut(t) ==
    /\ untune[t].pc = "write"
    /\ \/ file' = tune[t].snap /\ UNCHANGED faults
       \/ file' = file /\ Fault
    /\ UntuneGoes(t, "validate")
    /\ UNCHANGED tune

\* Nothing is put back when the restored ruleset is invalid.
UntuneValidate(t, valid) ==
    /\ untune[t].pc = "validate"
    /\ IF valid THEN UntuneGoes(t, "confirm") ELSE UntuneEnds(t, "failed")
    /\ UNCHANGED <<file, tune, faults>>

UntuneConfirm(t) ==
    /\ untune[t].pc = "confirm"
    /\ untune' = [untune EXCEPT ![t].pc = "restart", ![t].gone = ~has_override(file, tune[t].rule)]
    /\ UNCHANGED <<file, tune, faults>>

\* The outcome, and the original's rolled_back with it (complete_api_reversal).
UntuneRestart(t) ==
    /\ untune[t].pc = "restart"
    /\ UntuneEnds(t, IF untune[t].gone THEN "succeeded" ELSE "failed")
    /\ tune' = IF untune[t].gone THEN [tune EXCEPT ![t].state = "rolled_back"] ELSE tune
    /\ UNCHANGED <<file, faults>>

UntuneRaises(t) ==
    /\ untune[t].pc \notin TuneAtRest /\ Fault
    /\ file' \in {file} \cup (IF untune[t].pc = "write" THEN {tune[t].snap} ELSE {})
    /\ untune' = [untune EXCEPT ![t].pc = "done", ![t].state = "failed", ![t].raised = TRUE]
    /\ UNCHANGED tune

-----------------------------------------------------------------------------

TInit ==
    /\ file \in [own : BOOLEAN, ovr : {[r \in Rules |-> None]}]
    /\ tune = [t \in Tunes |-> [pc |-> "idle", rule |-> None, level |-> None,
                                snap |-> file, state |-> "approved", end |-> "none"]]
    /\ untune = [t \in Tunes |-> [pc |-> "idle", state |-> "approved",
                                gone |-> FALSE, raised |-> FALSE]]
    /\ faults = 0 /\ intrusions = 0 /\ disturbed = {}

TNext ==
    /\ UNCHANGED intrusions
    /\ \E t \in Tunes :
       /\ \/ \E op \in RULE_TUNING_FORWARD_OPS, rule \in Rules, level \in Levels :
                ProposeTuning(t, op, rule, level)
          \/ TuneSnapshot(t) \/ put_local_rules(t) \/ TuneConfirm(t) \/ TuneRestore(t) \/ TuneRestart(t)
          \/ \E valid \in BOOLEAN : TuneValidate(t, valid) \/ UntuneValidate(t, valid)
          \/ TuneRaises(t)
          \/ UntuneStart(t) \/ UntunePut(t) \/ UntuneConfirm(t) \/ UntuneRestart(t) \/ UntuneRaises(t)
       /\ Disturbs(file' # file, TunesRunning \ {Forward(t), Undo(t)}, TunesRunning')

TSpec == TInit /\ [][TNext]_tvars

-----------------------------------------------------------------------------
(* Properties.                                                             *)

TunePcs == {"idle", "pending", "write", "validate", "confirm", "restore", "restart", "done"}

\* Types of the file and of the executions.
TuningTypeOK ==
    /\ file \in RulesFile
    /\ tune \in [Tunes -> [pc : TunePcs, rule : Rules \cup {None}, level : Levels \cup {None},
                           snap : RulesFile, end : {"none", "ok", "refused", "raised"},
                           state : {"approved", "executing", "succeeded", "failed", "rolled_back"}]]
    /\ untune \in [Tunes -> [pc : TunePcs, gone : BOOLEAN, raised : BOOLEAN,
                           state : {"approved", "succeeded", "failed", "expired"}]]
    /\ faults \in 0..MaxFaults

TuneBecomes(t, state) == tune[t].state # state /\ tune'[t].state = state

\* "prove OUR override actually persisted": a tuning recorded as succeeded has
\* its override block in the file when it is recorded, and one recorded as
\* rolled back has none left, whatever calls failed or were ignored, unless
\* another execution wrote the file meanwhile.
TuneOutcomeIsTrue ==
    [][\A t \in Tunes :
        /\ TuneBecomes(t, "succeeded") /\ Forward(t) \notin disturbed => has_override(file, tune[t].rule)
        /\ TuneBecomes(t, "rolled_back") /\ Undo(t) \notin disturbed => ~has_override(file, tune[t].rule)
      ]_tvars

\* "restored the prior local_rules.xml.  No change applied.": an override in
\* the file was written by a tuning that was not refused, or comes back with a
\* snapshot taken while it was there.
RefusedLeavesNoOverride ==
    \A r \in Rules : has_override(file, r) =>
        \E t \in Tunes :
            \/ /\ tune[t].rule = r /\ tune[t].level = file.ovr[r]
               /\ tune[t].pc # "pending" /\ tune[t].end # "refused"
            \/ tune[t].snap.ovr[r] = file.ovr[r]
=============================================================================
