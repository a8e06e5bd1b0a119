-------------------------- MODULE ExecutorsProofs --------------------------
(***************************************************************************)
(* Proofs about the class executors: what the ledger records of a tuning,  *)
(* of a configuration change or of a group assignment is so on Wazuh, for  *)
(* every number of rules, nodes, proposals, faults and operators' edits.   *)
(***************************************************************************)
EXTENDS Executors, FiniteSetTheorems, TLAPS

-----------------------------------------------------------------------------
(* Rule tuning: the inductive invariant.                                   *)

Tuning ==
    [pc : TunePcs, rule : Rules \cup {None}, level : Levels \cup {None},
     snap : RulesFile, end : {"none", "ok", "refused", "raised"},
     state : {"approved", "executing", "succeeded", "failed", "rolled_back"}]

Untuning ==
    [pc : TunePcs, gone : BOOLEAN, raised : BOOLEAN,
     state : {"approved", "succeeded", "failed", "expired"}]

\* An execution that has not ended was neither refused nor recorded; its undo
\* begins after it.  What it read back before the restart is still so, unless
\* somebody else wrote the file since.
TuneOK(t) ==
    /\ tune[t].pc = "idle" => tune[t].level = None
    /\ tune[t].pc # "done" =>
          tune[t].end # "refused" /\ tune[t].state \notin {"succeeded", "rolled_back"}
    /\ untune[t].pc # "idle" => tune[t].pc = "done"
    /\ tune[t].pc = "restart" /\ Forward(t) \notin disturbed => has_override(file, tune[t].rule)
    /\ untune[t].pc = "restart" /\ untune[t].gone /\ Undo(t) \notin disturbed =>
          ~has_override(file, tune[t].rule)

TuneInv ==
    /\ TuningTypeOK
    /\ \A t \in Tunes : TuneOK(t)
    /\ RefusedLeavesNoOverride

-----------------------------------------------------------------------------
(* Rule tuning: what a step leaves.                                        *)

\* A fault stays within the bound.
LEMMA FaultBounded ==
    ASSUME faults \in 0..MaxFaults, Fault \/ faults' = faults
    PROVE  faults' \in 0..MaxFaults
BY FaultsAssumption DEF Fault

\* Which executions run.
LEMMA TunesThatRun ==
    ASSUME NEW t \in Tunes
    PROVE  /\ Forward(t) \in TunesRunning <=> tune[t].pc \notin TuneAtRest
           /\ Undo(t) \in TunesRunning <=> untune[t].pc \notin TuneAtRest
BY DEF TunesRunning, Forward, Undo

\* The same after a step.
LEMMA TunesThatRunNext ==
    ASSUME NEW t \in Tunes
    PROVE  /\ Forward(t) \in TunesRunning' <=> tune'[t].pc \notin TuneAtRest
           /\ Undo(t) \in TunesRunning' <=> untune'[t].pc \notin TuneAtRest
BY DEF TunesRunning, Forward, Undo

\* Nobody wrote the file under an execution that still runs undisturbed.
LEMMA FileKept ==
    ASSUME NEW t \in Tunes, NEW u \in Tunes, t # u,
           Disturbs(file' # file, TunesRunning \ {Forward(t), Undo(t)}, TunesRunning')
    PROVE  /\ tune[u].pc \notin TuneAtRest /\ tune'[u].pc \notin TuneAtRest /\ Forward(u) \notin disturbed'
                 => file' = file /\ Forward(u) \notin disturbed
           /\ untune[u].pc \notin TuneAtRest /\ untune'[u].pc \notin TuneAtRest /\ Undo(u) \notin disturbed'
                 => file' = file /\ Undo(u) \notin disturbed
<1>1. Forward(u) \notin {Forward(t), Undo(t)} /\ Undo(u) \notin {Forward(t), Undo(t)}
    BY DEF Forward, Undo
<1> QED BY <1>1, TunesThatRun, TunesThatRunNext DEF Disturbs

\* An override keeps the file's shape and speaks of its rule only.
LEMMA OverrideApplied ==
    ASSUME NEW f \in RulesFile, NEW rule, NEW level \in Levels \cup {None}
    PROVE  /\ apply_override(f, rule, level) \in RulesFile
           /\ \A r \in Rules : apply_override(f, rule, level).ovr[r] =
                                  IF r = rule THEN level ELSE f.ovr[r]
BY DEF apply_override, RulesFile

\* One step of a forward execution.
LEMMA TuneMoves ==
    ASSUME TuneInv, NEW t \in Tunes, NEW r \in Tuning,
           tune[t].pc # "done", tune' = [tune EXCEPT ![t] = r], untune' = untune,
           file' \in RulesFile, faults' \in 0..MaxFaults,
           Disturbs(file' # file, TunesRunning \ {Forward(t), Undo(t)}, TunesRunning'),
           r.pc # "idle",
           r.pc # "done" => r.end # "refused" /\ r.state \notin {"succeeded", "rolled_back"},
           r.pc = "restart" => has_override(file', r.rule),
           RefusedLeavesNoOverride'
    PROVE  TuneInv'
<1>1. TuningTypeOK'
    BY DEF TuneInv, TuningTypeOK, Tuning
<1>2. ASSUME NEW u \in Tunes PROVE TuneOK(u)'
  <2>1. TuneOK(u) /\ TuneOK(t)
      BY <1>2 DEF TuneInv
  <2>2. CASE u = t
    <3>1. tune'[u] = r /\ untune'[u] = untune[u] /\ untune[u].pc = "idle"
        BY <2>1, <2>2 DEF TuneOK, TuneInv, TuningTypeOK
    <3> QED BY <3>1, <2>2 DEF TuneOK
  <2>3. CASE u # t
    <3>1. tune'[u] = tune[u] /\ untune'[u] = untune[u]
        BY <2>3 DEF TuneInv, TuningTypeOK
    <3> QED BY <3>1, <2>1, <2>3, <1>2, FileKept DEF TuneOK, TuneAtRest, has_override
  <2> QED BY <2>2, <2>3
<1> QED BY <1>1, <1>2 DEF TuneInv

\* One step of a reversal; only its record may change on the original.
LEMMA UntuneMoves ==
    ASSUME TuneInv, NEW t \in Tunes, NEW r \in Untuning, NEW s \in {tune[t].state, "rolled_back"},
           tune[t].pc = "done", untune' = [untune EXCEPT ![t] = r],
           tune' = [tune EXCEPT ![t].state = s],
           file' \in RulesFile, faults' \in 0..MaxFaults,
           Disturbs(file' # file, TunesRunning \ {Forward(t), Undo(t)}, TunesRunning'),
           r.pc = "restart" /\ r.gone => ~has_override(file', tune[t].rule),
           file' = file \/ file' = tune[t].snap
    PROVE  TuneInv'
<1>1. tune[t] \in Tuning /\ s \in {"approved", "executing", "succeeded", "failed", "rolled_back"}
    BY DEF TuneInv, TuningTypeOK, Tuning
<1>2. /\ \A u \in Tunes : u # t => tune'[u] = tune[u] /\ untune'[u] = untune[u]
      /\ tune'[t] = [tune[t] EXCEPT !.state = s] /\ untune'[t] = r
    BY DEF TuneInv, TuningTypeOK
<1>3. /\ tune'[t].pc = "done" /\ tune'[t].rule = tune[t].rule /\ tune'[t].level = tune[t].level
      /\ tune'[t].end = tune[t].end /\ tune'[t].snap = tune[t].snap /\ tune'[t] \in Tuning
    BY <1>1, <1>2 DEF Tuning
<1>4. TuningTypeOK'
  <2>1. tune' \in [Tunes -> Tuning]
      BY <1>2, <1>3 DEF TuneInv, TuningTypeOK, Tuning
  <2>2. untune' \in [Tunes -> Untuning]
      BY <1>2 DEF TuneInv, TuningTypeOK, Untuning
  <2> QED BY <2>1, <2>2 DEF TuningTypeOK, Tuning, Untuning
<1>5. ASSUME NEW u \in Tunes PROVE TuneOK(u)'
  <2>1. TuneOK(u)
      BY <1>5 DEF TuneInv
  <2>2. CASE u = t
      BY <1>2, <1>3, <2>1, <2>2 DEF TuneOK
  <2>3. CASE u # t
      BY <1>2, <2>1, <2>3, <1>5, FileKept DEF TuneOK, TuneAtRest, has_override
  <2> QED BY <2>2, <2>3
<1>6. RefusedLeavesNoOverride'
  <2> SUFFICES ASSUME NEW x \in Rules, file'.ovr[x] # None
               PROVE  \E u \in Tunes :
                         \/ /\ tune'[u].rule = x /\ tune'[u].level = file'.ovr[x]
                            /\ tune'[u].pc # "pending" /\ tune'[u].end # "refused"
                         \/ tune'[u].snap.ovr[x] = file'.ovr[x]
      BY DEF RefusedLeavesNoOverride, has_override
  <2>1. CASE file' = file
    <3>1. PICK u \in Tunes :
             \/ /\ tune[u].rule = x /\ tune[u].level = file.ovr[x]
                /\ tune[u].pc # "pending" /\ tune[u].end # "refused"
             \/ tune[u].snap.ovr[x] = file.ovr[x]
        BY <2>1 DEF TuneInv, RefusedLeavesNoOverride, has_override
    <3>2. /\ tune'[u].rule = tune[u].rule /\ tune'[u].level = tune[u].level
          /\ tune'[u].pc = tune[u].pc /\ tune'[u].end = tune[u].end /\ tune'[u].snap = tune[u].snap
        BY <1>2, <1>3
    <3> QED BY <2>1, <3>1, <3>2
  <2>2. CASE file' = tune[t].snap
      BY <1>3, <2>2
  <2> QED BY <2>1, <2>2
<1> QED BY <1>4, <1>5, <1>6 DEF TuneInv

\* A forward step that leaves the file and the snapshot keeps the overrides
\* accounted for.
LEMMA OverridesStay ==
    ASSUME TuneInv, NEW t \in Tunes, NEW r \in Tuning,
           tune' = [tune EXCEPT ![t] = r], file' = file,
           \/ r.snap = file
           \/ r.snap = tune[t].snap /\ tune[t].pc = "idle"
           \/ /\ r.snap = tune[t].snap /\ r.rule = tune[t].rule /\ r.level = tune[t].level
              /\ r.pc # "pending" /\ r.end # "refused"
    PROVE  RefusedLeavesNoOverride'
<1> SUFFICES ASSUME NEW x \in Rules, file.ovr[x] # None
             PROVE  \E u \in Tunes :
                       \/ /\ tune'[u].rule = x /\ tune'[u].level = file.ovr[x]
                          /\ tune'[u].pc # "pending" /\ tune'[u].end # "refused"
                       \/ tune'[u].snap.ovr[x] = file.ovr[x]
    BY DEF RefusedLeavesNoOverride, has_override
<1>1. PICK u \in Tunes :
         \/ /\ tune[u].rule = x /\ tune[u].level = file.ovr[x]
            /\ tune[u].pc # "pending" /\ tune[u].end # "refused"
         \/ tune[u].snap.ovr[x] = file.ovr[x]
    BY DEF TuneInv, RefusedLeavesNoOverride, has_override
<1>2. tune'[t] = r /\ (u # t => tune'[u] = tune[u])
    BY DEF TuneInv, TuningTypeOK
<1>3. tune[t].pc = "idle" => tune[t].level = None
    BY DEF TuneInv, TuneOK
<1> QED BY <1>1, <1>2, <1>3

\* A file put back is accounted for by the snapshot it comes from.
LEMMA PutBackAccounted ==
    ASSUME TuneInv, NEW t \in Tunes, NEW r \in Tuning,
           tune' = [tune EXCEPT ![t] = r], file' = tune[t].snap, r.snap = tune[t].snap
    PROVE  RefusedLeavesNoOverride'
<1>1. tune'[t] = r
    BY DEF TuneInv, TuningTypeOK
<1> QED BY <1>1 DEF RefusedLeavesNoOverride, has_override

\* A file written is accounted for by the tuning and its snapshot.
LEMMA WriteAccounted ==
    ASSUME TuneInv, NEW t \in Tunes, NEW r \in Tuning,
           tune' = [tune EXCEPT ![t] = r],
           file' = apply_override(tune[t].snap, tune[t].rule, tune[t].level),
           r.snap = tune[t].snap, r.rule = tune[t].rule, r.level = tune[t].level,
           r.pc # "pending", r.end # "refused"
    PROVE  RefusedLeavesNoOverride'
<1>1. tune'[t] = r /\ tune[t] \in Tuning
    BY DEF TuneInv, TuningTypeOK, Tuning
<1>2. tune[t].snap \in RulesFile /\ tune[t].level \in Levels \cup {None}
    BY <1>1 DEF Tuning
<1>3. \A x \in Rules : file'.ovr[x] = IF x = tune[t].rule THEN tune[t].level ELSE tune[t].snap.ovr[x]
    BY <1>2, OverrideApplied
<1> QED BY <1>1, <1>3 DEF RefusedLeavesNoOverride, has_override

\* What the invariant says of one tuning.
LEMMA TuneFields ==
    ASSUME TuneInv, NEW t \in Tunes
    PROVE  /\ tune[t] \in Tuning /\ untune[t] \in Untuning /\ file \in RulesFile /\ TuneOK(t)
           /\ tune[t].snap \in RulesFile /\ faults \in 0..MaxFaults
           /\ apply_override(tune[t].snap, tune[t].rule, tune[t].level) \in RulesFile
<1>1. tune[t] \in Tuning /\ untune[t] \in Untuning /\ file \in RulesFile /\ TuneOK(t)
    BY DEF TuneInv, TuningTypeOK, Tuning, Untuning
<1>2. tune[t].snap \in RulesFile /\ tune[t].level \in Levels \cup {None}
    BY <1>1 DEF Tuning
<1>3. faults \in 0..MaxFaults
    BY DEF TuneInv, TuningTypeOK
<1> QED BY <1>1, <1>2, <1>3, OverrideApplied

\* The forward steps, one by one.
LEMMA ForwardTuneKept ==
    ASSUME TuneInv, NEW t \in Tunes,
           Disturbs(file' # file, TunesRunning \ {Forward(t), Undo(t)}, TunesRunning'),
           \/ \E op \in RULE_TUNING_FORWARD_OPS, rule \in Rules, level \in Levels :
                 ProposeTuning(t, op, rule, level)
           \/ TuneSnapshot(t) \/ put_local_rules(t) \/ TuneConfirm(t) \/ TuneRestore(t) \/ TuneRestart(t)
           \/ \E valid \in BOOLEAN : TuneValidate(t, valid)
           \/ TuneRaises(t)
    PROVE  TuneInv'
<1>0. /\ tune[t] \in Tuning /\ file \in RulesFile /\ TuneOK(t) /\ tune[t].snap \in RulesFile
      /\ apply_override(tune[t].snap, tune[t].rule, tune[t].level) \in RulesFile
      /\ faults \in 0..MaxFaults
    BY TuneFields
<1>1. CASE \E op \in RULE_TUNING_FORWARD_OPS, rule \in Rules, level \in Levels :
              ProposeTuning(t, op, rule, level)
  <2>1. PICK op \in RULE_TUNING_FORWARD_OPS, rule \in Rules, level \in Levels :
           ProposeTuning(t, op, rule, level)
      BY <1>1
  <2> DEFINE lv == IF op = "disable_rule" THEN DISABLE_LEVEL ELSE level
             r == [tune[t] EXCEPT !.pc = "pending", !.rule = rule, !.level = lv]
  <2>2. /\ tune[t].pc = "idle" /\ tune' = [tune EXCEPT ![t] = r]
        /\ file' = file /\ untune' = untune /\ faults' = faults
      BY <2>1 DEF ProposeTuning
  <2>3. lv \in Levels
      BY RuleTuningAssumption
  <2>4. r \in Tuning /\ r.pc = "pending" /\ r.end = tune[t].end /\ r.state = tune[t].state
        /\ r.snap = tune[t].snap
      BY <1>0, <2>3 DEF Tuning, TunePcs
  <2> HIDE DEF r
  <2>5. RefusedLeavesNoOverride'
      BY <2>2, <2>4, OverridesStay
  <2> QED BY <1>0, <2>2, <2>4, <2>5, TuneMoves DEF TuneOK
<1>2. CASE TuneSnapshot(t)
  <2> DEFINE r == [tune[t] EXCEPT !.pc = "write", !.snap = file, !.state = "executing"]
  <2>1. /\ tune[t].pc = "pending" /\ tune' = [tune EXCEPT ![t] = r]
        /\ file' = file /\ untune' = untune /\ faults' = faults
      BY <1>2 DEF TuneSnapshot
  <2>2. r \in Tuning /\ r.pc = "write" /\ r.end = tune[t].end /\ r.state = "executing"
        /\ r.snap = file
      BY <1>0 DEF Tuning, TunePcs
  <2> HIDE DEF r
  <2>3. RefusedLeavesNoOverride'
      BY <2>1, <2>2, OverridesStay
  <2> QED BY <1>0, <2>1, <2>2, <2>3, TuneMoves DEF TuneOK
<1>3. ASSUME NEW pc \in TunePcs \ {"idle", "pending", "done"}, TuneGoes(t, pc),
             tune[t].pc \in {"write", "validate", "confirm"}, untune' = untune,
             Fault \/ faults' = faults,
             \/ file' = file
             \/ file' = apply_override(tune[t].snap, tune[t].rule, tune[t].level),
             pc = "restart" => has_override(file', tune[t].rule)
      PROVE  TuneInv'
  <2> DEFINE r == [tune[t] EXCEPT !.pc = pc]
  <2>1. tune' = [tune EXCEPT ![t] = r]
      BY <1>3 DEF TuneGoes
  <2>2. r \in Tuning /\ r.pc = pc /\ r.end = tune[t].end /\ r.state = tune[t].state
        /\ r.snap = tune[t].snap /\ r.rule = tune[t].rule /\ r.level = tune[t].level
      BY <1>0, <1>3 DEF Tuning
  <2> HIDE DEF r
  <2>3. r.end # "refused" /\ r.state \notin {"succeeded", "rolled_back"} /\ tune[t].pc # "done"
        /\ r.pc \notin {"idle", "pending", "done"}
      BY <1>0, <1>3, <2>2 DEF TuneOK
  <2>4. RefusedLeavesNoOverride'
      BY <1>3, <2>1, <2>2, <2>3, OverridesStay, WriteAccounted
  <2>5. faults' \in 0..MaxFaults /\ file' \in RulesFile
      BY <1>0, <1>3, FaultBounded
  <2> QED BY <1>3, <2>1, <2>2, <2>3, <2>4, <2>5, TuneMoves
<1>4. ASSUME NEW state \in {"succeeded", "failed"}, NEW end \in {"ok", "refused", "raised"},
             TuneEnds(t, state, end), tune[t].pc # "done", untune' = untune,
             Fault \/ faults' = faults,
             \/ file' = file /\ end # "refused"
             \/ file' = tune[t].snap
             \/ file' = apply_override(tune[t].snap, tune[t].rule, tune[t].level) /\ end # "refused"
      PROVE  TuneInv'
  <2> DEFINE r == [tune[t] EXCEPT !.pc = "done", !.state = state, !.end = end]
  <2>1. tune' = [tune EXCEPT ![t] = r]
      BY <1>4 DEF TuneEnds
  <2>2. r \in Tuning /\ r.pc = "done" /\ r.end = end
        /\ r.snap = tune[t].snap /\ r.rule = tune[t].rule /\ r.level = tune[t].level
      BY <1>0, <1>4 DEF Tuning, TunePcs
  <2> HIDE DEF r
  <2>3. RefusedLeavesNoOverride'
      BY <1>4, <2>1, <2>2, OverridesStay, WriteAccounted, PutBackAccounted
  <2>4. faults' \in 0..MaxFaults /\ file' \in RulesFile
      BY <1>0, <1>4, FaultBounded
  <2> QED BY <1>4, <2>1, <2>2, <2>3, <2>4, TuneMoves
<1>5. CASE put_local_rules(t)
  <2>1. TuneGoes(t, "validate") /\ tune[t].pc = "write" /\ untune' = untune
      BY <1>5 DEF put_local_rules
  <2>2. /\ Fault \/ faults' = faults
        /\ file' = file \/ file' = apply_override(tune[t].snap, tune[t].rule, tune[t].level)
      BY <1>5 DEF put_local_rules
  <2> QED BY <2>1, <2>2, <1>3 DEF TunePcs
<1>6. CASE TuneConfirm(t)
  <2> DEFINE pc == IF has_override(file, tune[t].rule) THEN "restart" ELSE "restore"
  <2>1. TuneGoes(t, pc) /\ tune[t].pc = "confirm" /\ untune' = untune /\ file' = file /\ faults' = faults
      BY <1>6 DEF TuneConfirm
  <2>2. pc \in TunePcs \ {"idle", "pending", "done"} /\ (pc = "restart" => has_override(file, tune[t].rule))
      BY DEF TunePcs
  <2> HIDE DEF pc
  <2> QED BY <2>1, <2>2, <1>3
<1>7. CASE \E valid \in BOOLEAN : TuneValidate(t, valid)
  <2>1. PICK valid \in BOOLEAN : TuneValidate(t, valid)
      BY <1>7
  <2> DEFINE pc == IF valid THEN "confirm" ELSE "restore"
  <2>2. TuneGoes(t, pc) /\ tune[t].pc = "validate" /\ untune' = untune /\ file' = file /\ faults' = faults
      BY <2>1 DEF TuneValidate
  <2>3. pc \in TunePcs \ {"idle", "pending", "done"} /\ pc # "restart"
      BY DEF TunePcs
  <2> HIDE DEF pc
  <2> QED BY <2>2, <2>3, <1>3
<1>8. CASE TuneRestore(t)
  <2>1. TuneEnds(t, "failed", "refused") /\ tune[t].pc = "restore" /\ untune' = untune
        /\ file' = tune[t].snap /\ faults' = faults
      BY <1>8 DEF TuneRestore
  <2> QED BY <2>1, <1>4
<1>9. CASE TuneRestart(t)
  <2>1. TuneEnds(t, "succeeded", "ok") /\ tune[t].pc = "restart" /\ untune' = untune
        /\ file' = file /\ faults' = faults
      BY <1>9 DEF TuneRestart
  <2> QED BY <2>1, <1>4
<1>10. CASE TuneRaises(t)
  <2>1. /\ TuneEnds(t, "failed", "raised") /\ tune[t].pc \notin TuneAtRest /\ untune' = untune /\ Fault
        /\ file' \in {file, tune[t].snap, apply_override(tune[t].snap, tune[t].rule, tune[t].level)}
      BY <1>10 DEF TuneRaises
  <2> QED BY <2>1, <1>4 DEF TuneAtRest
<1> QED BY <1>1, <1>2, <1>5, <1>6, <1>7, <1>8, <1>9, <1>10

\* The steps of a reversal, one by one.
LEMMA ReverseTuneKept ==
    ASSUME TuneInv, NEW t \in Tunes,
           Disturbs(file' # file, TunesRunning \ {Forward(t), Undo(t)}, TunesRunning'),
           \/ \E valid \in BOOLEAN : UntuneValidate(t, valid)
           \/ UntuneStart(t) \/ UntunePut(t) \/ UntuneConfirm(t) \/ UntuneRestart(t) \/ UntuneRaises(t)
    PROVE  TuneInv'
<1>0. /\ tune[t] \in Tuning /\ untune[t] \in Untuning /\ file \in RulesFile /\ TuneOK(t)
      /\ tune[t].snap \in RulesFile /\ faults \in 0..MaxFaults
    BY TuneFields
<1>1. tune = [tune EXCEPT ![t].state = tune[t].state]
  <2>1. [tune[t] EXCEPT !.state = tune[t].state] = tune[t]
      BY <1>0 DEF Tuning
  <2> QED BY <2>1 DEF TuneInv, TuningTypeOK
<1>2. untune[t].pc # "idle" \/ tune[t].state = "succeeded" => tune[t].pc = "done"
    BY <1>0 DEF TuneOK
<1>3. ASSUME NEW r \in Untuning, untune' = [untune EXCEPT ![t] = r], tune' = tune,
             untune[t].pc # "idle" \/ tune[t].state = "succeeded",
             Fault \/ faults' = faults, file' = file \/ file' = tune[t].snap,
             r.pc = "restart" /\ r.gone => ~has_override(file', tune[t].rule)
      PROVE  TuneInv'
  <2>1. faults' \in 0..MaxFaults /\ file' \in RulesFile
      BY <1>0, <1>3, FaultBounded
  <2> QED BY <1>1, <1>2, <1>3, <2>1, UntuneMoves
<1>4. ASSUME NEW pc \in TunePcs, pc # "restart"
      PROVE  [untune[t] EXCEPT !.pc = pc] \in Untuning /\ [untune[t] EXCEPT !.pc = pc].pc # "restart"
    BY <1>0, <1>4 DEF Untuning
<1>5. ASSUME NEW state \in {"succeeded", "failed", "expired"}
      PROVE  /\ [untune[t] EXCEPT !.pc = "done", !.state = state] \in Untuning
             /\ [untune[t] EXCEPT !.pc = "done", !.state = state].pc = "done"
    BY <1>0, <1>5 DEF Untuning, TunePcs
<1>6. CASE \E valid \in BOOLEAN : UntuneValidate(t, valid)
  <2>1. PICK valid \in BOOLEAN : UntuneValidate(t, valid)
      BY <1>6
  <2>2. untune[t].pc = "validate" /\ file' = file /\ tune' = tune /\ faults' = faults
      BY <2>1 DEF UntuneValidate
  <2>3. CASE valid
    <3>1. untune' = [untune EXCEPT ![t] = [untune[t] EXCEPT !.pc = "confirm"]]
        BY <2>1, <2>3 DEF UntuneValidate, UntuneGoes
    <3> QED BY <3>1, <2>2, <1>3, <1>4 DEF TunePcs
  <2>4. CASE ~valid
    <3>1. untune' = [untune EXCEPT ![t] = [untune[t] EXCEPT !.pc = "done", !.state = "failed"]]
        BY <2>1, <2>4 DEF UntuneValidate, UntuneEnds
    <3> QED BY <3>1, <2>2, <1>3, <1>5
  <2> QED BY <2>3, <2>4
<1>7. CASE UntuneStart(t)
  <2>1. tune[t].state = "succeeded" /\ file' = file /\ tune' = tune /\ faults' = faults
      BY <1>7 DEF UntuneStart, RecalledTune
  <2>2. CASE EmptyFile(tune[t].snap)
    <3>1. untune' = [untune EXCEPT ![t] = [untune[t] EXCEPT !.pc = "done", !.state = "expired"]]
        BY <1>7, <2>2 DEF UntuneStart, UntuneEnds
    <3> QED BY <3>1, <2>1, <1>3, <1>5
  <2>3. CASE ~EmptyFile(tune[t].snap)
    <3>1. untune' = [untune EXCEPT ![t] = [untune[t] EXCEPT !.pc = "write"]]
        BY <1>7, <2>3 DEF UntuneStart, UntuneGoes
    <3> QED BY <3>1, <2>1, <1>3, <1>4 DEF TunePcs
  <2> QED BY <2>2, <2>3
<1>8. CASE UntunePut(t)
  <2>1. /\ untune[t].pc = "write" /\ tune' = tune
        /\ untune' = [untune EXCEPT ![t] = [untune[t] EXCEPT !.pc = "validate"]]
      BY <1>8 DEF UntunePut, UntuneGoes
  <2>2. (Fault \/ faults' = faults) /\ (file' = file \/ file' = tune[t].snap)
      BY <1>8 DEF UntunePut
  <2> QED BY <2>1, <2>2, <1>3, <1>4 DEF TunePcs
<1>9. CASE UntuneConfirm(t)
  <2> DEFINE r == [untune[t] EXCEPT !.pc = "restart", !.gone = ~has_override(file, tune[t].rule)]
  <2>1. /\ untune[t].pc = "confirm" /\ tune' = tune /\ file' = file /\ faults' = faults
        /\ untune' = [untune EXCEPT ![t] = r]
      BY <1>9 DEF UntuneConfirm
  <2>2. r \in Untuning /\ (r.gone => ~has_override(file, tune[t].rule))
      BY <1>0 DEF Untuning, TunePcs
  <2> HIDE DEF r
  <2> QED BY <2>1, <2>2, <1>3
<1>10. CASE UntuneRestart(t)
  <2> DEFINE r == [untune[t] EXCEPT !.pc = "done", !.state = IF untune[t].gone THEN "succeeded" ELSE "failed"]
  <2>1. /\ untune[t].pc = "restart" /\ file' = file /\ faults' = faults
        /\ untune' = [untune EXCEPT ![t] = r]
      BY <1>10 DEF UntuneRestart, UntuneEnds
  <2>2. r \in Untuning /\ r.pc = "done"
      BY <1>5
  <2> HIDE DEF r
  <2>3. CASE untune[t].gone
    <3>1. tune' = [tune EXCEPT ![t].state = "rolled_back"]
        BY <1>10, <2>3 DEF UntuneRestart
    <3> QED BY <3>1, <2>1, <2>2, <1>0, <1>2, UntuneMoves
  <2>4. CASE ~untune[t].gone
    <3>1. tune' = tune
        BY <1>10, <2>4 DEF UntuneRestart
    <3> QED BY <3>1, <2>1, <2>2, <1>3
  <2> QED BY <2>3, <2>4
<1>11. CASE UntuneRaises(t)
  <2> DEFINE r == [untune[t] EXCEPT !.pc = "done", !.state = "failed", !.raised = TRUE]
  <2>1. /\ untune[t].pc # "idle" /\ tune' = tune /\ Fault
        /\ file' = file \/ file' = tune[t].snap
        /\ untune' = [untune EXCEPT ![t] = r]
      BY <1>11 DEF UntuneRaises, TuneAtRest
  <2>2. r \in Untuning /\ r.pc = "done"
      BY <1>0 DEF Untuning, TunePcs
  <2> HIDE DEF r
  <2> QED BY <2>1, <2>2, <1>3
<1> QED BY <1>6, <1>7, <1>8, <1>9, <1>10, <1>11

\* No tuning has begun.
LEMMA TuningInit == TInit => TuneInv /\ \A t \in Tunes : tune[t].pc = "idle" /\ untune[t].pc = "idle"
<1> SUFFICES ASSUME TInit PROVE TuneInv /\ \A t \in Tunes : tune[t].pc = "idle" /\ untune[t].pc = "idle"
    OBVIOUS
<1>1. file \in RulesFile /\ \A r \in Rules : file.ovr[r] = None
    BY DEF TInit, RulesFile
<1>2. TuningTypeOK
    BY <1>1, FaultsAssumption DEF TInit, TuningTypeOK, TunePcs
<1>3. \A t \in Tunes : TuneOK(t)
    BY DEF TInit, TuneOK
<1>4. RefusedLeavesNoOverride
    BY <1>1 DEF RefusedLeavesNoOverride, has_override
<1> QED BY <1>2, <1>3, <1>4 DEF TuneInv, TInit

\* Every step of a tuning or of its undo keeps the invariant.
LEMMA TuningKept == TuneInv /\ TNext => TuneInv'
<1> SUFFICES ASSUME TuneInv, TNext PROVE TuneInv'
    OBVIOUS
<1>1. PICK t \in Tunes :
       /\ \/ \E op \in RULE_TUNING_FORWARD_OPS, rule \in Rules, level \in Levels :
                ProposeTuning(t, op, rule, level)
          \/ TuneSnapshot(t) \/ put_local_rules(t) \/ TuneConfirm(t) \/ TuneRestore(t) \/ TuneRestart(t)
          \/ \E valid \in BOOLEAN : TuneValidate(t, valid) \/ UntuneValidate(t, valid)
          \/ TuneRaises(t)
          \/ UntuneStart(t) \/ UntunePut(t) \/ UntuneConfirm(t) \/ UntuneRestart(t) \/ UntuneRaises(t)
       /\ Disturbs(file' # file, TunesRunning \ {Forward(t), Undo(t)}, TunesRunning')
    BY DEF TNext
<1> QED BY <1>1, ForwardTuneKept, ReverseTuneKept

-----------------------------------------------------------------------------
(* Rule tuning: what the ledger records.                                   *)

\* Only the restart records a tuning as succeeded, and only the restart of the
\* undo records it as rolled back.
LEMMA TuneRecorded ==
    ASSUME TuneInv, TNext, NEW t \in Tunes
    PROVE  /\ TuneBecomes(t, "succeeded") => tune[t].pc = "restart"
           /\ TuneBecomes(t, "rolled_back") => untune[t].pc = "restart" /\ untune[t].gone
<1>1. PICK u \in Tunes :
          \/ \E op \in RULE_TUNING_FORWARD_OPS, rule \in Rules, level \in Levels :
                ProposeTuning(u, op, rule, level)
          \/ TuneSnapshot(u) \/ put_local_rules(u) \/ TuneConfirm(u) \/ TuneRestore(u) \/ TuneRestart(u)
          \/ \E valid \in BOOLEAN : TuneValidate(u, valid) \/ UntuneValidate(u, valid)
          \/ TuneRaises(u)
          \/ UntuneStart(u) \/ UntunePut(u) \/ UntuneConfirm(u) \/ UntuneRestart(u) \/ UntuneRaises(u)
    BY DEF TNext
<1>2. tune[t] \in Tuning /\ tune[u] \in Tuning /\ tune \in [Tunes -> Tuning]
    BY TuneFields DEF TuneInv, TuningTypeOK, Tuning
<1> SUFFICES ASSUME tune'[t].state # tune[t].state, tune'[t].state \in {"succeeded", "rolled_back"}
             PROVE  \/ tune'[t].state = "succeeded" /\ tune[t].pc = "restart"
                    \/ tune'[t].state = "rolled_back" /\ untune[t].pc = "restart" /\ untune[t].gone
    BY DEF TuneBecomes
<1>3. CASE \E op \in RULE_TUNING_FORWARD_OPS, rule \in Rules, level \in Levels :
              ProposeTuning(u, op, rule, level)
    BY <1>2, <1>3 DEF ProposeTuning, Tuning
<1>4. CASE TuneSnapshot(u)
    BY <1>2, <1>4 DEF TuneSnapshot, Tuning
<1>5. CASE put_local_rules(u) \/ TuneConfirm(u) \/ \E valid \in BOOLEAN : TuneValidate(u, valid)
  <2>1. \E pc : TuneGoes(u, pc)
      BY <1>5 DEF put_local_rules, TuneConfirm, TuneValidate
  <2> QED BY <1>2, <2>1 DEF TuneGoes, Tuning
<1>6. CASE TuneRestore(u) \/ TuneRaises(u)
  <2>1. \E end : TuneEnds(u, "failed", end)
      BY <1>6 DEF TuneRestore, TuneRaises
  <2> QED BY <1>2, <2>1 DEF TuneEnds, Tuning
<1>7. CASE TuneRestart(u)
    BY <1>2, <1>7 DEF TuneRestart, TuneEnds, Tuning
<1>8. CASE UntuneRestart(u)
    BY <1>2, <1>8 DEF UntuneRestart, Tuning
<1>9. CASE \/ \E valid \in BOOLEAN : UntuneValidate(u, valid)
           \/ UntuneStart(u) \/ UntunePut(u) \/ UntuneConfirm(u) \/ UntuneRaises(u)
    BY <1>9 DEF UntuneValidate, UntuneStart, UntunePut, UntuneConfirm, UntuneRaises
<1> QED BY <1>1, <1>3, <1>4, <1>5, <1>6, <1>7, <1>8, <1>9

-----------------------------------------------------------------------------
(* Agent groups.                                                           *)

GroupAction ==
    [state : {"none", "approved", "verify", "succeeded", "failed", "rolled_back"},
     op : GroupOps, g : Groups \cup {"none"}]

GroupShapes ==
    /\ act \in [Actions -> GroupAction]
    /\ unact \in [Actions -> {"none", "approved", "verify", "succeeded", "failed"}]

\* What was proposed names a group, and only what was proposed is undone.
GroupNamed(a) ==
    /\ act[a].state # "none" => act[a].g \in Groups
    /\ unact[a] # "none" => act[a].state # "none"

GroupInv == GroupShapes /\ GroupsTypeOK /\ \A a \in Actions : GroupNamed(a)

\* No assignment has been proposed.
LEMMA GroupsInit == GInit => GroupInv
BY DEF GInit, GroupInv, GroupShapes, GroupsTypeOK, GroupAction, GroupOps, GroupNamed

\* What the invariant says of one assignment.
LEMMA GroupFields ==
    ASSUME GroupInv, NEW a \in Actions
    PROVE  /\ act[a] \in GroupAction /\ act[a].op \in GroupOps
           /\ unact[a] \in {"none", "approved", "verify", "succeeded", "failed"}
           /\ act[a].state = "rolled_back" => unact[a] = "succeeded"
           /\ INVERSE_OP[act[a].op] \in GroupOps /\ GroupNamed(a)
BY DEF GroupInv, GroupShapes, GroupsTypeOK, GroupAction, INVERSE_OP, GroupOps

\* One proposal moves: the others stay.
LEMMA GroupMoves ==
    ASSUME GroupInv, NEW a \in Actions, NEW r \in GroupAction,
           NEW u \in {"none", "approved", "verify", "succeeded", "failed"},
           act' = [act EXCEPT ![a] = r], unact' = [unact EXCEPT ![a] = u],
           groups' \in SUBSET Groups, r.state = "rolled_back" => u = "succeeded",
           r.state # "none" /\ r.g \in Groups
    PROVE  GroupInv'
<1>1. GroupShapes'
    BY DEF GroupInv, GroupShapes
<1>2. ASSUME NEW b \in Actions
      PROVE  (act[b].state \in {"none", "approved", "verify", "succeeded", "failed", "rolled_back"}
              /\ unact[b] \in {"none", "approved", "verify", "succeeded", "failed"}
              /\ (act[b].state = "rolled_back" => unact[b] = "succeeded")
              /\ GroupNamed(b))'
  <2>1. CASE b = a
      BY <2>1 DEF GroupInv, GroupShapes, GroupAction, GroupNamed
  <2>2. CASE b # a
      BY <2>2, <1>2 DEF GroupInv, GroupShapes, GroupsTypeOK, GroupNamed
  <2> QED BY <2>1, <2>2
<1> QED BY <1>1, <1>2 DEF GroupInv, GroupsTypeOK

\* The progress of a proposal is its state alone.
LEMMA GroupGoes ==
    ASSUME GroupInv, NEW a \in Actions,
           NEW st \in {"approved", "verify", "succeeded", "failed", "rolled_back"}
    PROVE  LET r == [act[a] EXCEPT !.state = st]
           IN  r \in GroupAction /\ r.state = st /\ r.g = act[a].g /\ r.op = act[a].op
BY GroupFields DEF GroupAction

\* Every step of an assignment or of its undo keeps the invariant.
LEMMA GroupsKept == GroupInv /\ GNext => GroupInv'
<1> SUFFICES ASSUME GroupInv, GNext PROVE GroupInv'
    OBVIOUS
<1>0. groups \in SUBSET Groups /\ act \in [Actions -> GroupAction]
      /\ unact \in [Actions -> {"none", "approved", "verify", "succeeded", "failed"}]
    BY DEF GroupInv, GroupShapes, GroupsTypeOK
<1>1. ASSUME NEW a \in Actions, NEW op \in GroupOps, NEW g \in Groups, ProposeGroup(a, op, g)
      PROVE  GroupInv'
  <2>1. [state |-> "approved", op |-> op, g |-> g] \in GroupAction
      BY <1>1 DEF GroupAction
  <2>2. act' = [act EXCEPT ![a] = [state |-> "approved", op |-> op, g |-> g]] /\ groups' = groups
        /\ unact' = [unact EXCEPT ![a] = unact[a]]
      BY <1>0, <1>1 DEF ProposeGroup
  <2> QED BY <1>0, <1>1, <2>1, <2>2, GroupMoves
<1>2. ASSUME NEW a \in Actions, NEW op \in GroupOps, NEW g \in Groups, ProposeInverse(a, op, g)
      PROVE  GroupInv'
  <2>1. act' = [act EXCEPT ![a] = act[a]] /\ groups' = groups /\ act[a].state = "succeeded"
        /\ unact' = [unact EXCEPT ![a] = "approved"]
      BY <1>0, <1>2 DEF ProposeInverse, Inverts
  <2>2. act[a] \in GroupAction /\ act[a].g \in Groups
      BY <1>2, <2>1, GroupFields DEF GroupNamed
  <2> QED BY <1>0, <1>2, <2>1, <2>2, GroupMoves
<1>3. ASSUME NEW op, NEW g \in Groups, NEW next, GroupWrite(op, g, next)
      PROVE  groups' \in SUBSET Groups
    BY <1>0, <1>3 DEF GroupWrite, Applied
<1>4. ASSUME NEW a \in Actions, NEW next \in {"verify", "failed"}, GroupPerform(a, next)
      PROVE  GroupInv'
  <2>1. /\ act[a].state = "approved" /\ GroupWrite(act[a].op, act[a].g, next)
        /\ act' = [act EXCEPT ![a] = [act[a] EXCEPT !.state = next]]
        /\ unact' = [unact EXCEPT ![a] = unact[a]]
      BY <1>0, <1>4 DEF GroupPerform
  <2>2. act[a].g \in Groups
      BY <1>4, <2>1, GroupFields DEF GroupNamed
  <2>3. groups' \in SUBSET Groups
      BY <2>1, <2>2, <1>3
  <2>4. LET r == [act[a] EXCEPT !.state = next]
        IN  r \in GroupAction /\ r.state = next /\ r.g = act[a].g /\ r.op = act[a].op
      BY <1>4, GroupGoes, ZenonT(60)
  <2> QED BY <1>0, <1>4, <2>1, <2>2, <2>3, <2>4, GroupMoves
<1>5. ASSUME NEW a \in Actions, NEW next \in {"verify", "failed"}, GroupPerformReverse(a, next)
      PROVE  GroupInv'
  <2>1. /\ unact[a] = "approved" /\ GroupWrite(INVERSE_OP[act[a].op], act[a].g, next)
        /\ act' = [act EXCEPT ![a] = act[a]]
        /\ unact' = [unact EXCEPT ![a] = next]
      BY <1>0, <1>5 DEF GroupPerformReverse
  <2>2. act[a].g \in Groups /\ act[a] \in GroupAction /\ act[a].state \notin {"none", "rolled_back"}
      BY <1>5, <2>1, GroupFields DEF GroupNamed
  <2>3. groups' \in SUBSET Groups
      BY <2>1, <2>2, <1>3
  <2> QED BY <1>0, <1>5, <2>1, <2>2, <2>3, GroupMoves
<1>6. ASSUME NEW a \in Actions, NEW seen \in SUBSET Groups, GroupVerify(a, seen)
      PROVE  GroupInv'
  <2> DEFINE st == IF Verified(act[a].op, act[a].g, seen) THEN "succeeded" ELSE "failed"
  <2>1. /\ act[a].state = "verify" /\ groups' = groups
        /\ act' = [act EXCEPT ![a] = [act[a] EXCEPT !.state = st]]
        /\ unact' = [unact EXCEPT ![a] = unact[a]]
      BY <1>0, <1>6 DEF GroupVerify
  <2>2. act[a].g \in Groups /\ st \in {"succeeded", "failed"}
      BY <1>6, <2>1, GroupFields DEF GroupNamed
  <2> HIDE DEF st
  <2>4. LET r == [act[a] EXCEPT !.state = st]
        IN  r \in GroupAction /\ r.state = st /\ r.g = act[a].g /\ r.op = act[a].op
      BY <1>6, <2>2, GroupGoes, ZenonT(60)
  <2> QED BY <1>0, <1>6, <2>1, <2>2, <2>4, GroupMoves
<1>7. ASSUME NEW a \in Actions, NEW seen \in SUBSET Groups, GroupVerifyReverse(a, seen)
      PROVE  GroupInv'
  <2> DEFINE ok == Verified(INVERSE_OP[act[a].op], act[a].g, seen)
  <2>1. /\ unact[a] = "verify" /\ groups' = groups
        /\ act' = IF ok THEN [act EXCEPT ![a].state = "rolled_back"] ELSE act
        /\ unact' = [unact EXCEPT ![a] = IF ok THEN "succeeded" ELSE "failed"]
      BY <1>7 DEF GroupVerifyReverse
  <2> HIDE DEF ok
  <2>2. act[a].g \in Groups /\ act[a] \in GroupAction /\ act[a].state \notin {"none", "rolled_back"}
      BY <1>7, <2>1, GroupFields DEF GroupNamed
  <2>3. CASE ok
    <3>1. LET r == [act[a] EXCEPT !.state = "rolled_back"]
          IN  r \in GroupAction /\ r.state = "rolled_back" /\ r.g = act[a].g /\ r.op = act[a].op
        BY <1>7, GroupGoes
    <3>2. act' = [act EXCEPT ![a] = [act[a] EXCEPT !.state = "rolled_back"]]
          /\ unact' = [unact EXCEPT ![a] = "succeeded"]
        BY <2>1, <2>3
    <3> QED BY <1>0, <1>7, <2>1, <2>2, <3>1, <3>2, GroupMoves
  <2>4. CASE ~ok
    <3>1. act' = [act EXCEPT ![a] = act[a]] /\ unact' = [unact EXCEPT ![a] = "failed"]
        BY <1>0, <2>1, <2>4
    <3> QED BY <1>0, <1>7, <2>1, <2>2, <3>1, GroupMoves
  <2> QED BY <2>3, <2>4
<1>8. ASSUME NEW g \in Groups, OperatorMoves(g) PROVE GroupInv'
    BY <1>0, <1>8 DEF OperatorMoves, GroupInv, GroupShapes, GroupsTypeOK, GroupNamed
<1> QED BY <1>1, <1>2, <1>4, <1>5, <1>6, <1>7, <1>8 DEF GNext

\* A group recorded as assigned was in what the verification read; a read that
\* failed shows no group, and records nothing.
LEMMA GroupRecorded ==
    ASSUME GroupInv, GNext, NEW a \in Actions
    PROVE  /\ ActBecomes(a, "succeeded") /\ act[a].op = "assign_group" => act[a].g \in groups
           /\ ActBecomes(a, "rolled_back") /\ act[a].op = "remove_group" => act[a].g \in groups
<1>0. act \in [Actions -> GroupAction] /\ act[a] \in GroupAction /\ act[a].op \in GroupOps
    BY GroupFields DEF GroupInv, GroupShapes
<1>1. ASSUME NEW b \in Actions, NEW op \in GroupOps, NEW g \in Groups,
             ProposeGroup(b, op, g) \/ ProposeInverse(b, op, g)
      PROVE  act'[a].state \in {act[a].state, "approved"}
    BY <1>0, <1>1 DEF ProposeGroup, ProposeInverse, GroupAction
<1>2. ASSUME NEW b \in Actions, NEW next \in {"verify", "failed"},
             GroupPerform(b, next) \/ GroupPerformReverse(b, next)
      PROVE  act'[a].state \in {act[a].state, "verify", "failed"}
    BY <1>0, <1>2 DEF GroupPerform, GroupPerformReverse, GroupAction
<1>3. ASSUME NEW b \in Actions, NEW seen \in SUBSET Groups, GroupVerify(b, seen),
             act'[a].state # act[a].state
      PROVE  /\ act'[a].state \in {"succeeded", "failed"} /\ (seen = groups \/ seen = {})
             /\ act'[a].state = "succeeded" => Verified(act[a].op, act[a].g, seen)
  <2> DEFINE st == IF Verified(act[b].op, act[b].g, seen) THEN "succeeded" ELSE "failed"
  <2>1. act' = [act EXCEPT ![b].state = st] /\ (seen = groups \/ seen = {})
      BY <1>3 DEF GroupVerify, resolve_agent_groups
  <2>2. a = b /\ act'[a].state = st
      BY <1>0, <1>3, <2>1 DEF GroupAction
  <2> QED BY <2>1, <2>2
<1>4. ASSUME NEW b \in Actions, NEW seen \in SUBSET Groups, GroupVerifyReverse(b, seen),
             act'[a].state # act[a].state
      PROVE  /\ act'[a].state = "rolled_back" /\ (seen = groups \/ seen = {})
             /\ Verified(INVERSE_OP[act[a].op], act[a].g, seen)
  <2> DEFINE ok == Verified(INVERSE_OP[act[b].op], act[b].g, seen)
  <2>1. (act' = IF ok THEN [act EXCEPT ![b].state = "rolled_back"] ELSE act)
        /\ (seen = groups \/ seen = {})
      BY <1>4 DEF GroupVerifyReverse, resolve_agent_groups
  <2> HIDE DEF ok
  <2>2. a = b /\ act'[a].state = "rolled_back" /\ ok
      BY <1>0, <1>4, <2>1 DEF GroupAction
  <2> QED BY <2>1, <2>2 DEF ok
<1>5. ASSUME NEW g \in Groups, OperatorMoves(g) PROVE act'[a].state = act[a].state
    BY <1>5 DEF OperatorMoves
<1>6. INVERSE_OP["remove_group"] = "assign_group"
    BY DEF INVERSE_OP, GroupOps
<1>7. \A seen : (seen = groups \/ seen = {}) /\ Verified("assign_group", act[a].g, seen) => act[a].g \in groups
    BY DEF Verified
<1>8. \/ act'[a].state \in {act[a].state, "approved", "verify", "failed"}
      \/ \E seen : (seen = groups \/ seen = {}) /\ act'[a].state = "succeeded" /\ Verified(act[a].op, act[a].g, seen)
      \/ \E seen : (seen = groups \/ seen = {}) /\ act'[a].state = "rolled_back" /\ Verified(INVERSE_OP[act[a].op], act[a].g, seen)
    BY <1>1, <1>2, <1>3, <1>4, <1>5 DEF GNext
<1> QED BY <1>6, <1>7, <1>8 DEF ActBecomes

-----------------------------------------------------------------------------
(* Configuration changes: the inductive invariant.                         *)

ChangePcs == {"none", "pending", "snapshot", "write", "validate", "prove", "restart", "restore", "done"}

Snapshots == {<<>>} \cup UNION {[D -> ConfFile] : D \in SUBSET Nodes}

Targets == {<<>>} \cup UNION {[D -> Contents \cup {Absent, Many}] : D \in SUBSET Nodes}

Change ==
    [pc : ChangePcs, op : ConfigOps, s : Sections \cup {Absent}, new : Contents \cup {Absent},
     scope : SUBSET Nodes, frozen : Targets, snap : Snapshots,
     left : SUBSET Nodes, written : SUBSET Nodes,
     state : {"approved", "expired", "succeeded", "failed", "rolled_back"},
     end : {"none", "ok", "stale", "refused", "raised"}]

Unchange ==
    [pc : {"idle", "put", "compare", "validate", "restart", "done"}, left : SUBSET Nodes,
     at : Nodes \cup {Absent}, ok : BOOLEAN, valid : BOOLEAN,
     state : {"approved", "succeeded", "failed"}]

\* How far a change is: which nodes of a deployment M it has written, and that
\* it has a snapshot to put back.
ChangeShape(r, M) ==
    /\ r.scope \subseteq M /\ r.written \subseteq r.scope /\ r.left \subseteq r.scope
    /\ r.pc = "none" => r.left = {}
    /\ r.pc \in {"none", "pending", "snapshot", "done"} => r.written = {}
    /\ r.pc \in {"write", "validate", "prove", "restart", "restore"} => r.snap \in [M -> ConfFile]
    /\ r.pc = "write" => r.scope = r.written \cup r.left
    /\ r.pc \in {"validate", "prove", "restart"} => r.written = r.scope
    /\ r.pc = "validate" => r.left = r.scope
    /\ r.pc = "restore" => r.left \subseteq r.written
    /\ r.pc # "done" => r.state = "approved"
    /\ r.state \in {"succeeded", "rolled_back"} => r.snap \in [M -> ConfFile]

\* What a change knows of the files while nobody else writes them: its targets
\* are the frozen ones, then its snapshots are; the nodes it has proved hold the
\* change, the nodes it has put back their contents.
ChangeCalm(r, files) ==
    /\ r.pc = "snapshot" => \A n \in r.scope : files[n].sec[r.s] = r.frozen[n]
    /\ r.pc \in {"write", "validate", "prove", "restart", "restore"} =>
          \A n \in r.scope : r.snap[n].sec[r.s] = r.frozen[n]
    /\ r.pc = "prove" => \A n \in r.scope \ r.left : files[n].sec[r.s] = r.new
    /\ r.pc = "restart" => \A n \in r.scope : files[n].sec[r.s] = r.new
    /\ r.pc = "restore" => \A n \in r.written \ r.left : files[n].sec = r.snap[n].sec

\* A reversal begins when its change is recorded; the file of an all-in-one
\* manager is the one it has put.
UndoShape(r, u, distributed) ==
    /\ u.left \subseteq r.scope /\ (u.pc = "idle" => u.left = {})
    /\ u.pc # "idle" => r.pc = "done" /\ r.state \in {"succeeded", "rolled_back"}
    /\ ~distributed /\ u.pc \in {"compare", "validate"} => r.scope \subseteq {u.at}

\* While nobody else writes, the files a reversal compared are the snapshots.
UndoCalm(r, u, files, distributed) ==
    u.ok =>
        /\ u.pc = "put" => \A n \in r.scope \ u.left : files[n] = r.snap[n]
        /\ u.pc = "compare" => \A n \in r.scope \ (u.left \cup {u.at}) : files[n] = r.snap[n]
        /\ u.pc = "restart" \/ (u.pc = "validate" /\ distributed) =>
              \A n \in r.scope : files[n] = r.snap[n]

ConfShapes ==
    /\ conf \in [Members -> ConfFile] /\ Members \subseteq Nodes
    /\ cluster \in BOOLEAN /\ (~cluster => \A m, n \in Members : m = n)
    /\ chg \in [Changes -> Change] /\ unchg \in [Changes -> Unchange]

ChangeOK(c) ==
    /\ ChangeShape(chg[c], Members) /\ UndoShape(chg[c], unchg[c], cluster)
    /\ Forward(c) \notin disturbed => ChangeCalm(chg[c], conf)
    /\ Undo(c) \notin disturbed => UndoCalm(chg[c], unchg[c], conf, cluster)

ConfInv == ConfShapes /\ \A c \in Changes : ChangeOK(c)

-----------------------------------------------------------------------------
(* Configuration changes: what a step leaves.                              *)

\* Which executions run.
LEMMA ChangesThatRun ==
    ASSUME NEW c \in Changes
    PROVE  /\ Forward(c) \in Running <=> chg[c].pc \notin ChangeAtRest
           /\ Undo(c) \in Running <=> unchg[c].pc \notin {"idle", "done"}
BY DEF Running, Forward, Undo

\* The same after a step.
LEMMA ChangesThatRunNext ==
    ASSUME NEW c \in Changes
    PROVE  /\ Forward(c) \in Running' <=> chg'[c].pc \notin ChangeAtRest
           /\ Undo(c) \in Running' <=> unchg'[c].pc \notin {"idle", "done"}
BY DEF Running, Forward, Undo

\* A change whose record stays keeps its part of the invariant whoever writes.
LEMMA ChangeStays ==
    ASSUME ConfInv, NEW c \in Changes, NEW R, Forward(c) \in Running => Forward(c) \in R,
           Undo(c) \in Running => Undo(c) \in R, Disturbs(conf' # conf, R, Running'),
           chg'[c] = chg[c], unchg'[c] = unchg[c], cluster' = cluster, Members' = Members
    PROVE  ChangeOK(c)'
<1>1. ChangeOK(c)
    BY DEF ConfInv
<1>2. ChangeShape(chg[c], Members)' /\ UndoShape(chg[c], unchg[c], cluster)'
    BY <1>1 DEF ChangeOK, ChangeShape, UndoShape
<1>3. ASSUME Forward(c) \notin disturbed' PROVE ChangeCalm(chg[c], conf)'
  <2>1. CASE chg[c].pc \in ChangeAtRest
      BY <2>1 DEF ChangeCalm, ChangeAtRest
  <2>2. CASE chg[c].pc \notin ChangeAtRest
    <3>1. conf' = conf /\ Forward(c) \notin disturbed
        BY <1>3, <2>2, ChangesThatRun, ChangesThatRunNext DEF Disturbs
    <3> QED BY <1>1, <3>1 DEF ChangeOK, ChangeCalm
  <2> QED BY <2>1, <2>2
<1>4. ASSUME Undo(c) \notin disturbed' PROVE UndoCalm(chg[c], unchg[c], conf, cluster)'
  <2>1. CASE unchg[c].pc \in {"idle", "done"}
      BY <2>1 DEF UndoCalm
  <2>2. CASE unchg[c].pc \notin {"idle", "done"}
    <3>1. conf' = conf /\ Undo(c) \notin disturbed
        BY <1>4, <2>2, ChangesThatRun, ChangesThatRunNext DEF Disturbs
    <3> QED BY <1>1, <3>1 DEF ChangeOK, UndoCalm
  <2> QED BY <2>1, <2>2
<1> QED BY <1>2, <1>3, <1>4 DEF ChangeOK

\* A change that another one crosses keeps its part, or is disturbed.
LEMMA OthersStay ==
    ASSUME ConfInv, NEW c \in Changes, NEW d \in Changes, d # c,
           Disturbs(conf' # conf, Running \ {Forward(c), Undo(c)}, Running'),
           chg'[d] = chg[d], unchg'[d] = unchg[d], cluster' = cluster, Members' = Members
    PROVE  ChangeOK(d)'
<1>1. Forward(d) \notin {Forward(c), Undo(c)} /\ Undo(d) \notin {Forward(c), Undo(c)}
    BY DEF Forward, Undo
<1> QED BY <1>1, ChangeStays

\* Nobody disturbed an execution that runs on undisturbed.
LEMMA CalmBefore ==
    ASSUME NEW c \in Changes, NEW R, NEW b, Disturbs(b, R, Running')
    PROVE  /\ chg'[c].pc \notin ChangeAtRest /\ Forward(c) \notin disturbed' => Forward(c) \notin disturbed
           /\ unchg'[c].pc \notin {"idle", "done"} /\ Undo(c) \notin disturbed' => Undo(c) \notin disturbed
BY ChangesThatRunNext DEF Disturbs

\* One step of a forward execution.
LEMMA ChangeMoves ==
    ASSUME ConfInv, NEW c \in Changes, NEW r \in Change,
           chg[c].pc # "done", chg' = [chg EXCEPT ![c] = r], unchg' = unchg, cluster' = cluster,
           conf' \in [Members -> ConfFile],
           Disturbs(conf' # conf, Running \ {Forward(c), Undo(c)}, Running'),
           ChangeShape(r, Members),
           Forward(c) \notin disturbed \/ chg[c].pc = "pending" => ChangeCalm(r, conf')
    PROVE  ConfInv'
<1>0. Members' = Members
    BY DEF Members
<1>1. ConfShapes'
  <2>1. chg' \in [Changes -> Change]
      BY DEF ConfInv, ConfShapes
  <2> QED BY <1>0, <2>1 DEF ConfInv, ConfShapes
<1>2. chg'[c] = r /\ \A d \in Changes : d # c => chg'[d] = chg[d]
    BY DEF ConfInv, ConfShapes
<1>3. ASSUME NEW d \in Changes PROVE ChangeOK(d)'
  <2>1. CASE d # c
      BY <1>0, <1>2, <1>3, <2>1, OthersStay
  <2>2. CASE d = c
    <3>1. unchg[c].pc = "idle" /\ unchg[c].left = {}
        BY DEF ConfInv, ChangeOK, UndoShape
    <3>2. ChangeShape(chg[c], Members)'
        BY <1>0, <1>2 DEF ChangeShape
    <3>3. UndoShape(chg[c], unchg[c], cluster)'
        BY <1>2, <3>1 DEF UndoShape
    <3>4. Forward(c) \notin disturbed' => ChangeCalm(chg[c], conf)'
      <4>1. CASE r.pc \in ChangeAtRest
          BY <1>2, <4>1 DEF ChangeCalm, ChangeAtRest
      <4>2. CASE r.pc \notin ChangeAtRest
          BY <1>2, <4>2, CalmBefore DEF ChangeCalm
      <4> QED BY <4>1, <4>2
    <3>5. UndoCalm(chg[c], unchg[c], conf, cluster)'
        BY <1>2, <3>1 DEF UndoCalm
    <3> QED BY <2>2, <3>2, <3>3, <3>4, <3>5 DEF ChangeOK
  <2> QED BY <2>1, <2>2
<1> QED BY <1>1, <1>3 DEF ConfInv

\* One step of a reversal; only its record may change on the original.
LEMMA UnchangeMoves ==
    ASSUME ConfInv, NEW c \in Changes, NEW u \in Unchange, NEW s \in {chg[c].state, "rolled_back"},
           chg[c].pc = "done", chg[c].state \in {"succeeded", "rolled_back"},
           unchg' = [unchg EXCEPT ![c] = u], chg' = [chg EXCEPT ![c].state = s], cluster' = cluster,
           conf' \in [Members -> ConfFile],
           Disturbs(conf' # conf, Running \ {Forward(c), Undo(c)}, Running'),
           UndoShape(chg[c], u, cluster),
           Undo(c) \notin disturbed \/ unchg[c].pc = "idle" => UndoCalm(chg[c], u, conf', cluster)
    PROVE  ConfInv'
<1>0. Members' = Members
    BY DEF Members
<1>1. chg[c] \in Change /\ ChangeShape(chg[c], Members)
    BY DEF ConfInv, ConfShapes, ChangeOK
<1>2. /\ \A d \in Changes : d # c => chg'[d] = chg[d] /\ unchg'[d] = unchg[d]
      /\ chg'[c] = [chg[c] EXCEPT !.state = s] /\ unchg'[c] = u
    BY DEF ConfInv, ConfShapes
<1>3. /\ chg'[c] \in Change /\ chg'[c].pc = "done" /\ chg'[c].state = s /\ chg'[c].scope = chg[c].scope
      /\ chg'[c].written = chg[c].written /\ chg'[c].left = chg[c].left /\ chg'[c].snap = chg[c].snap
    BY <1>1, <1>2 DEF Change
<1>4. ConfShapes'
  <2>1. chg' \in [Changes -> Change]
      BY <1>2, <1>3 DEF ConfInv, ConfShapes
  <2>2. unchg' \in [Changes -> Unchange]
      BY DEF ConfInv, ConfShapes
  <2> QED BY <1>0, <2>1, <2>2 DEF ConfInv, ConfShapes
<1>5. ASSUME NEW d \in Changes PROVE ChangeOK(d)'
  <2>1. CASE d # c
      BY <1>0, <1>2, <1>5, <2>1, OthersStay
  <2>2. CASE d = c
    <3>1. ChangeShape(chg[c], Members)'
        BY <1>0, <1>1, <1>3 DEF ChangeShape
    <3>2. UndoShape(chg[c], unchg[c], cluster)'
        BY <1>2, <1>3 DEF UndoShape
    <3>3. ChangeCalm(chg[c], conf)'
        BY <1>3 DEF ChangeCalm
    <3>4. Undo(c) \notin disturbed' => UndoCalm(chg[c], unchg[c], conf, cluster)'
      <4>1. CASE u.pc \in {"idle", "done"}
          BY <1>2, <4>1 DEF UndoCalm
      <4>2. CASE u.pc \notin {"idle", "done"}
          BY <1>2, <1>3, <4>2, CalmBefore DEF UndoCalm
      <4> QED BY <4>1, <4>2
    <3> QED BY <2>2, <3>1, <3>2, <3>3, <3>4 DEF ChangeOK
  <2> QED BY <2>1, <2>2
<1> QED BY <1>4, <1>5 DEF ConfInv

\* Every file a PUT leaves has the shape of one, and the contents it was sent.
LEMMA FilesServed ==
    ASSUME NEW f \in ConfFile
    PROVE  /\ Served(f) \in ConfFile /\ Served(f).sec = f.sec
           /\ \A s, new : new \in Contents \cup {Absent} => Served(build_candidate(f, s, new)) \in ConfFile
BY DEF Served, build_candidate, ConfFile

\* What the invariant says of one change.
LEMMA ChangeFields ==
    ASSUME ConfInv, NEW c \in Changes
    PROVE  /\ chg[c] \in Change /\ unchg[c] \in Unchange /\ ChangeOK(c)
           /\ ChangeShape(chg[c], Members) /\ UndoShape(chg[c], unchg[c], cluster)
           /\ conf \in [Members -> ConfFile] /\ Members \subseteq Nodes
           /\ chg[c].new \in Contents \cup {Absent}
<1>1. chg[c] \in Change
    BY DEF ConfInv, ConfShapes
<1>2. chg[c].new \in Contents \cup {Absent}
    BY <1>1 DEF Change
<1> QED BY <1>1, <1>2 DEF ConfInv, ConfShapes, ChangeOK

\* A file written or put back on one node.
LEMMA NodeWritten ==
    ASSUME ConfInv, NEW c \in Changes, NEW n \in Members, chg[c].snap \in [Members -> ConfFile]
    PROVE  /\ [conf EXCEPT ![n] = Served(chg[c].snap[n])] \in [Members -> ConfFile]
           /\ [conf EXCEPT ![n] = Served(build_candidate(chg[c].snap[n], chg[c].s, chg[c].new))]
                 \in [Members -> ConfFile]
           /\ [conf EXCEPT ![n] = Served(chg[c].snap[n])][n].sec = chg[c].snap[n].sec
<1>1. chg[c].snap[n] \in ConfFile /\ conf \in [Members -> ConfFile] /\ chg[c].new \in Contents \cup {Absent}
    BY ChangeFields
<1>2. Served(chg[c].snap[n]) \in ConfFile /\ Served(chg[c].snap[n]).sec = chg[c].snap[n].sec
      /\ Served(build_candidate(chg[c].snap[n], chg[c].s, chg[c].new)) \in ConfFile
    BY <1>1, FilesServed
<1> QED BY <1>1, <1>2

\* An execution that ends has nothing left to write.
LEMMA ChangeOver ==
    ASSUME ConfInv, NEW c \in Changes, chg[c].pc # "done",
           NEW state \in {"expired", "succeeded", "failed"},
           NEW end \in {"none", "ok", "stale", "refused", "raised"},
           ChangeEnds(c, state, end), unchg' = unchg, cluster' = cluster,
           conf' \in [Members -> ConfFile],
           Disturbs(conf' # conf, Running \ {Forward(c), Undo(c)}, Running'),
           state = "succeeded" => chg[c].snap \in [Members -> ConfFile]
    PROVE  ConfInv'
<1> DEFINE r == [chg[c] EXCEPT !.pc = "done", !.left = {}, !.written = {}, !.state = state, !.end = end]
<1>1. chg' = [chg EXCEPT ![c] = r]
    BY DEF ChangeEnds
<1>2. chg[c] \in Change /\ ChangeShape(chg[c], Members) /\ UndoShape(chg[c], unchg[c], cluster)
    BY ChangeFields
<1>3. /\ r \in Change /\ r.pc = "done" /\ r.left = {} /\ r.written = {} /\ r.state = state
      /\ r.scope = chg[c].scope /\ r.snap = chg[c].snap
    BY <1>2, ZenonT(60) DEF Change, ChangePcs
<1> HIDE DEF r
<1>4. ChangeShape(r, Members)
    BY <1>2, <1>3 DEF ChangeShape
<1>5. ChangeCalm(r, conf')
    BY <1>3 DEF ChangeCalm
<1> QED BY <1>1, <1>3, <1>4, <1>5, ChangeMoves

\* The written nodes are to be put back.
LEMMA ChangePutBack ==
    ASSUME ConfInv, NEW c \in Changes, chg[c].pc \in {"write", "validate", "prove", "restore"},
           NEW end \in {"refused", "raised"}, PutBack(c, end), unchg' = unchg, cluster' = cluster,
           conf' \in [Members -> ConfFile],
           Disturbs(conf' # conf, Running \ {Forward(c), Undo(c)}, Running')
    PROVE  ConfInv'
<1> DEFINE r == [chg[c] EXCEPT !.pc = "restore", !.left = chg[c].written, !.end = end]
<1>1. chg' = [chg EXCEPT ![c] = r]
    BY DEF PutBack
<1>2. chg[c] \in Change /\ ChangeShape(chg[c], Members) /\ UndoShape(chg[c], unchg[c], cluster) /\ ChangeOK(c)
    BY ChangeFields
<1>3. /\ r \in Change /\ r.pc = "restore" /\ r.left = chg[c].written /\ r.written = chg[c].written
      /\ r.state = chg[c].state /\ r.scope = chg[c].scope /\ r.snap = chg[c].snap
      /\ r.s = chg[c].s /\ r.frozen = chg[c].frozen
    BY <1>2 DEF Change, ChangePcs
<1> HIDE DEF r
<1>4. ChangeShape(r, Members)
    BY <1>2, <1>3 DEF ChangeShape
<1>5. ChangeCalm(chg[c], conf) => ChangeCalm(r, conf')
    BY <1>3 DEF ChangeCalm
<1> QED BY <1>1, <1>2, <1>3, <1>4, <1>5, ChangeMoves DEF ChangeOK

\* A change is proposed with what its dry run captured.
LEMMA ProposeKept ==
    ASSUME ConfInv, NEW c \in Changes, cluster' = cluster,
           Disturbs(conf' # conf, Running \ {Forward(c), Undo(c)}, Running'),
           NEW op \in ConfigOps, NEW s \in Sections, NEW new \in Contents \cup {Absent},
           ProposeChange(c, op, s, new)
    PROVE  ConfInv'
<1> DEFINE scope == in_scope(op, s)
           frozen == [n \in Members |-> conf[n].sec[s]]
           r == [chg[c] EXCEPT !.pc = "pending", !.op = op, !.s = s, !.new = new,
                               !.scope = scope, !.frozen = frozen]
<1>1. chg[c].pc = "none" /\ chg' = [chg EXCEPT ![c] = r] /\ conf' = conf /\ unchg' = unchg
    BY DEF ProposeChange
<1>2. /\ chg[c] \in Change /\ ChangeShape(chg[c], Members) /\ UndoShape(chg[c], unchg[c], cluster)
      /\ conf \in [Members -> ConfFile] /\ Members \subseteq Nodes
    BY ChangeFields
<1>3. scope \subseteq Members
    BY DEF in_scope
<1>4. frozen \in Targets
  <2>1. frozen \in [Members -> Contents \cup {Absent, Many}]
      BY <1>2 DEF ConfFile
  <2> QED BY <1>2, <2>1 DEF Targets
<1> HIDE DEF scope, frozen
<1>5. /\ r \in Change /\ r.pc = "pending" /\ r.left = chg[c].left /\ r.written = chg[c].written
      /\ r.state = chg[c].state /\ r.scope = scope
    BY <1>2, <1>3, <1>4 DEF Change, ChangePcs
<1> HIDE DEF r
<1>6. chg[c].left = {}
    BY <1>1, <1>2 DEF ChangeShape
<1>7. ChangeShape(r, Members)
    BY <1>1, <1>2, <1>3, <1>5, <1>6 DEF ChangeShape
<1>8. ChangeCalm(r, conf')
    BY <1>5 DEF ChangeCalm
<1> QED BY <1>1, <1>2, <1>5, <1>6, <1>7, <1>8, ChangeMoves

\* The freshness check.
LEMMA FreshnessKept ==
    ASSUME ConfInv, NEW c \in Changes, cluster' = cluster,
           Disturbs(conf' # conf, Running \ {Forward(c), Undo(c)}, Running'), ChangeFreshness(c)
    PROVE  ConfInv'
<1>1. chg[c].pc = "pending" /\ conf' = conf /\ unchg' = unchg
    BY DEF ChangeFreshness
<1>2. chg[c] \in Change /\ ChangeShape(chg[c], Members) /\ conf \in [Members -> ConfFile]
    BY ChangeFields
<1>3. CASE ChangeEnds(c, "expired", "stale")
    BY <1>1, <1>2, <1>3, ChangeOver
<1>4. CASE target_fresh(c) /\ chg' = [chg EXCEPT ![c].pc = "snapshot"]
  <2> DEFINE r == [chg[c] EXCEPT !.pc = "snapshot"]
  <2>1. chg' = [chg EXCEPT ![c] = r]
      BY <1>4
  <2>2. /\ r \in Change /\ r.pc = "snapshot" /\ r.left = chg[c].left /\ r.written = chg[c].written
        /\ r.state = chg[c].state /\ r.scope = chg[c].scope /\ r.s = chg[c].s /\ r.frozen = chg[c].frozen
      BY <1>2 DEF Change, ChangePcs
  <2> HIDE DEF r
  <2>3. ChangeShape(r, Members)
      BY <1>1, <1>2, <2>2 DEF ChangeShape
  <2>4. ChangeCalm(r, conf')
      BY <1>1, <1>4, <2>2 DEF ChangeCalm, target_fresh
  <2> QED BY <1>1, <1>2, <2>1, <2>2, <2>3, <2>4, ChangeMoves
<1> QED BY <1>3, <1>4 DEF ChangeFreshness

\* The snapshot of a node's file.
LEMMA SnapshotKept ==
    ASSUME ConfInv, NEW c \in Changes, cluster' = cluster,
           Disturbs(conf' # conf, Running \ {Forward(c), Undo(c)}, Running'), ChangeSnapshot(c)
    PROVE  ConfInv'
<1>1. chg[c].pc = "snapshot" /\ conf' = conf /\ unchg' = unchg
    BY DEF ChangeSnapshot
<1>2. /\ chg[c] \in Change /\ ChangeShape(chg[c], Members) /\ conf \in [Members -> ConfFile]
      /\ Members \subseteq Nodes /\ ChangeOK(c)
    BY ChangeFields
<1>3. CASE ChangeEnds(c, "failed", "refused")
    BY <1>1, <1>2, <1>3, ChangeOver
<1>4. CASE chg' = [chg EXCEPT ![c].pc = "write", ![c].snap = conf, ![c].left = chg[c].scope]
  <2> DEFINE r == [chg[c] EXCEPT !.pc = "write", !.snap = conf, !.left = chg[c].scope]
  <2>1. chg' = [chg EXCEPT ![c] = r]
      BY <1>4
  <2>2. conf \in Snapshots
      BY <1>2 DEF Snapshots
  <2>3. /\ r \in Change /\ r.pc = "write" /\ r.left = chg[c].scope /\ r.written = chg[c].written
        /\ r.state = chg[c].state /\ r.scope = chg[c].scope /\ r.s = chg[c].s /\ r.frozen = chg[c].frozen
        /\ r.snap = conf
      BY <1>2, <2>2 DEF Change, ChangePcs
  <2> HIDE DEF r
  <2>4. ChangeShape(r, Members)
      BY <1>1, <1>2, <2>3 DEF ChangeShape
  <2>5. ChangeCalm(chg[c], conf) => ChangeCalm(r, conf')
      BY <1>1, <2>3 DEF ChangeCalm
  <2> QED BY <1>1, <1>2, <2>1, <2>3, <2>4, <2>5, ChangeMoves DEF ChangeOK
<1> QED BY <1>3, <1>4 DEF ChangeSnapshot

\* The write of one node's file; it may raise or be ignored.
LEMMA WriteKept ==
    ASSUME ConfInv, NEW c \in Changes, cluster' = cluster,
           Disturbs(conf' # conf, Running \ {Forward(c), Undo(c)}, Running'),
           NEW n \in Members, update_node_configuration(c, n)
    PROVE  ConfInv'
<1> DEFINE left == chg[c].left \ {n}
           written == chg[c].written \cup {n}
           pc == IF left = {} THEN "validate" ELSE "write"
           l == IF left = {} THEN written ELSE left
           r == [chg[c] EXCEPT !.written = written, !.pc = pc, !.left = l]
<1>1. /\ chg[c].pc = "write" /\ n \in chg[c].left /\ unchg' = unchg
      /\ chg' = [chg EXCEPT ![c] = r]
      /\ \/ conf' = conf
         \/ conf' = [conf EXCEPT ![n] = Served(build_candidate(chg[c].snap[n], chg[c].s, chg[c].new))]
    BY DEF update_node_configuration
<1>2. /\ chg[c] \in Change /\ ChangeShape(chg[c], Members) /\ conf \in [Members -> ConfFile]
      /\ Members \subseteq Nodes /\ ChangeOK(c)
    BY ChangeFields
<1>3. /\ chg[c].scope \subseteq Members /\ chg[c].written \subseteq chg[c].scope
      /\ chg[c].left \subseteq chg[c].scope /\ chg[c].scope = chg[c].written \cup chg[c].left
      /\ chg[c].snap \in [Members -> ConfFile] /\ chg[c].state = "approved"
    BY <1>1, <1>2 DEF ChangeShape
<1>4. conf' \in [Members -> ConfFile]
    BY <1>1, <1>2, <1>3, NodeWritten
<1>5. /\ written \subseteq chg[c].scope /\ l \subseteq chg[c].scope
      /\ \/ pc = "write" /\ chg[c].scope = written \cup l
         \/ pc = "validate" /\ written = chg[c].scope /\ l = chg[c].scope
    BY <1>1, <1>3
<1> HIDE DEF written, l, pc, left
<1>6. written \in SUBSET Nodes /\ l \in SUBSET Nodes /\ pc \in ChangePcs
    BY <1>2, <1>3, <1>5 DEF ChangePcs
<1>7. /\ r \in Change /\ r.pc = pc /\ r.left = l /\ r.written = written
      /\ r.state = chg[c].state /\ r.scope = chg[c].scope /\ r.s = chg[c].s /\ r.frozen = chg[c].frozen
      /\ r.snap = chg[c].snap
    BY <1>2, <1>6 DEF Change
<1> HIDE DEF r
<1>8. ChangeShape(r, Members)
    BY <1>3, <1>5, <1>7 DEF ChangeShape
<1>9. ChangeCalm(chg[c], conf) => ChangeCalm(r, conf')
    BY <1>1, <1>5, <1>7 DEF ChangeCalm
<1> QED BY <1>1, <1>2, <1>4, <1>7, <1>8, <1>9, ChangeMoves DEF ChangeOK

\* The manager validates what was written.
LEMMA ValidateKept ==
    ASSUME ConfInv, NEW c \in Changes, cluster' = cluster,
           Disturbs(conf' # conf, Running \ {Forward(c), Undo(c)}, Running'),
           NEW valid \in BOOLEAN, ChangeValidate(c, valid)
    PROVE  ConfInv'
<1>1. chg[c].pc = "validate" /\ conf' = conf /\ unchg' = unchg
    BY DEF ChangeValidate
<1>2. /\ chg[c] \in Change /\ ChangeShape(chg[c], Members) /\ conf \in [Members -> ConfFile]
      /\ ChangeOK(c)
    BY ChangeFields
<1>3. CASE PutBack(c, "refused")
    BY <1>1, <1>2, <1>3, ChangePutBack
<1>4. CASE chg' = [chg EXCEPT ![c].pc = "prove"]
  <2> DEFINE r == [chg[c] EXCEPT !.pc = "prove"]
  <2>1. chg' = [chg EXCEPT ![c] = r]
      BY <1>4
  <2>2. /\ r \in Change /\ r.pc = "prove" /\ r.left = chg[c].left /\ r.written = chg[c].written
        /\ r.state = chg[c].state /\ r.scope = chg[c].scope /\ r.s = chg[c].s /\ r.frozen = chg[c].frozen
        /\ r.snap = chg[c].snap
      BY <1>2 DEF Change, ChangePcs
  <2> HIDE DEF r
  <2>3. ChangeShape(r, Members)
      BY <1>1, <1>2, <2>2 DEF ChangeShape
  <2>4. ChangeCalm(chg[c], conf) => ChangeCalm(r, conf')
      BY <1>1, <1>2, <2>2 DEF ChangeCalm, ChangeShape
  <2> QED BY <1>1, <1>2, <2>1, <2>2, <2>3, <2>4, ChangeMoves DEF ChangeOK
<1> QED BY <1>3, <1>4 DEF ChangeValidate

\* A node's file is read back.
LEMMA ProveKept ==
    ASSUME ConfInv, NEW c \in Changes, cluster' = cluster,
           Disturbs(conf' # conf, Running \ {Forward(c), Undo(c)}, Running'),
           NEW n \in Members, ChangeProve(c, n)
    PROVE  ConfInv'
<1> DEFINE left == chg[c].left \ {n}
           pc == IF left = {} THEN "restart" ELSE "prove"
           r == [chg[c] EXCEPT !.left = left, !.pc = pc]
<1>1. chg[c].pc = "prove" /\ n \in chg[c].left /\ conf' = conf /\ unchg' = unchg
    BY DEF ChangeProve
<1>2. /\ chg[c] \in Change /\ ChangeShape(chg[c], Members) /\ conf \in [Members -> ConfFile]
      /\ Members \subseteq Nodes /\ ChangeOK(c)
    BY ChangeFields
<1>3. CASE PutBack(c, "refused")
    BY <1>1, <1>2, <1>3, ChangePutBack
<1>4. CASE change_persisted(c, n) /\ chg' = [chg EXCEPT ![c].left = left, ![c].pc = pc]
  <2>1. chg' = [chg EXCEPT ![c] = r]
      BY <1>4
  <2>2. left \subseteq chg[c].scope /\ left \in SUBSET Nodes /\ pc \in ChangePcs
        /\ pc \in {"prove", "restart"} /\ (pc = "restart" => left = {})
      BY <1>2 DEF ChangeShape, ChangePcs
  <2>3. \A m : m \notin left => m \notin chg[c].left \/ m = n
      OBVIOUS
  <2> HIDE DEF left, pc
  <2>4. /\ r \in Change /\ r.pc = pc /\ r.left = left /\ r.written = chg[c].written
        /\ r.state = chg[c].state /\ r.scope = chg[c].scope /\ r.s = chg[c].s /\ r.frozen = chg[c].frozen
        /\ r.snap = chg[c].snap /\ r.new = chg[c].new
      BY <1>2, <2>2 DEF Change
  <2> HIDE DEF r
  <2>5. ChangeShape(r, Members)
      BY <1>1, <1>2, <2>2, <2>4 DEF ChangeShape
  <2>6. conf[n].sec[chg[c].s] = chg[c].new
      BY <1>4 DEF change_persisted
  <2>7. ChangeCalm(chg[c], conf) => ChangeCalm(r, conf')
      BY <1>1, <2>2, <2>3, <2>4, <2>6 DEF ChangeCalm
  <2> QED BY <1>1, <1>2, <2>1, <2>4, <2>5, <2>7, ChangeMoves DEF ChangeOK
<1> QED BY <1>3, <1>4 DEF ChangeProve

\* A call of the change raises.
LEMMA RaisesKept ==
    ASSUME ConfInv, NEW c \in Changes, cluster' = cluster,
           Disturbs(conf' # conf, Running \ {Forward(c), Undo(c)}, Running'), ChangeRaises(c)
    PROVE  ConfInv'
<1>1. /\ chg[c].pc \in {"snapshot", "write", "validate", "prove"} /\ unchg' = unchg
      /\ \/ conf' = conf
         \/ \E n \in chg[c].left :
               /\ chg[c].pc = "write"
               /\ conf' = [conf EXCEPT ![n] = Served(build_candidate(chg[c].snap[n], chg[c].s, chg[c].new))]
    BY DEF ChangeRaises
<1>2. ChangeShape(chg[c], Members) /\ conf \in [Members -> ConfFile]
    BY ChangeFields
<1>3. conf' \in [Members -> ConfFile]
  <2>1. chg[c].left \subseteq Members /\ (chg[c].pc = "write" => chg[c].snap \in [Members -> ConfFile])
      BY <1>2 DEF ChangeShape
  <2> QED BY <1>1, <1>2, <2>1, NodeWritten
<1>4. CASE chg[c].pc # "snapshot" /\ PutBack(c, "raised")
    BY <1>1, <1>3, <1>4, ChangePutBack
<1>5. CASE ChangeEnds(c, "failed", "raised")
    BY <1>1, <1>3, <1>5, ChangeOver
<1> QED BY <1>4, <1>5 DEF ChangeRaises

\* A node's file is put back.
LEMMA RestoreKept ==
    ASSUME ConfInv, NEW c \in Changes, cluster' = cluster,
           Disturbs(conf' # conf, Running \ {Forward(c), Undo(c)}, Running'),
           NEW n \in Members, ChangeRestore(c, n)
    PROVE  ConfInv'
<1> DEFINE left == chg[c].left \ {n}
           r == [chg[c] EXCEPT !.left = left]
<1>1. /\ chg[c].pc = "restore" /\ n \in chg[c].left /\ unchg' = unchg
      /\ conf' = [conf EXCEPT ![n] = Served(chg[c].snap[n])]
      /\ chg' = [chg EXCEPT ![c] = r]
    BY DEF ChangeRestore
<1>2. /\ chg[c] \in Change /\ ChangeShape(chg[c], Members) /\ conf \in [Members -> ConfFile]
      /\ Members \subseteq Nodes /\ ChangeOK(c)
    BY ChangeFields
<1>3. chg[c].snap \in [Members -> ConfFile] /\ chg[c].written \subseteq Members
    BY <1>1, <1>2 DEF ChangeShape
<1>4. conf' \in [Members -> ConfFile] /\ conf'[n].sec = chg[c].snap[n].sec
    BY <1>1, <1>3, NodeWritten
<1>5. \A m \in Members : m # n => conf'[m] = conf[m]
    BY <1>1, <1>2
<1>6. left \subseteq chg[c].scope /\ left \in SUBSET Nodes /\ left \subseteq chg[c].left
      /\ \A m : m \notin left => m \notin chg[c].left \/ m = n
    BY <1>2 DEF ChangeShape
<1> HIDE DEF left
<1>7. /\ r \in Change /\ r.pc = "restore" /\ r.left = left /\ r.written = chg[c].written
      /\ r.state = chg[c].state /\ r.scope = chg[c].scope /\ r.s = chg[c].s /\ r.frozen = chg[c].frozen
      /\ r.snap = chg[c].snap /\ r.new = chg[c].new
    BY <1>1, <1>2, <1>6 DEF Change
<1> HIDE DEF r
<1>8. ChangeShape(r, Members)
    BY <1>1, <1>2, <1>6, <1>7 DEF ChangeShape
<1>9. ChangeCalm(chg[c], conf) => ChangeCalm(r, conf')
  <2> SUFFICES ASSUME ChangeCalm(chg[c], conf)
               PROVE  \A m \in r.written \ r.left : conf'[m].sec = r.snap[m].sec
      BY <1>1, <1>7 DEF ChangeCalm
  <2>1. \A m \in chg[c].written \ chg[c].left : conf[m].sec = chg[c].snap[m].sec
      BY <1>1 DEF ChangeCalm
  <2> QED BY <1>3, <1>4, <1>5, <1>6, <1>7, <2>1
<1> QED BY <1>1, <1>2, <1>4, <1>7, <1>8, <1>9, ChangeMoves DEF ChangeOK

\* The change ends, put back or not.
LEMMA RestoreEndsKept ==
    ASSUME ConfInv, NEW c \in Changes, cluster' = cluster,
           Disturbs(conf' # conf, Running \ {Forward(c), Undo(c)}, Running'),
           ChangeRestored(c) \/ ChangeRestoreRaises(c) \/ ChangeRestart(c)
    PROVE  ConfInv'
<1>1. /\ chg[c] \in Change /\ ChangeShape(chg[c], Members) /\ conf \in [Members -> ConfFile]
    BY ChangeFields
<1>2. chg[c].pc = "restore" => chg[c].snap \in [Members -> ConfFile] /\ chg[c].left \subseteq Members
    BY <1>1 DEF ChangeShape
<1>3. CASE ChangeRestored(c)
  <2>1. chg[c].end \in {"none", "ok", "stale", "refused", "raised"}
      BY <1>1 DEF Change
  <2>2. ChangeEnds(c, "failed", chg[c].end) /\ conf' = conf /\ unchg' = unchg /\ chg[c].pc # "done"
      BY <1>3 DEF ChangeRestored
  <2> QED BY <1>1, <2>1, <2>2, ChangeOver
<1>4. CASE ChangeRestoreRaises(c)
  <2>1. /\ chg[c].pc = "restore" /\ unchg' = unchg
        /\ \/ conf' = conf
           \/ \E n \in chg[c].left : conf' = [conf EXCEPT ![n] = Served(chg[c].snap[n])]
        /\ PutBack(c, "raised") \/ ChangeEnds(c, "failed", "raised")
      BY <1>4 DEF ChangeRestoreRaises
  <2>2. conf' \in [Members -> ConfFile]
      BY <1>1, <1>2, <2>1, NodeWritten
  <2> QED BY <2>1, <2>2, ChangePutBack, ChangeOver
<1>5. CASE ChangeRestart(c)
  <2>1. /\ chg[c].pc = "restart" /\ unchg' = unchg /\ conf' = conf
        /\ ChangeEnds(c, "succeeded", "ok") \/ ChangeEnds(c, "failed", "raised")
      BY <1>5 DEF ChangeRestart
  <2>2. chg[c].snap \in [Members -> ConfFile]
      BY <1>1, <2>1 DEF ChangeShape
  <2> QED BY <1>1, <2>1, <2>2, ChangeOver
<1> QED BY <1>3, <1>4, <1>5

\* A step of a reversal that leaves the record of the change.
LEMMA UndoMoves ==
    ASSUME ConfInv, NEW c \in Changes, NEW u \in Unchange,
           chg[c].pc = "done", chg[c].state \in {"succeeded", "rolled_back"},
           unchg' = [unchg EXCEPT ![c] = u], chg' = chg, cluster' = cluster,
           conf' \in [Members -> ConfFile],
           Disturbs(conf' # conf, Running \ {Forward(c), Undo(c)}, Running'),
           UndoShape(chg[c], u, cluster),
           Undo(c) \notin disturbed \/ unchg[c].pc = "idle" => UndoCalm(chg[c], u, conf', cluster)
    PROVE  ConfInv'
<1>1. [chg[c] EXCEPT !.state = chg[c].state] = chg[c]
    BY ChangeFields DEF Change
<1>2. chg' = [chg EXCEPT ![c].state = chg[c].state]
    BY <1>1 DEF ConfInv, ConfShapes
<1> QED BY <1>2, UnchangeMoves

\* An undo recalls the change.
LEMMA UnchangeStartKept ==
    ASSUME ConfInv, NEW c \in Changes, cluster' = cluster,
           Disturbs(conf' # conf, Running \ {Forward(c), Undo(c)}, Running'), UnchangeStart(c)
    PROVE  ConfInv'
<1> DEFINE u == [unchg[c] EXCEPT !.pc = "put", !.left = chg[c].scope]
<1>1. /\ chg[c].state = "succeeded" /\ conf' = conf /\ chg' = chg
      /\ unchg' = [unchg EXCEPT ![c] = u]
    BY DEF UnchangeStart, RecalledChange
<1>2. /\ chg[c] \in Change /\ unchg[c] \in Unchange /\ ChangeShape(chg[c], Members)
      /\ conf \in [Members -> ConfFile] /\ Members \subseteq Nodes
    BY ChangeFields
<1>3. chg[c].pc = "done" /\ chg[c].scope \in SUBSET Nodes
    BY <1>1, <1>2 DEF ChangeShape
<1>4. u \in Unchange /\ u.pc = "put" /\ u.left = chg[c].scope
    BY <1>2, <1>3 DEF Unchange
<1> HIDE DEF u
<1>5. UndoShape(chg[c], u, cluster) /\ UndoCalm(chg[c], u, conf', cluster)
    BY <1>1, <1>3, <1>4 DEF UndoShape, UndoCalm
<1> QED BY <1>1, <1>2, <1>3, <1>4, <1>5, UndoMoves

\* An undo writes one node's file.
LEMMA UnchangePutKept ==
    ASSUME ConfInv, NEW c \in Changes, cluster' = cluster,
           Disturbs(conf' # conf, Running \ {Forward(c), Undo(c)}, Running'),
           NEW n \in Members, UnchangePut(c, n)
    PROVE  ConfInv'
<1> DEFINE left == unchg[c].left \ {n}
           pc == IF cluster THEN "compare" ELSE "validate"
           u == [unchg[c] EXCEPT !.at = n, !.left = left, !.pc = pc]
<1>1. /\ unchg[c].pc = "put" /\ n \in unchg[c].left /\ chg' = chg
      /\ conf' = conf \/ conf' = [conf EXCEPT ![n] = Served(chg[c].snap[n])]
      /\ unchg' = [unchg EXCEPT ![c] = u]
    BY DEF UnchangePut
<1>2. /\ chg[c] \in Change /\ unchg[c] \in Unchange /\ ChangeShape(chg[c], Members)
      /\ conf \in [Members -> ConfFile] /\ Members \subseteq Nodes
      /\ UndoShape(chg[c], unchg[c], cluster) /\ ChangeOK(c)
    BY ChangeFields
<1>3. /\ chg[c].pc = "done" /\ chg[c].state \in {"succeeded", "rolled_back"}
      /\ unchg[c].left \subseteq chg[c].scope
    BY <1>1, <1>2 DEF UndoShape
<1>4. chg[c].snap \in [Members -> ConfFile] /\ chg[c].scope \subseteq Members
    BY <1>2, <1>3 DEF ChangeShape
<1>5. conf' \in [Members -> ConfFile] /\ \A m \in Members : m # n => conf'[m] = conf[m]
  <2>1. conf' \in [Members -> ConfFile]
      BY <1>1, <1>2, <1>4, NodeWritten
  <2> QED BY <1>1, <1>2, <2>1
<1>6. /\ left \subseteq chg[c].scope /\ left \in SUBSET Nodes /\ pc \in {"compare", "validate"}
      /\ pc = "validate" => ~cluster
      /\ \A m : m \notin left \cup {n} => m \notin unchg[c].left /\ m # n
    BY <1>2, <1>3, <1>4
<1>7. ~cluster => chg[c].scope \subseteq {n}
    BY <1>4 DEF ConfInv, ConfShapes
<1> HIDE DEF left, pc
<1>8. u \in Unchange /\ u.pc = pc /\ u.left = left /\ u.at = n
    BY <1>2, <1>6 DEF Unchange
<1>9. u.ok = unchg[c].ok
    BY <1>2 DEF Unchange
<1> HIDE DEF u
<1>10. UndoShape(chg[c], u, cluster)
    BY <1>3, <1>6, <1>7, <1>8 DEF UndoShape
<1>11. UndoCalm(chg[c], unchg[c], conf, cluster) => UndoCalm(chg[c], u, conf', cluster)
  <2> SUFFICES ASSUME UndoCalm(chg[c], unchg[c], conf, cluster), u.ok, u.pc = "compare",
                      NEW m \in chg[c].scope, m \notin u.left \cup {u.at}
               PROVE  conf'[m] = chg[c].snap[m]
      BY <1>6, <1>8 DEF UndoCalm
  <2>1. m \notin unchg[c].left /\ m # n
      BY <1>6, <1>8
  <2>2. conf[m] = chg[c].snap[m]
      BY <1>1, <1>9, <2>1 DEF UndoCalm
  <2> QED BY <1>4, <1>5, <2>1, <2>2
<1> QED BY <1>1, <1>2, <1>3, <1>5, <1>8, <1>10, <1>11, UndoMoves DEF ChangeOK

\* An undo compares what it wrote with the snapshot.
LEMMA UnchangeCompareKept ==
    ASSUME ConfInv, NEW c \in Changes, cluster' = cluster,
           Disturbs(conf' # conf, Running \ {Forward(c), Undo(c)}, Running'), UnchangeCompare(c)
    PROVE  ConfInv'
<1> DEFINE same == conf[unchg[c].at] = chg[c].snap[unchg[c].at]
           ok == unchg[c].ok /\ same
           pc == AfterCompare(c)
           u == [unchg[c] EXCEPT !.ok = ok, !.pc = pc]
<1>1. /\ unchg[c].pc = "compare" /\ chg' = chg /\ conf' = conf
      /\ unchg' = [unchg EXCEPT ![c] = u]
    BY DEF UnchangeCompare
<1>2. /\ chg[c] \in Change /\ unchg[c] \in Unchange /\ ChangeShape(chg[c], Members)
      /\ conf \in [Members -> ConfFile] /\ Members \subseteq Nodes
      /\ UndoShape(chg[c], unchg[c], cluster) /\ ChangeOK(c)
    BY ChangeFields
<1>3. /\ chg[c].pc = "done" /\ chg[c].state \in {"succeeded", "rolled_back"}
      /\ unchg[c].left \subseteq chg[c].scope /\ (~cluster => chg[c].scope \subseteq {unchg[c].at})
    BY <1>1, <1>2 DEF UndoShape
<1>4. \/ pc = "restart" /\ ~cluster
      \/ pc = "validate" /\ cluster /\ unchg[c].left = {}
      \/ pc = "put" /\ cluster
    BY DEF AfterCompare
<1>5. ok \in BOOLEAN /\ (ok => unchg[c].ok) /\ (ok => conf[unchg[c].at] = chg[c].snap[unchg[c].at])
    OBVIOUS
<1> HIDE DEF ok, pc, same
<1>6. u \in Unchange /\ u.pc = pc /\ u.left = unchg[c].left
    BY <1>2, <1>4, <1>5 DEF Unchange
<1>7. u.ok = ok
    BY <1>2 DEF Unchange
<1> HIDE DEF u
<1>8. UndoShape(chg[c], u, cluster)
    BY <1>3, <1>4, <1>6 DEF UndoShape
<1>9. UndoCalm(chg[c], unchg[c], conf, cluster) => UndoCalm(chg[c], u, conf', cluster)
  <2> SUFFICES ASSUME UndoCalm(chg[c], unchg[c], conf, cluster), u.ok,
                      NEW m \in chg[c].scope, pc = "put" => m \notin unchg[c].left
               PROVE  conf[m] = chg[c].snap[m]
      BY <1>1, <1>4, <1>6 DEF UndoCalm
  <2>1. CASE m = unchg[c].at
      BY <1>5, <1>7, <2>1
  <2>2. CASE m # unchg[c].at
      BY <1>1, <1>3, <1>4, <1>5, <1>7, <2>2 DEF UndoCalm
  <2> QED BY <2>1, <2>2
<1> QED BY <1>1, <1>2, <1>3, <1>6, <1>8, <1>9, UndoMoves DEF ChangeOK

\* A reversal that ends knows nothing more of the files.
LEMMA UnchangeOver ==
    ASSUME ConfInv, NEW c \in Changes, cluster' = cluster,
           Disturbs(conf' # conf, Running \ {Forward(c), Undo(c)}, Running'),
           NEW state \in {"succeeded", "failed"}, UnchangeEnds(c, state),
           unchg[c].pc # "idle", conf' \in [Members -> ConfFile],
           chg' = chg \/ chg' = [chg EXCEPT ![c].state = "rolled_back"]
    PROVE  ConfInv'
<1> DEFINE u == [pc |-> "done", left |-> {}, at |-> Absent, ok |-> TRUE, valid |-> FALSE, state |-> state]
<1>1. unchg' = [unchg EXCEPT ![c] = u]
    BY DEF UnchangeEnds
<1>2. u \in Unchange /\ u.pc = "done" /\ u.left = {}
    BY DEF Unchange
<1> HIDE DEF u
<1>3. UndoShape(chg[c], unchg[c], cluster)
    BY ChangeFields
<1>4. chg[c].pc = "done" /\ chg[c].state \in {"succeeded", "rolled_back"}
    BY <1>3 DEF UndoShape
<1>5. UndoShape(chg[c], u, cluster) /\ UndoCalm(chg[c], u, conf', cluster)
    BY <1>2, <1>4 DEF UndoShape, UndoCalm
<1> QED BY <1>1, <1>2, <1>4, <1>5, UndoMoves, UnchangeMoves

\* The manager validates what the undo wrote.
LEMMA UnchangeValidateKept ==
    ASSUME ConfInv, NEW c \in Changes, cluster' = cluster,
           Disturbs(conf' # conf, Running \ {Forward(c), Undo(c)}, Running'),
           NEW valid \in BOOLEAN, UnchangeValidate(c, valid)
    PROVE  ConfInv'
<1>1. unchg[c].pc = "validate" /\ chg' = chg /\ conf' = conf
    BY DEF UnchangeValidate
<1>2. /\ unchg[c] \in Unchange /\ conf \in [Members -> ConfFile]
      /\ UndoShape(chg[c], unchg[c], cluster) /\ ChangeOK(c)
    BY ChangeFields
<1>3. /\ chg[c].pc = "done" /\ chg[c].state \in {"succeeded", "rolled_back"}
      /\ unchg[c].left \subseteq chg[c].scope /\ (~cluster => chg[c].scope \subseteq {unchg[c].at})
    BY <1>1, <1>2 DEF UndoShape
<1>4. ASSUME NEW u \in Unchange, unchg' = [unchg EXCEPT ![c] = u], u.left = unchg[c].left,
             u.ok => unchg[c].ok, u.at = unchg[c].at,
             (cluster /\ u.pc = "restart") \/ (~cluster /\ u.pc = "compare")
      PROVE  ConfInv'
  <2>1. UndoShape(chg[c], u, cluster)
      BY <1>3, <1>4 DEF UndoShape
  <2>2. UndoCalm(chg[c], unchg[c], conf, cluster) => UndoCalm(chg[c], u, conf', cluster)
      BY <1>1, <1>3, <1>4 DEF UndoCalm
  <2> QED BY <1>1, <1>2, <1>3, <1>4, <2>1, <2>2, UndoMoves DEF ChangeOK
<1>5. CASE cluster
  <2> DEFINE ok == unchg[c].ok /\ valid
             u == [unchg[c] EXCEPT !.ok = ok, !.valid = valid, !.pc = "restart"]
  <2>1. unchg' = [unchg EXCEPT ![c] = u]
      BY <1>5 DEF UnchangeValidate
  <2>2. ok \in BOOLEAN /\ (ok => unchg[c].ok)
      OBVIOUS
  <2> HIDE DEF ok
  <2>3. u \in Unchange /\ u.pc = "restart" /\ u.left = unchg[c].left /\ u.at = unchg[c].at
      BY <1>2, <2>2 DEF Unchange
  <2>4. u.ok = ok
      BY <1>2 DEF Unchange
  <2> HIDE DEF u
  <2> QED BY <1>4, <1>5, <2>1, <2>2, <2>3, <2>4
<1>6. CASE ~cluster /\ valid
  <2> DEFINE u == [unchg[c] EXCEPT !.valid = TRUE, !.pc = "compare"]
  <2>1. unchg' = [unchg EXCEPT ![c] = u]
      BY <1>6 DEF UnchangeValidate
  <2>2. u \in Unchange /\ u.pc = "compare" /\ u.left = unchg[c].left /\ u.at = unchg[c].at
      BY <1>2 DEF Unchange
  <2>3. u.ok = unchg[c].ok
      BY <1>2 DEF Unchange
  <2> HIDE DEF u
  <2> QED BY <1>4, <1>6, <2>1, <2>2, <2>3
<1>7. CASE ~cluster /\ ~valid
  <2>1. UnchangeEnds(c, "failed")
      BY <1>7 DEF UnchangeValidate
  <2> QED BY <1>1, <1>2, <2>1, UnchangeOver
<1> QED BY <1>5, <1>6, <1>7

\* An undo ends.
LEMMA UnchangeEndsKept ==
    ASSUME ConfInv, NEW c \in Changes, cluster' = cluster,
           Disturbs(conf' # conf, Running \ {Forward(c), Undo(c)}, Running'),
           UnchangeRestart(c) \/ UnchangeRaises(c)
    PROVE  ConfInv'
<1>1. conf \in [Members -> ConfFile] /\ ChangeShape(chg[c], Members) /\ UndoShape(chg[c], unchg[c], cluster)
    BY ChangeFields
<1>2. CASE UnchangeRestart(c)
  <2>1. /\ unchg[c].pc = "restart" /\ conf' = conf
        /\ UnchangeEnds(c, "succeeded") \/ UnchangeEnds(c, "failed")
        /\ chg' = chg \/ chg' = [chg EXCEPT ![c].state = "rolled_back"]
      BY <1>2 DEF UnchangeRestart
  <2> QED BY <1>1, <2>1, UnchangeOver
<1>3. CASE UnchangeRaises(c)
  <2>1. /\ unchg[c].pc # "idle" /\ UnchangeEnds(c, "failed") /\ chg' = chg
        /\ \/ conf' = conf
           \/ \E n \in unchg[c].left : conf' = [conf EXCEPT ![n] = Served(chg[c].snap[n])]
      BY <1>3 DEF UnchangeRaises
  <2>2. unchg[c].left \subseteq Members /\ chg[c].snap \in [Members -> ConfFile]
      BY <1>1, <2>1 DEF ChangeShape, UndoShape
  <2>3. conf' \in [Members -> ConfFile]
      BY <1>1, <2>1, <2>2, NodeWritten
  <2> QED BY <2>1, <2>3, UnchangeOver
<1> QED BY <1>2, <1>3

\* An operator's edit disturbs every execution in flight.
LEMMA OperatorEditKept ==
    ASSUME ConfInv, NEW n \in Members, NEW s \in Sections, NEW v \in Contents \cup {Absent, Many},
           cluster' = cluster, OperatorEdit(n, s, v), Disturbs(conf' # conf, Running, Running')
    PROVE  ConfInv'
<1>1. /\ conf' = [conf EXCEPT ![n].sec[s] = v, ![n].house = FALSE] /\ chg' = chg /\ unchg' = unchg
    BY DEF OperatorEdit
<1>2. conf \in [Members -> ConfFile]
    BY DEF ConfInv, ConfShapes
<1>3. conf' \in [Members -> ConfFile]
    BY <1>1, <1>2 DEF ConfFile
<1>4. Members' = Members
    BY <1>3 DEF Members
<1>5. ConfShapes'
    BY <1>1, <1>3, <1>4 DEF ConfInv, ConfShapes
<1>6. ASSUME NEW c \in Changes PROVE ChangeOK(c)'
    BY <1>1, <1>4, <1>6, ChangeStays
<1> QED BY <1>5, <1>6 DEF ConfInv

\* No change has been proposed.
LEMMA ConfigInit == CInit => ConfInv /\ \A c \in Changes : chg[c].pc = "none" /\ unchg[c].pc = "idle"
<1> SUFFICES ASSUME CInit
             PROVE  ConfInv /\ \A c \in Changes : chg[c].pc = "none" /\ unchg[c].pc = "idle"
    OBVIOUS
<1>1. PICK v \in Contents \cup {Absent}, D \in SUBSET Nodes :
         /\ IF cluster THEN D = Nodes ELSE Cardinality(D) = 1
         /\ conf = [n \in D |-> [sec |-> [s \in Sections |-> v], house |-> TRUE]]
    BY DEF CInit
<1>2. Members = D /\ conf \in [D -> ConfFile]
    BY <1>1 DEF Members, ConfFile
<1>3. ~cluster => \A m, n \in D : m = n
  <2>1. IsFiniteSet(D)
      BY ConfigChangeAssumption, FS_Subset
  <2>2. ~cluster => \E x : D = {x}
      BY <1>1, <2>1, FS_Singleton
  <2> QED BY <2>2
<1>4. chg \in [Changes -> Change] /\ unchg \in [Changes -> Unchange] /\ cluster \in BOOLEAN
    BY DEF CInit, Change, Unchange, ChangePcs, ConfigOps, Targets, Snapshots
<1>5. ASSUME NEW c \in Changes
      PROVE  /\ chg[c].pc = "none" /\ chg[c].scope = {} /\ chg[c].left = {} /\ chg[c].written = {}
             /\ chg[c].state = "approved" /\ unchg[c].pc = "idle" /\ unchg[c].left = {}
    BY <1>5 DEF CInit
<1>6. ASSUME NEW c \in Changes PROVE ChangeOK(c)
    BY <1>5, <1>6 DEF ChangeOK, ChangeShape, UndoShape, ChangeCalm, UndoCalm
<1> QED BY <1>2, <1>3, <1>4, <1>5, <1>6 DEF ConfInv, ConfShapes

\* Every step of a change or of its undo keeps the invariant.
LEMMA ConfigKept == ConfInv /\ CNext => ConfInv'
<1> SUFFICES ASSUME ConfInv, CNext PROVE ConfInv'
    OBVIOUS
<1>0. cluster' = cluster
    BY DEF CNext
<1>1. ASSUME NEW c \in Changes,
             Disturbs(conf' # conf, Running \ {Forward(c), Undo(c)}, Running'),
             \/ \E op \in ConfigOps, s \in Sections, new \in Contents \cup {Absent} :
                   ProposeChange(c, op, s, new)
             \/ ChangeFreshness(c) \/ ChangeSnapshot(c) \/ ChangeRaises(c)
             \/ ChangeRestored(c) \/ ChangeRestoreRaises(c) \/ ChangeRestart(c)
             \/ \E n \in Members : \/ update_node_configuration(c, n) \/ ChangeProve(c, n)
                                   \/ ChangeRestore(c, n) \/ UnchangePut(c, n)
             \/ \E valid \in BOOLEAN : ChangeValidate(c, valid) \/ UnchangeValidate(c, valid)
             \/ UnchangeStart(c) \/ UnchangeCompare(c) \/ UnchangeRestart(c) \/ UnchangeRaises(c)
      PROVE  ConfInv'
    BY <1>0, <1>1, ProposeKept, FreshnessKept, SnapshotKept, RaisesKept, RestoreEndsKept, WriteKept,
       ProveKept, RestoreKept, UnchangePutKept, ValidateKept, UnchangeValidateKept,
       UnchangeStartKept, UnchangeCompareKept, UnchangeEndsKept
<1>2. ASSUME NEW n \in Members, NEW s \in Sections, NEW v \in Contents \cup {Absent, Many},
             OperatorEdit(n, s, v), Disturbs(conf' # conf, Running, Running')
      PROVE  ConfInv'
    BY <1>0, <1>2, OperatorEditKept
<1> QED BY <1>1, <1>2 DEF CNext

-----------------------------------------------------------------------------
(* Configuration changes: what the ledger records.                         *)

\* Only the restart records a change as succeeded, only the restart of the undo
\* as rolled back, and only the snapshot or a finished restore as refused.
LEMMA ChangeRecorded ==
    ASSUME ConfInv, CNext, NEW c \in Changes
    PROVE  /\ ChangeBecomes(c, "succeeded") => chg[c].pc = "restart"
           /\ ChangeBecomes(c, "failed") /\ chg'[c].end = "refused" =>
                 chg[c].pc = "snapshot" \/ (chg[c].pc = "restore" /\ chg[c].left = {})
           /\ ChangeBecomes(c, "rolled_back") => unchg[c].pc = "restart" /\ unchg[c].ok
<1>0. chg \in [Changes -> Change] /\ chg[c] \in Change
    BY DEF ConfInv, ConfShapes
<1> SUFFICES ASSUME chg'[c].state # chg[c].state
             PROVE  \/ chg'[c].state = "succeeded" /\ chg[c].pc = "restart"
                    \/ chg'[c].state = "rolled_back" /\ unchg[c].pc = "restart" /\ unchg[c].ok
                    \/ /\ chg'[c].state = "failed" /\ chg'[c].end = "refused"
                       /\ chg[c].pc = "snapshot" \/ (chg[c].pc = "restore" /\ chg[c].left = {})
                    \/ chg'[c].state = "failed" /\ chg'[c].end # "refused"
                    \/ chg'[c].state = "expired"
    BY DEF ChangeBecomes
<1>1. ASSUME NEW d \in Changes, NEW state, NEW end, ChangeEnds(d, state, end)
      PROVE  d = c /\ chg'[c].state = state /\ chg'[c].end = end
    BY <1>0, <1>1 DEF ChangeEnds, Change
<1>2. ASSUME NEW d \in Changes, NEW end, PutBack(d, end) PROVE FALSE
    BY <1>0, <1>2 DEF PutBack, Change
<1>3. ASSUME NEW d \in Changes, NEW op \in ConfigOps, NEW s \in Sections, NEW new \in Contents \cup {Absent},
             ProposeChange(d, op, s, new)
      PROVE  FALSE
    BY <1>0, <1>3 DEF ProposeChange, Change
<1>4. ASSUME NEW d \in Changes, ChangeFreshness(d) PROVE chg'[c].state = "expired"
  <2>1. CASE ChangeEnds(d, "expired", "stale")
      BY <1>1, <2>1
  <2>2. CASE chg' = [chg EXCEPT ![d].pc = "snapshot"]
      BY <1>0, <2>2 DEF Change
  <2> QED BY <1>4, <2>1, <2>2 DEF ChangeFreshness
<1>5. ASSUME NEW d \in Changes, ChangeSnapshot(d)
      PROVE  chg'[c].state = "failed" /\ chg'[c].end = "refused" /\ chg[c].pc = "snapshot"
  <2>1. CASE ChangeEnds(d, "failed", "refused")
      BY <1>1, <1>5, <2>1 DEF ChangeSnapshot
  <2>2. CASE chg' = [chg EXCEPT ![d].pc = "write", ![d].snap = conf, ![d].left = chg[d].scope]
      BY <1>0, <2>2 DEF Change
  <2> QED BY <1>5, <2>1, <2>2 DEF ChangeSnapshot
<1>6. ASSUME NEW d \in Changes, ChangeRaises(d) \/ ChangeRestoreRaises(d)
      PROVE  chg'[c].state = "failed" /\ chg'[c].end # "refused"
  <2>1. PutBack(d, "raised") \/ ChangeEnds(d, "failed", "raised")
      BY <1>6 DEF ChangeRaises, ChangeRestoreRaises
  <2> QED BY <1>1, <1>2, <2>1
<1>7. ASSUME NEW d \in Changes, ChangeRestored(d)
      PROVE  chg'[c].state = "failed" /\ chg[c].pc = "restore" /\ chg[c].left = {}
    BY <1>1, <1>7 DEF ChangeRestored
<1>8. ASSUME NEW d \in Changes, ChangeRestart(d)
      PROVE  \/ chg'[c].state = "succeeded" /\ chg[c].pc = "restart"
             \/ chg'[c].state = "failed" /\ chg'[c].end # "refused"
    BY <1>1, <1>8 DEF ChangeRestart
<1>9. ASSUME NEW d \in Changes, NEW n \in Members, update_node_configuration(d, n) \/ ChangeRestore(d, n)
      PROVE  FALSE
  <2>1. ASSUME NEW w, NEW p, NEW l, chg' = [chg EXCEPT ![d].written = w, ![d].pc = p, ![d].left = l]
        PROVE  FALSE
      BY <1>0, <2>1 DEF Change
  <2>2. CASE update_node_configuration(d, n)
      BY <2>1, <2>2 DEF update_node_configuration
  <2>3. CASE ChangeRestore(d, n)
      BY <1>0, <2>3 DEF ChangeRestore, Change
  <2> QED BY <1>9, <2>2, <2>3
<1>10. ASSUME NEW d \in Changes, NEW n \in Members, ChangeProve(d, n) PROVE FALSE
  <2>1. ~PutBack(d, "refused")
      BY <1>2
  <2>2. chg' = [chg EXCEPT ![d].left = chg[d].left \ {n},
                           ![d].pc = IF chg[d].left \ {n} = {} THEN "restart" ELSE "prove"]
      BY <1>10, <2>1 DEF ChangeProve
  <2> QED BY <1>0, <2>2 DEF Change
<1>11. ASSUME NEW d \in Changes, NEW valid \in BOOLEAN, ChangeValidate(d, valid) PROVE FALSE
  <2>1. ~PutBack(d, "refused")
      BY <1>2
  <2>2. chg' = [chg EXCEPT ![d].pc = "prove"]
      BY <1>11, <2>1 DEF ChangeValidate
  <2> QED BY <1>0, <2>2 DEF Change
<1>12. ASSUME NEW d \in Changes, UnchangeRestart(d)
       PROVE  chg'[c].state = "rolled_back" /\ unchg[c].pc = "restart" /\ unchg[c].ok
  <2>1. unchg[d].ok /\ chg' = [chg EXCEPT ![d].state = "rolled_back"] /\ unchg[d].pc = "restart"
      BY <1>12 DEF UnchangeRestart
  <2>2. d = c /\ chg'[c].state = "rolled_back"
      BY <1>0, <2>1 DEF Change
  <2> QED BY <2>1, <2>2
<1>13. ASSUME NEW d \in Changes,
              \/ UnchangeStart(d) \/ UnchangeCompare(d) \/ UnchangeRaises(d)
              \/ \E n \in Members : UnchangePut(d, n)
              \/ \E valid \in BOOLEAN : UnchangeValidate(d, valid)
       PROVE  FALSE
    BY <1>13 DEF UnchangeStart, UnchangeCompare, UnchangeRaises, UnchangePut, UnchangeValidate
<1>14. ASSUME NEW n \in Members, NEW s \in Sections, NEW v \in Contents \cup {Absent, Many},
              OperatorEdit(n, s, v)
       PROVE  FALSE
    BY <1>14 DEF OperatorEdit
<1>15. CASE \E d \in Changes :
              \/ \E op \in ConfigOps, s \in Sections, new \in Contents \cup {Absent} :
                    ProposeChange(d, op, s, new)
              \/ ChangeFreshness(d) \/ ChangeSnapshot(d) \/ ChangeRaises(d)
              \/ ChangeRestored(d) \/ ChangeRestoreRaises(d) \/ ChangeRestart(d)
              \/ \E n \in Members : \/ update_node_configuration(d, n) \/ ChangeProve(d, n)
                                    \/ ChangeRestore(d, n) \/ UnchangePut(d, n)
              \/ \E valid \in BOOLEAN : ChangeValidate(d, valid) \/ UnchangeValidate(d, valid)
              \/ UnchangeStart(d) \/ UnchangeCompare(d) \/ UnchangeRestart(d) \/ UnchangeRaises(d)
    BY <1>3, <1>4, <1>5, <1>6, <1>7, <1>8, <1>9, <1>10, <1>11, <1>12, <1>13, <1>15
<1> QED BY <1>14, <1>15 DEF CNext

-----------------------------------------------------------------------------
(* The executors side by side.                                             *)

\* The executors that do not move have not begun.
ExecutorsInv ==
    /\ TuneInv /\ ConfInv /\ GroupInv
    /\ on # "rule_tuning" => \A t \in Tunes : tune[t].pc = "idle" /\ untune[t].pc = "idle"
    /\ on # "config_change" => \A c \in Changes : chg[c].pc = "none" /\ unchg[c].pc = "idle"

\* A tuning that has not begun is not touched by the others.
LEMMA TuningRests ==
    ASSUME TuneInv, \A t \in Tunes : tune[t].pc = "idle" /\ untune[t].pc = "idle",
           UNCHANGED <<file, tune, untune>>, faults' \in 0..MaxFaults
    PROVE  TuneInv'
<1>1. TuningTypeOK'
    BY DEF TuneInv, TuningTypeOK
<1>2. ASSUME NEW t \in Tunes PROVE TuneOK(t)'
    BY <1>2 DEF TuneInv, TuneOK
<1>3. RefusedLeavesNoOverride'
    BY DEF TuneInv, RefusedLeavesNoOverride, has_override
<1> QED BY <1>1, <1>2, <1>3 DEF TuneInv

\* Nor is a change.
LEMMA ConfigRests ==
    ASSUME ConfInv, \A c \in Changes : chg[c].pc = "none" /\ unchg[c].pc = "idle",
           UNCHANGED <<cluster, conf, chg, unchg>>
    PROVE  ConfInv'
<1>1. ConfShapes'
    BY DEF ConfInv, ConfShapes, Members
<1>2. ASSUME NEW c \in Changes PROVE ChangeOK(c)'
    BY <1>2 DEF ConfInv, ChangeOK, ChangeShape, ChangeCalm, UndoShape, UndoCalm, Members
<1> QED BY <1>1, <1>2 DEF ConfInv

\* Nor is an assignment.
LEMMA GroupsRest ==
    ASSUME GroupInv, UNCHANGED <<groups, act, unact>> PROVE GroupInv'
BY DEF GroupInv, GroupShapes, GroupsTypeOK, GroupNamed

\* Every step leaves the faults within their bound.
LEMMA ConfigFaults == CNext => Fault \/ faults' = faults
<1>1. ASSUME NEW c \in Changes
      PROVE  /\ ChangeFreshness(c) => faults' = faults
             /\ ChangeSnapshot(c) => faults' = faults
             /\ ChangeRaises(c) => Fault
             /\ ChangeRestored(c) => faults' = faults
             /\ ChangeRestoreRaises(c) => Fault
             /\ ChangeRestart(c) => Fault \/ faults' = faults
             /\ UnchangeStart(c) => faults' = faults
             /\ UnchangeCompare(c) => faults' = faults
             /\ UnchangeRestart(c) => faults' = faults
             /\ UnchangeRaises(c) => Fault
    BY DEF ChangeFreshness, ChangeSnapshot, ChangeRaises, ChangeRestored, ChangeRestoreRaises,
           ChangeRestart, UnchangeStart, UnchangeCompare, UnchangeRestart, UnchangeRaises
<1>2. ASSUME NEW n \in Members, NEW s \in Sections, NEW v \in Contents \cup {Absent, Many},
             OperatorEdit(n, s, v)
      PROVE  faults' = faults
    BY <1>2 DEF OperatorEdit
<1>3. ASSUME NEW c \in Changes,
             \/ \E op \in ConfigOps, s \in Sections, new \in Contents \cup {Absent} :
                   ProposeChange(c, op, s, new)
             \/ \E n \in Members : \/ update_node_configuration(c, n) \/ ChangeProve(c, n)
                                   \/ ChangeRestore(c, n) \/ UnchangePut(c, n)
             \/ \E valid \in BOOLEAN : ChangeValidate(c, valid) \/ UnchangeValidate(c, valid)
      PROVE  Fault \/ faults' = faults
    BY <1>3 DEF ProposeChange, update_node_configuration, ChangeProve, ChangeRestore, UnchangePut,
           ChangeValidate, UnchangeValidate
<1> QED BY <1>1, <1>2, <1>3 DEF CNext

\* A step of an assignment counts its faults.
LEMMA GroupFaults == GNext => Fault \/ faults' = faults
BY DEF GNext, ProposeGroup, ProposeInverse, GroupPerform, GroupPerformReverse, GroupWrite,
       GroupVerify, GroupVerifyReverse, resolve_agent_groups, OperatorMoves

\* None of the three has begun.
LEMMA ExecutorsInit == EInit => ExecutorsInv
<1> SUFFICES ASSUME EInit PROVE ExecutorsInv
    OBVIOUS
<1>1. TInit /\ CInit /\ GInit
    BY DEF EInit
<1> QED BY <1>1, TuningInit, ConfigInit, GroupsInit DEF ExecutorsInv

\* A step of one executor keeps the invariant of all.
LEMMA ExecutorsKept == ExecutorsInv /\ [ENext]_evars => ExecutorsInv'
<1> SUFFICES ASSUME ExecutorsInv, [ENext]_evars PROVE ExecutorsInv'
    OBVIOUS
<1>0. TuneInv /\ ConfInv /\ GroupInv /\ faults \in 0..MaxFaults
    BY DEF ExecutorsInv, TuneInv, TuningTypeOK
<1>1. CASE TStep
  <2>1. /\ on = "rule_tuning" /\ TNext /\ on' = on
        /\ UNCHANGED <<cluster, conf, chg, unchg>> /\ UNCHANGED <<groups, act, unact>>
      BY <1>1 DEF TStep
  <2>2. TuneInv' /\ GroupInv'
      BY <1>0, <2>1, TuningKept, GroupsRest
  <2>3. ConfInv'
      BY <1>0, <2>1, ConfigRests DEF ExecutorsInv
  <2> QED BY <2>1, <2>2, <2>3 DEF ExecutorsInv
<1>2. CASE CStep
  <2>1. /\ on = "config_change" /\ CNext /\ on' = on
        /\ UNCHANGED <<file, tune, untune>> /\ UNCHANGED <<groups, act, unact>>
      BY <1>2 DEF CStep
  <2>2. ConfInv' /\ GroupInv'
      BY <1>0, <2>1, ConfigKept, GroupsRest
  <2>3. faults' \in 0..MaxFaults
      BY <1>0, <2>1, ConfigFaults, FaultBounded
  <2>4. TuneInv'
      BY <1>0, <2>1, <2>3, TuningRests DEF ExecutorsInv
  <2> QED BY <2>1, <2>2, <2>4 DEF ExecutorsInv
<1>3. CASE GStep
  <2>1. /\ on = "agent_action" /\ GNext /\ on' = on
        /\ UNCHANGED <<file, tune, untune>> /\ UNCHANGED <<cluster, conf, chg, unchg>>
      BY <1>3 DEF GStep
  <2>2. GroupInv'
      BY <1>0, <2>1, GroupsKept
  <2>3. faults' \in 0..MaxFaults
      BY <1>0, <2>1, GroupFaults, FaultBounded
  <2>4. TuneInv'
      BY <1>0, <2>1, <2>3, TuningRests DEF ExecutorsInv
  <2>5. ConfInv'
      BY <1>0, <2>1, ConfigRests DEF ExecutorsInv
  <2> QED BY <2>1, <2>2, <2>4, <2>5 DEF ExecutorsInv
<1>4. CASE UNCHANGED evars
  <2>1. UNCHANGED <<on, file, tune, untune, cluster, conf, chg, unchg, groups, act, unact,
                    faults, intrusions, disturbed>>
      BY <1>4 DEF evars
  <2>2. TuneInv'
      BY <1>0, <2>1 DEF TuneInv, TuningTypeOK, TuneOK, RefusedLeavesNoOverride, has_override
  <2>3. ConfInv'
      BY <1>0, <2>1 DEF ConfInv, ConfShapes, Members, ChangeOK, ChangeShape, ChangeCalm, UndoShape, UndoCalm
  <2>4. GroupInv'
      BY <1>0, <2>1, GroupsRest
  <2> QED BY <2>1, <2>2, <2>3, <2>4 DEF ExecutorsInv
<1> QED BY <1>1, <1>2, <1>3, <1>4 DEF ENext

\* The invariant holds in every state.
LEMMA ExecutorsInvariant == ESpec => []ExecutorsInv
BY ExecutorsInit, ExecutorsKept, PTL DEF ESpec

\* The local rules, the configuration files, the groups and the executions of
\* every class keep their types; an execution writes nodes in its scope only,
\* and a scope is within the deployment.
THEOREM ExecutorsTypes == ESpec => []ExecutorsTypeOK
<1>1. ExecutorsInv => ExecutorsTypeOK
  <2> SUFFICES ASSUME ExecutorsInv PROVE ConfigTypeOK
      BY DEF ExecutorsInv, TuneInv, GroupInv, ExecutorsTypeOK
  <2>1. conf \in [Members -> ConfFile] /\ Members \subseteq Nodes
      BY DEF ExecutorsInv, ConfInv, ConfShapes
  <2>2. ASSUME NEW c \in Changes
        PROVE  /\ chg[c].written \subseteq chg[c].scope /\ chg[c].left \subseteq chg[c].scope
               /\ chg[c].scope \subseteq Members /\ unchg[c].left \subseteq chg[c].scope
               /\ chg[c].state \in {"approved", "expired", "succeeded", "failed", "rolled_back"}
               /\ unchg[c].state \in {"approved", "succeeded", "failed"}
    <3>1. chg[c] \in Change /\ unchg[c] \in Unchange /\ ChangeShape(chg[c], Members)
          /\ UndoShape(chg[c], unchg[c], cluster)
        BY <2>2, ChangeFields DEF ExecutorsInv
    <3>2. chg[c].state \in {"approved", "expired", "succeeded", "failed", "rolled_back"}
        BY <3>1 DEF Change
    <3>3. unchg[c].state \in {"approved", "succeeded", "failed"}
        BY <3>1 DEF Unchange
    <3> QED BY <3>1, <3>2, <3>3 DEF ChangeShape, UndoShape
  <2> QED BY <2>1, <2>2 DEF ConfigTypeOK
<1> QED BY <1>1, ExecutorsInvariant, PTL

\* The rule_tuning executor: a tuning that was refused leaves no override of its
\* own in local_rules.xml, however executions of other organizations interleave
\* with it and whatever calls fail.
THEOREM RefusalsLeaveNoOverride == ESpec => []RefusedLeavesNoOverride
<1>1. ExecutorsInv => RefusedLeavesNoOverride
    BY DEF ExecutorsInv, TuneInv
<1> QED BY <1>1, ExecutorsInvariant, PTL

\* The config_change executor: what an undisturbed execution writes over is the
\* content the approver was shown, on every node.
THEOREM ApprovedDiffRuns == ESpec => []DiffIsWhatRuns
<1>1. ExecutorsInv => DiffIsWhatRuns
  <2> SUFFICES ASSUME ExecutorsInv, NEW c \in Changes, Forward(c) \notin disturbed,
                      NEW n \in chg[c].written
               PROVE  chg[c].snap[n].sec[chg[c].s] = chg[c].frozen[n]
      BY DEF DiffIsWhatRuns
  <2>1. ChangeShape(chg[c], Members) /\ ChangeCalm(chg[c], conf) /\ chg[c] \in Change
      BY ChangeFields DEF ExecutorsInv, ChangeOK
  <2>2. chg[c].pc \in ChangePcs
      BY <2>1 DEF Change
  <2>3. chg[c].pc \in {"write", "validate", "prove", "restart", "restore"} /\ n \in chg[c].scope
      BY <2>1, <2>2 DEF ChangeShape, ChangePcs
  <2> QED BY <2>1, <2>3 DEF ChangeCalm
<1> QED BY <1>1, ExecutorsInvariant, PTL

\* The rule_tuning executor: "succeeded" means that the override is in the file,
\* "rolled_back" that it is gone, unless another execution wrote the file
\* between the confirming read and the record.
THEOREM TuningsRecordedAreTrue == ESpec => TuneOutcomeIsTrue
<1>1. ExecutorsInv /\ [ENext]_evars =>
        [\A t \in Tunes :
            /\ TuneBecomes(t, "succeeded") /\ Forward(t) \notin disturbed => has_override(file, tune[t].rule)
            /\ TuneBecomes(t, "rolled_back") /\ Undo(t) \notin disturbed => ~has_override(file, tune[t].rule)
        ]_tvars
  <2> SUFFICES ASSUME ExecutorsInv, [ENext]_evars, NEW t \in Tunes
               PROVE  /\ TuneBecomes(t, "succeeded") /\ Forward(t) \notin disturbed => has_override(file, tune[t].rule)
                      /\ TuneBecomes(t, "rolled_back") /\ Undo(t) \notin disturbed => ~has_override(file, tune[t].rule)
      OBVIOUS
  <2>1. CASE TNext
    <3>1. TuneOK(t)
        BY DEF ExecutorsInv, TuneInv
    <3>2. /\ TuneBecomes(t, "succeeded") => tune[t].pc = "restart"
          /\ TuneBecomes(t, "rolled_back") => untune[t].pc = "restart" /\ untune[t].gone
        BY <2>1, TuneRecorded DEF ExecutorsInv
    <3> QED BY <3>1, <3>2 DEF TuneOK
  <2>2. CASE tune' = tune
      BY <2>2 DEF TuneBecomes
  <2> QED BY <2>1, <2>2 DEF ENext, TStep, CStep, GStep, evars
<1> QED BY <1>1, ExecutorsInvariant, PTL DEF ESpec, TuneOutcomeIsTrue

\* The config_change executor: "succeeded" means that every node in scope holds
\* the change, a refusal that every node written holds its old contents, and
\* "rolled_back" that every file is its snapshot, unless somebody else wrote
\* the files under the execution.
THEOREM ChangesRecordedAreTrue == ESpec => ChangeOutcomeIsTrue
<1>1. ExecutorsInv /\ [ENext]_evars =>
        [\A c \in Changes :
          /\ ChangeBecomes(c, "succeeded") /\ Forward(c) \notin disturbed =>
                \A n \in chg[c].scope : conf[n].sec[chg[c].s] = chg[c].new
          /\ ChangeBecomes(c, "failed") /\ chg'[c].end = "refused" /\ Forward(c) \notin disturbed =>
                \A n \in chg[c].written : conf[n].sec = chg[c].snap[n].sec
          /\ ChangeBecomes(c, "rolled_back") /\ Undo(c) \notin disturbed =>
                \A n \in chg[c].scope : conf[n] = chg[c].snap[n]]_cvars
  <2> SUFFICES ASSUME ExecutorsInv, [ENext]_evars, NEW c \in Changes
               PROVE
          /\ ChangeBecomes(c, "succeeded") /\ Forward(c) \notin disturbed =>
                \A n \in chg[c].scope : conf[n].sec[chg[c].s] = chg[c].new
          /\ ChangeBecomes(c, "failed") /\ chg'[c].end = "refused" /\ Forward(c) \notin disturbed =>
                \A n \in chg[c].written : conf[n].sec = chg[c].snap[n].sec
          /\ ChangeBecomes(c, "rolled_back") /\ Undo(c) \notin disturbed =>
                \A n \in chg[c].scope : conf[n] = chg[c].snap[n]
      OBVIOUS
  <2>1. CASE CNext
    <3>1. ChangeShape(chg[c], Members) /\ ChangeOK(c)
        BY ChangeFields DEF ExecutorsInv
    <3>2. /\ ChangeBecomes(c, "succeeded") => chg[c].pc = "restart"
          /\ ChangeBecomes(c, "failed") /\ chg'[c].end = "refused" =>
                 chg[c].pc = "snapshot" \/ (chg[c].pc = "restore" /\ chg[c].left = {})
          /\ ChangeBecomes(c, "rolled_back") => unchg[c].pc = "restart" /\ unchg[c].ok
        BY <2>1, ChangeRecorded DEF ExecutorsInv
    <3>3. chg[c].pc = "snapshot" => chg[c].written = {}
        BY <3>1 DEF ChangeShape
    <3>4. Forward(c) \notin disturbed =>
            /\ chg[c].pc = "restart" => \A n \in chg[c].scope : conf[n].sec[chg[c].s] = chg[c].new
            /\ chg[c].pc = "restore" => \A n \in chg[c].written \ chg[c].left : conf[n].sec = chg[c].snap[n].sec
        BY <3>1 DEF ChangeOK, ChangeCalm
    <3>5. Undo(c) \notin disturbed /\ unchg[c].pc = "restart" /\ unchg[c].ok =>
            \A n \in chg[c].scope : conf[n] = chg[c].snap[n]
        BY <3>1 DEF ChangeOK, UndoCalm
    <3> QED BY <3>2, <3>3, <3>4, <3>5
  <2>2. CASE chg' = chg
      BY <2>2 DEF ChangeBecomes
  <2> QED BY <2>1, <2>2 DEF ENext, TStep, CStep, GStep, evars
<1> QED BY <1>1, ExecutorsInvariant, PTL DEF ESpec, ChangeOutcomeIsTrue

\* The agent_action executor: a group recorded as assigned, by an action or by
\* the undo of a removal, is among the agent's groups when it is recorded.
THEOREM AssignmentsAreTrue == ESpec => AssignedIsMember
<1>1. ExecutorsInv /\ [ENext]_evars =>
        [\A a \in Actions :
          /\ ActBecomes(a, "succeeded") /\ act[a].op = "assign_group" => act[a].g \in groups
          /\ ActBecomes(a, "rolled_back") /\ act[a].op = "remove_group" => act[a].g \in groups]_gvars
  <2> SUFFICES ASSUME ExecutorsInv, [ENext]_evars, NEW a \in Actions
               PROVE  /\ ActBecomes(a, "succeeded") /\ act[a].op = "assign_group" => act[a].g \in groups
                      /\ ActBecomes(a, "rolled_back") /\ act[a].op = "remove_group" => act[a].g \in groups
      OBVIOUS
  <2>1. CASE GNext
      BY <2>1, GroupRecorded DEF ExecutorsInv
  <2>2. CASE act' = act
      BY <2>2 DEF ActBecomes
  <2> QED BY <2>1, <2>2 DEF ENext, TStep, CStep, GStep, evars
<1> QED BY <1>1, ExecutorsInvariant, PTL DEF ESpec, AssignedIsMember
=============================================================================
