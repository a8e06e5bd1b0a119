----------------------------- MODULE Grounding -----------------------------
(***************************************************************************)
(* The grounding validator (grounding/validator.py): the claims of an      *)
(* answer are judged by a model, in one call or in concurrent batches, and *)
(* each claim gets a verdict.  A judge's reply may be partial, may repeat  *)
(* or leave the range of the claims it was given, or may not come at all.  *)
(***************************************************************************)
EXTENDS Naturals, FiniteSets

CONSTANTS
    Sizes,         \* numbers of claims of an answer
    max_claims,
    batch_size

ASSUME GroundingAssumption ==
    /\ Sizes \subseteq Nat \ {0} /\ max_claims \in Nat \ {0} /\ batch_size \in Nat \ {0}

VARIABLES
    whole,       \* validate (one call), or validate_streaming (batches)
    count,        \* claims of the answer
    stage,       \* "judge", "again" (after a failed first call), "retry"
                 \* (after a partial reply), "done", "skipped"
    waiting,     \* the batches not back yet, by offset
    per_claim    \* each claim's verdict and the offset of the list its judge saw

gvars == <<whole, count, stage, waiting, per_claim>>

Verdicts == {"supported", "unsupported", "uncertain", "unverifiable"}
Unjudged == [verdict |-> "none", by |-> 0]

\* _prepare: an answer longer than max_claims is cut.
Prepared(n) == IF n > max_claims THEN max_claims ELSE n
Claims == 1..Prepared(count)

\* Offset o stands for the claims o + 1, o + 2, ...
Offsets(n) == IF whole THEN {0} ELSE {o \in 0..n - 1 : o % batch_size = 0}
Slice(o) == IF whole THEN Claims ELSE {i \in Claims : i > o /\ i <= o + batch_size}

GInit ==
    /\ whole \in BOOLEAN /\ count \in Sizes
    /\ stage = "judge"
    /\ waiting = Offsets(Prepared(count))
    /\ per_claim = [i \in Claims |-> Unjudged]

Missing == {i \in Claims : per_claim[i] = Unjudged}

-----------------------------------------------------------------------------
\* A reply names some indices, and perhaps one past the end of its list.
Replies(o) == SUBSET (Slice(o) \cup {o + Cardinality(Slice(o)) + 1})

\* Mutant: the index is not checked against the list the judge saw.
InRange_any(o, i) == i \in Claims

InRange(o, i) == i \in Slice(o)

Open(i) == per_claim[i] = Unjudged

\* An index out of range is skipped, and so is one that has a verdict; a word
\* that is no verdict counts as unverifiable.
merge_verdicts(o, reply, v) ==
    [i \in Claims |-> IF i \in reply /\ InRange(o, i) /\ Open(i)
                      THEN [verdict |-> v, by |-> o] ELSE per_claim[i]]

\* Mutant: what the judge left out stays without a verdict.
Filled_not(pcm) == pcm

\* A claim without a verdict is uncertain.
Filled(pcm) ==
    [i \in Claims |-> IF pcm[i] = Unjudged
                      THEN [verdict |-> "uncertain", by |-> (CHOOSE o \in Offsets(count) : i \in Slice(o))]
                      ELSE pcm[i]]

-----------------------------------------------------------------------------
(* One call for all claims: blocking and deferred grounding.               *)

\* The first call may fail once; a partial reply is asked for once more.
JudgeAnswers(reply, v) ==
    /\ whole /\ stage \in {"judge", "again", "retry"}
    /\ LET merged == merge_verdicts(0, reply, v) IN
       IF stage # "retry" /\ \E i \in Claims : merged[i] = Unjudged
       THEN stage' = "retry" /\ per_claim' = merged
       ELSE stage' = "done" /\ per_claim' = Filled(merged)
    /\ UNCHANGED <<whole, count, waiting>>

\* An error, an empty reply or one that is not a JSON array.
JudgeFails ==
    /\ whole
    /\ \/ stage = "judge" /\ stage' = "again" /\ UNCHANGED per_claim
       \/ stage = "again" /\ stage' = "skipped" /\ UNCHANGED per_claim
       \/ stage = "retry" /\ stage' = "done" /\ per_claim' = Filled(per_claim)
    /\ UNCHANGED <<whole, count, waiting>>

-----------------------------------------------------------------------------
(* Concurrent batches: incremental grounding.                              *)

\* A batch is back, in any order; a snapshot goes to the client.
BatchAnswers(o, reply, v) ==
    /\ ~whole /\ stage = "judge" /\ o \in waiting
    /\ per_claim' = merge_verdicts(o, reply, v)
    /\ waiting' = waiting \ {o}
    /\ UNCHANGED <<whole, count, stage>>

BatchFails(o) ==
    /\ ~whole /\ stage = "judge" /\ o \in waiting
    /\ waiting' = waiting \ {o}
    /\ UNCHANGED <<whole, count, stage, per_claim>>

\* All are back: the final snapshot, with a verdict for every claim.
BatchesDone ==
    /\ ~whole /\ stage = "judge" /\ waiting = {}
    /\ stage' = "done" /\ per_claim' = Filled(per_claim)
    /\ UNCHANGED <<whole, count, waiting>>

GNext ==
    \/ \E v \in Verdicts, o \in waiting : \E reply \in Replies(o) :
          JudgeAnswers(reply, v) \/ BatchAnswers(o, reply, v)
    \/ JudgeFails \/ BatchesDone
    \/ \E o \in waiting : BatchFails(o)

-----------------------------------------------------------------------------
GroundingTypeOK ==
    /\ stage \in {"judge", "again", "retry", "done", "skipped"}
    /\ waiting \subseteq 0..max_claims
    /\ per_claim \in [Claims -> [verdict : Verdicts \cup {"none"}, by : 0..max_claims]]

\* Every claim that was put to a judge ends with a verdict, and with the
\* verdict of the judge that was shown that claim: neither the order in which
\* the batches return nor an index outside a batch moves a verdict to another
\* claim (merge_verdicts, validate, validate_streaming).
EveryClaimItsVerdict ==
    /\ \A i \in Claims : per_claim[i] # Unjudged => i \in Slice(per_claim[i].by)
    /\ stage = "done" => Missing = {}
=============================================================================
