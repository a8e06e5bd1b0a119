----------------------------- MODULE ModelCall -----------------------------
(***************************************************************************)
(* What the agent loop may rely on in one call of a model provider         *)
(* (models/interface.py): deltas of one answer, then one final response of *)
(* that same answer, or an exception.  Nothing is said of how many models  *)
(* stand behind the provider.                                              *)
(***************************************************************************)
CONSTANTS Models, None

VARIABLES
    st,      \* "idle" | "waiting" | "ok" | "failed"
    shown,   \* the answer the deltas so far are of
    got      \* the answer of the ChatStreamDone, or of the blocking response

cvars == <<st, shown, got>>

CallInit == st = "idle" /\ shown = None /\ got = None

Ask == st = "idle" /\ st' = "waiting" /\ UNCHANGED <<shown, got>>

\* The first delta fixes the answer; the ones after it add to what is shown.
Delta ==
    /\ st = "waiting" /\ shown = None
    /\ shown' \in Models
    /\ UNCHANGED <<st, got>>

Done ==
    /\ st = "waiting" /\ st' = "ok"
    /\ got' \in IF shown = None THEN Models ELSE {shown}
    /\ UNCHANGED shown

Raise == st = "waiting" /\ st' = "failed" /\ UNCHANGED <<shown, got>>

Return == st \in {"ok", "failed"} /\ st' = "idle" /\ shown' = None /\ got' = None

CallNext == Ask \/ Delta \/ Done \/ Raise \/ Return
=============================================================================
