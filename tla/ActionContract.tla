--------------------------- MODULE ActionContract ---------------------------
(***************************************************************************)
(* What the approval gateway promises about each proposal, whoever handles *)
(* it: it is queued once, decided once, sends its write to Wazuh at most   *)
(* once and only while it is undecided on the ledger, and ends in a state  *)
(* it never leaves, except that a succeeded action is rolled back in the   *)
(* very step that records the success of its reversal.                     *)
(***************************************************************************)
EXTENDS Naturals

CONSTANT Proposals

VARIABLES
    life,   \* committed state of each proposal, "absent" before it is queued
    sent    \* writes sent to Wazuh for each proposal

contractVars == <<life, sent>>

ContractInit ==
    /\ life = [p \in Proposals |-> "absent"]
    /\ sent = [p \in Proposals |-> 0]

Queue(p) ==
    /\ life[p] = "absent"
    /\ life' = [life EXCEPT ![p] = "pending"]
    /\ UNCHANGED sent

Send(p) ==
    /\ life[p] = "pending" /\ sent[p] = 0
    /\ sent' = [sent EXCEPT ![p] = 1]
    /\ UNCHANGED life

\* Declined, void, or signed and left unexecuted: nothing was sent.
Decline(p, s) ==
    /\ sent[p] = 0
    /\ \/ life[p] = "pending" /\ s \in {"approved", "rejected", "expired"}
       \/ life[p] = "approved" /\ s = "expired"
    /\ life' = [life EXCEPT ![p] = s]
    /\ UNCHANGED sent

Record(p, s) ==
    /\ life[p] = "pending" /\ s \in {"succeeded", "failed"}
    /\ life' = [life EXCEPT ![p] = s]
    /\ UNCHANGED sent

RecordUndo(p, o) ==
    /\ life[p] = "pending" /\ sent[p] = 1 /\ life[o] = "succeeded"
    /\ life' = [life EXCEPT ![p] = "succeeded", ![o] = "rolled_back"]
    /\ UNCHANGED sent

\* A pre-consented auto-reversal appears already executed.
RecordAuto(p) ==
    /\ life[p] = "absent"
    /\ life' = [life EXCEPT ![p] = "succeeded"]
    /\ UNCHANGED sent

ContractNext ==
    \E p \in Proposals :
        \/ Queue(p) \/ Send(p) \/ RecordAuto(p)
        \/ \E s \in {"approved", "rejected", "expired"} : Decline(p, s)
        \/ \E s \in {"succeeded", "failed"} : Record(p, s)
        \/ \E o \in Proposals : RecordUndo(p, o)

ContractSpec == ContractInit /\ [][ContractNext]_contractVars
=============================================================================
