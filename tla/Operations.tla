----------------------------- MODULE Operations -----------------------------
(***************************************************************************)
(* What an operator sets up and maintains: certificates (Certs), the       *)
(* bundled database (Database), the Wazuh credentials (Credentials) and    *)
(* the knowledge store (Knowledge).  They share no state: each is checked  *)
(* while the others rest; part is the one that moves.                      *)
(***************************************************************************)
EXTENDS Certs, Database, Credentials, Knowledge

CONSTANT Parts

VARIABLE part

opsvars == <<part, kvars, dvars, wvars, nvars>>

\* The part at rest is in one representative state.
OpsInit ==
    /\ part \in Parts
    /\ KInit /\ DInit /\ WInit /\ NInit
    /\ part # "database" => vector
    /\ part # "credentials" => ~row["install"].there
    /\ part # "knowledge" => stack = CHOOSE s \in Stacks : TRUE

CertsStep == part = "certs" /\ KNext /\ UNCHANGED <<part, dvars, wvars, nvars>>
DatabaseStep == part = "database" /\ DNext /\ UNCHANGED <<part, kvars, wvars, nvars>>
CredentialsStep == part = "credentials" /\ WNext /\ UNCHANGED <<part, kvars, dvars, nvars>>
KnowledgeStep == part = "knowledge" /\ NNext /\ UNCHANGED <<part, kvars, dvars, wvars>>
MaintenanceStep == part = "knowledge" /\ PassStep /\ UNCHANGED <<part, kvars, dvars, wvars>>

OpsNext == CertsStep \/ DatabaseStep \/ CredentialsStep \/ KnowledgeStep

\* A maintenance command is one process that goes on until it returns or is
\* killed.
OpsSpec == OpsInit /\ [][OpsNext]_opsvars /\ WF_opsvars(MaintenanceStep)

\* Types of every part's state.
OperationsTypeOK == CertsTypeOK /\ DatabaseTypeOK /\ CredentialsTypeOK /\ KnowledgeTypeOK
=============================================================================
