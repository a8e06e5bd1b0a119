---------------------------- MODULE MCOperations ----------------------------
(* An instance of Operations for TLC.                                       *)
EXTENDS Operations

\* One leaf of each kind.
TwoLeaves == <<"server", "dashboard-client">>

\* One model with and without a document prefix, and a wider one.
Nomic == [id |-> "nomic", dim |-> 768, prefix |-> ""]
NomicDocs == [Nomic EXCEPT !.prefix = "search_document: "]
Qwen == [id |-> "qwen3", dim |-> 4096, prefix |-> ""]
EmbeddingStacks ==
    {[embedding |-> Nomic, embedding_v2 |-> NULL],
     [embedding |-> NomicDocs, embedding_v2 |-> Nomic],
     [embedding |-> Qwen, embedding_v2 |-> Nomic]}
Owners == <<Shared, "acme">>
=============================================================================
