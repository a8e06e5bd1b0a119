---------------------------- MODULE MCExecutors ----------------------------
(* Instances of Executors for TLC.                                          *)
EXTENDS Executors, TLC

\* Nodes, contents and changes are interchangeable.
Interchangeable == UNION {Permutations(S) : S \in {Nodes, Contents, Changes}}
=============================================================================
