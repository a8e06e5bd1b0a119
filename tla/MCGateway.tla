----------------------------- MODULE MCGateway -----------------------------
(* Instances of Gateway for TLC.  ann may propose and not approve, bob and  *)
(* cy may do both, eve is an approver of another organization.              *)
EXTENDS Gateway, TLC

CONSTANTS ann, bob, cy, eve, home, away

MCOrgOf == [u \in Users |-> IF u = eve THEN away ELSE home]

\* Handlers are interchangeable, and so are sweepers.
Interchangeable == Permutations(Requests) \cup Permutations(Sweepers)
=============================================================================
