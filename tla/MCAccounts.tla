---------------------------- MODULE MCAccounts -----------------------------
(* Instances of Accounts for TLC.                                           *)
EXTENDS Accounts, TLC

\* People, requests and handlers are interchangeable.
Interchangeable == UNION {Permutations(S) : S \in {People, Tickets, Handlers}}
=============================================================================
