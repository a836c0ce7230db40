------------------------------ MODULE MCTokens ------------------------------
(***************************************************************************)
(* Small instances of Tokens for TLC.                                      *)
(***************************************************************************)
EXTENDS Tokens, FiniteSets, TLC

\* Requests and secrets are interchangeable.
Symmetry == Permutations(Requests) \cup Permutations(Secrets)

\* At most two tokens are signed, and at most one command is on its way, late.
Few == Cardinality(tokens) <= 2 /\ Cardinality(late) <= 1
=============================================================================
