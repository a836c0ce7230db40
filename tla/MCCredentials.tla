--------------------------- MODULE MCCredentials ----------------------------
(***************************************************************************)
(* A small instance of Credentials for TLC.                                *)
(***************************************************************************)
EXTENDS Credentials, TLC

\* Operations and passwords are interchangeable.
Symmetry == Permutations(Requests) \cup Permutations(Passwords)
=============================================================================
