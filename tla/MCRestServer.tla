---------------------------- MODULE MCRestServer ----------------------------
(***************************************************************************)
(* Small instances of RestServer for TLC.                                  *)
(***************************************************************************)
EXTENDS RestServer, TLC

\* No segment, an empty one, an order, and the longer paths of other resources.
MCPaths ==
  {<<>>, <<Blank>>} \cup {<<o>> : o \in Orders} \cup
  {<<o, Name>> : o \in Orders} \cup {<<o, Name, Name>> : o \in Orders}

\* The path of one order, and of none.
OneOrNone == {<<>>, <<CHOOSE o \in Orders : TRUE>>}

\* Everything but the special values is interchangeable.
Symmetry ==
  Permutations(Requests) \cup Permutations(Servers) \cup
  Permutations(Orders) \cup Permutations(Customers)
=============================================================================
