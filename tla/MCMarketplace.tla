--------------------------- MODULE MCMarketplace ----------------------------
(***************************************************************************)
(* A small instance of MarketReads for TLC: what three requests may ask    *)
(* for beside a reader, so that each hazard meets what it takes.           *)
(***************************************************************************)
EXTENDS MarketReads, TLC

View(ops, reads) == [ops |-> ops, reads |-> reads]

Looks ==
  {View(<<"profile", "delete", "bloq">>, "none"),
   View(<<"delete", "bloq", "browse">>, "none"),
   View(<<"delete", "bloq", "makes_offer">>, "none"),
   View(<<"delete", "bloq", "offer">>, "none"),
   View(<<"delete", "profile", "order">>, "none"),
   View(<<"order", "order", "cancel">>, "none"),
   View(<<"order", "cancel", "delete">>, "none"),
   View(<<"profile", "profile", "delete">>, "none"),
   View(<<"profile", "profile", "preference">>, "none"),
   View(<<"preference", "preference", "profile">>, "none"),
   View(<<"profile", "none", "none">>, "mine"),
   View(<<"delete", "none", "none">>, "mine"),
   View(<<"profile", "delete", "none">>, "person"),
   View(<<"profile", "delete", "none">>, "people"),
   View(<<"offer", "offer", "none">>, "offers"),
   View(<<"offer", "delete", "none">>, "offers")}

Three == {v.ops : v \in Looks}

\* What is there before is interchangeable.
Symmetry == Permutations(Known)
=============================================================================
