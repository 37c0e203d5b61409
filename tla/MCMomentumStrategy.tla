------------------------- MODULE MCMomentumStrategy -------------------------
(***************************************************************************)
(* Instances of MomentumStrategy.  From an entry at 10 the stop rises from *)
(* 9 to 9.9 and a price of 12 takes profit; two entries and two rejections *)
(* reach a rejected entry whose exit is already on its way, and a rejected *)
(* exit that is tried again.                                               *)
(***************************************************************************)
EXTENDS MomentumStrategy

MCPrices == {9, 10, 11, 12}
=============================================================================
