--------------------------- MODULE MCTradingGate ----------------------------
EXTENDS TradingGate, TLC

(* What one mark or close may yield.                                       *)
LossOrNothing == {-1, 0}

Symmetry == Permutations(Markets)
=============================================================================
