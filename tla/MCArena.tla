-------------------------------- MODULE MCArena --------------------------------
EXTENDS Arena
(* Two headlines that tell the same; one lane has the lower gate.          *)
MCStory    == [i \in Items |-> 1]
MCGate     == [l \in Lanes |-> IF l = "sonnet" THEN 2 ELSE 3]
Bullish    == [dir |-> "long", conf |-> 3]
Bearish    == [dir |-> "short", conf |-> 3]
MCVerdicts == [l \in Lanes |-> IF l = "sonnet" THEN {Bullish, Bearish} ELSE {Bullish}]
MCOutcomes == {-1, 0}
=============================================================================
