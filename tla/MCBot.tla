--------------------------------- MODULE MCBot ---------------------------------
EXTENDS Bot, FiniteSets
CONSTANT MaxEvents
PositionSymmetry == Permutations(Positions)

(* Bounds: events, presses, faults and restarts of one behaviour.  The page *)
(* is watched while nobody presses a button of the bot, and the card is not *)
(* redrawn by itself after a restart.                                       *)
FewEvents ==
  /\ viewer # "off" \/ shown # {} => presses = 0 /\ botFaults = 0
  /\ boot > 1 => \A r \in Refreshers : redraw[r] = NoJob
  /\ boot > 1 /\ card # NoCard => ~card.aged
  /\ published + presses + botFaults <= MaxEvents
  /\ Cardinality({p \in Positions : pos[p] \in {"opening", "selling", "closing"}}) <= 1
=============================================================================
