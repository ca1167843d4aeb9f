------------------------------ MODULE WalkForward ------------------------------
(***************************************************************************)
(* How the optimizer judges exit settings on trades they were not chosen   *)
(* on (backtest/optimizer.py): the chronological splits, and the score of  *)
(* a combination of settings over them.                                    *)
(*                                                                         *)
(* Trades are numbered in the order of the input; a result that is         *)
(* Unsimulated has no candles.                                             *)
(***************************************************************************)
EXTENDS Integers, Sequences, FiniteSetsExt, SequencesExt, Functions

CONSTANTS
  Folds,          \* n_folds
  TrainPercent,   \* train_frac
  Unsimulated

ASSUME WalkForwardAssumption == Folds \in Nat \ {0} /\ TrainPercent \in 1 .. 99
-----------------------------------------------------------------------------
(* Python's round: ties go to the even neighbour.                          *)
RoundHalfEven(m, n) ==
  LET q == m \div n
      twice == 2 * (m % n)
  IN IF twice > n \/ (twice = n /\ q % 2 = 1) THEN q + 1 ELSE q

(* The sort is stable: equal times keep the order of the input.            *)
InputOrder(times) == [i \in DOMAIN times |-> i]                     \* mutant
Order(times) ==
  SetToSortSeq(DOMAIN times, LAMBDA i, j : times[i] < times[j] \/ (times[i] = times[j] /\ i < j))

Part(order, from, to) == {order[i] : i \in from + 1 .. to}

SplitHoldout(times) ==
  LET n == Len(times)
      k == Max({1, Min({n - 1, RoundHalfEven(n * TrainPercent, 100)})})
  IN <<[train |-> Part(Order(times), 0, Min({k, n})), val |-> Part(Order(times), k, n)]>>

Edge(j, n) == RoundHalfEven(j * n, Folds + 1)

SplitRolling(times) ==
  LET n == Len(times)
      order == Order(times)
  IN IF n < Folds + 1 THEN SplitHoldout(times)
     ELSE [i \in 1 .. Folds |->
             [train |-> Part(order, 0, Edge(i, n)), val |-> Part(order, Edge(i, n), Edge(i + 1, n))]]
-----------------------------------------------------------------------------
Total(pnls, trades) ==
  FoldFunction(+, 0, [i \in {t \in trades : pnls[t] # Unsimulated} |-> pnls[i]])

Counted(pnls, trades) == Cardinality({t \in trades : pnls[t] # Unsimulated})

(* The sums over the folds; the means are these over their number.         *)
Score(pnls, splits) ==
  LET val == [f \in DOMAIN splits |-> Total(pnls, splits[f].val)]
  IN [train |-> FoldFunction(+, 0, [f \in DOMAIN splits |-> Total(pnls, splits[f].train)]),
      val   |-> FoldFunction(+, 0, val),
      worst |-> IF splits = <<>> THEN 0 ELSE Min({val[f] : f \in DOMAIN val}),
      won   |-> Cardinality({f \in DOMAIN val : val[f] > 0}),
      n     |-> FoldFunction(+, 0, [f \in DOMAIN splits |-> Counted(pnls, splits[f].val)]),
      total |-> Total(pnls, DOMAIN pnls)]
-----------------------------------------------------------------------------
(* "Every trade after the first chunk gets validated exactly once"         *)
(* (optimizer.py:136), by settings trained on earlier trades only, and at  *)
(* least on one; so the score over all folds is that of these trades, none *)
(* of them counted twice.                                                  *)
ValidatesOnce(times, pnls) ==
  LET splits == SplitRolling(times)
      chunk == splits[1].train
      row == Score(pnls, splits)
  IN /\ \A f \in DOMAIN splits :
          /\ \A i \in splits[f].train, j \in splits[f].val : times[i] <= times[j] /\ i # j
          /\ Len(times) > 1 => splits[f].train # {}
     /\ \A i \in DOMAIN times :
          Cardinality({f \in DOMAIN splits : i \in splits[f].val}) = IF i \in chunk THEN 0 ELSE 1
     /\ row.val = row.total - Total(pnls, chunk)
     /\ row.n = Counted(pnls, DOMAIN times \ chunk)
     /\ row.worst * Len(splits) <= row.val
=============================================================================
