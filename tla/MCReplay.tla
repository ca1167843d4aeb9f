------------------------------- MODULE MCReplay --------------------------------
(* The replay, and its pure parts on every input of a few kinds: a          *)
(* behaviour is about one or the other.                                    *)
EXTENDS Replay, EntryLab, WalkForward

VARIABLE lab

MCTimes == <<1, 2, 4, 6>>
MCTiers == [c \in 0 .. 4 |-> IF c >= 4 THEN 5 ELSE 3]
Headline(m, s, c, hold, pnl) ==
  [mkt |-> m, side |-> s, tradable |-> TRUE, conf |-> c, haircut |-> 0,
   words |-> "w", hold |-> hold, pnl |-> pnl, cut |-> -1, fund |-> 1,
   agree |-> TRUE, second |-> 4, moved |-> FALSE]
MCKinds ==
  { Headline("a", "long", 4, 3, -2),
    Headline("b", "long", 3, 6, 2),
    Headline("a", "short", 2, 1, 1),
    [Headline("c", "short", 4, 2, 1) EXCEPT !.haircut = 1, !.agree = FALSE],
    [Headline("a", "long", 4, 1, -3) EXCEPT !.words = "x", !.second = 2] }

MCLengths == <<1, 3>>
Ticks     == 0 .. 7
Book(bid, ask, bids, asks) == [bid |-> bid, ask |-> ask, bids |-> bids, asks |-> asks]
Books == {Book(4, 4, <<1, 3>>, <<4>>), Book(4, 5, <<4>>, <<4>>),
          Book(4, 4, <<1, 1, 4>>, <<4>>), Book(0, 4, <<>>, <<4>>)}

NoLab == [about |-> "nothing"]
Labs ==
  [about : {"prices"}, traded : SUBSET Ticks, news : Ticks, failing : 0 .. Len(MCLengths)]
    \cup [about : {"splits"}, times : UNION {[1 .. n -> 1 .. 3] : n \in 1 .. 6},
          pnls : {<<1, 2, -4, 1, 8, -2>>, <<-1, Unsimulated, 2, 4, Unsimulated, 1>>}]

LabInit ==
  \/ Init /\ lab = NoLab
  \/ /\ Init /\ mode = "replay" /\ news = [i \in Items |-> CHOOSE k \in Kinds : TRUE]
     /\ lab \in Labs

LabNext == lab = NoLab /\ Next /\ UNCHANGED lab

LabSpec == LabInit /\ [][LabNext]_<<vars, lab>>

(* The reference from which a move is measured is the last price known     *)
(* before the news, live and in the backtest, and live never judges a      *)
(* move of the market more kindly (risk.py:113-127, 253-270, 396-398,      *)
(* engine.py:651-671).                                                     *)
ReferenceIsLastKnown ==
  lab.about = "prices" =>
    \A asked \in lab.news .. Max(Ticks) :
      /\ MeasuresFromTheLastKnown(lab.traded, lab.news, asked, lab.failing)
      /\ \A conf \in {1, 3}, hold \in {"hours", "days"}, levels \in Books :
           LiveIsTighter(lab.traded, lab.news, asked, conf, hold, levels)

(* Exit settings are judged on later trades than those they were chosen    *)
(* on, each of which counts once (optimizer.py:123-180).                   *)
ValidatedOnce ==
  lab.about = "splits" =>
    ValidatesOnce(lab.times, SubSeq(lab.pnls, 1, Len(lab.times)))
=============================================================================
