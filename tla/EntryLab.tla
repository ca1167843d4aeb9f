------------------------------- MODULE EntryLab --------------------------------
(***************************************************************************)
(* What the gate measures of the market before an entry (risk.py,          *)
(* hl_client.py), and what the backtest measures in its place (engine.py): *)
(* pure functions of the bars that were traded and of the order book.      *)
(*                                                                         *)
(* A price is the moment it was the market's; of the bars of one length,   *)
(* those without a trade are missing.                                      *)
(***************************************************************************)
EXTENDS Integers, Sequences, FiniteSetsExt, SequencesExt, Functions

CONSTANTS
  Lengths,      \* of the bars, finest first: 1, 5 and 15 minutes
  Lookback,     \* pre_move_lookback_seconds
  MaxDelay,     \* BACKTEST_MAX_ENTRY_DELAY_S
  Haircut, Penalty, RejectMove,      \* pre_move_*; 0 is off
  MaxSpread,    \* max_spread_pct, in percent of the mid; 0 is off
  MinDepth,     \* min_top_depth_usd; 0 is off
  TopLevels     \* of a book that are added up: ten

ASSUME EntryAssumption ==
  /\ Lengths \in Seq(Nat \ {0}) /\ Lengths # <<>>
  /\ {Lookback, MaxDelay, Haircut, Penalty, RejectMove, MaxSpread, MinDepth} \subseteq Nat
  /\ TopLevels \in Nat \ {0}

Unknown == -1
Rejected == -2

Greater(m, n) == IF m > n THEN m ELSE n
-----------------------------------------------------------------------------
(* The bars of a length that a request returns, by their starts.           *)
Bars(traded, len, from, to) ==
  {s \in {len * (t \div len) : t \in traded} : s + len > from /\ s <= to}

Since(len, news) == news - (Greater(len, Lookback) + len)

(* A bar opens with its first trade, which may come long after its start, *)
(* and closes with its last.                                               *)
Open(traded, s, len)  == Min(traded \cap s .. s + len - 1)
Close(traded, s, len) == Max(traded \cap s .. s + len - 1)

(* The close of the last bar that ended by the news, or the open of the    *)
(* bar the news is in.                                                     *)
RefPriceLastBar(traded, starts, len, news) ==                       \* mutant
  IF starts = {} THEN Unknown ELSE Close(traded, Max(starts), len)
RefPrice(traded, starts, len, news) ==
  LET ended == {s \in starts : s + len - 1 <= news}
      begun == {s \in starts : s <= news}
  IN IF ended # {} THEN Close(traded, Max(ended), len)
     ELSE IF begun # {} THEN Open(traded, Min(begun), len) ELSE Unknown

(* The open of the first bar at or after the news, unless that bar begins  *)
(* too late.                                                               *)
PickEntry(traded, starts, len, news) ==
  LET after == {s \in starts : s >= news}
  IN IF after = {} \/ Min(after) - news > MaxDelay THEN Unknown
     ELSE Open(traded, Min(after), len)

First(candidates) ==
  LET known == {i \in DOMAIN candidates : candidates[i] # Unknown}
  IN IF known = {} THEN Unknown ELSE candidates[Min(known)]

(* Live, when asked some time after the news: of the trades until then,    *)
(* the reference of the finest length that has one; a request that fails   *)
(* gives up.                                                               *)
PreNewsRef(seen, news, failing) ==
  LET ref == [i \in DOMAIN Lengths |->
                RefPrice(seen, Bars(seen, Lengths[i], Since(Lengths[i], news), news + 1),
                         Lengths[i], news)]
      tried == {i \in DOMAIN Lengths : \A j \in 1 .. i - 1 : ref[j] = Unknown}
  IN IF failing \in tried THEN Unknown ELSE First(ref)

(* Backtest: of the finest length that has both prices.                    *)
MeasurePreMove(traded, news) ==
  LET of(i) == Bars(traded, Lengths[i], Since(Lengths[i], news), news + MaxDelay)
      ref(i) == RefPrice(traded, of(i), Lengths[i], news)
      cur(i) == PickEntry(traded, of(i), Lengths[i], news)
      both == {i \in DOMAIN Lengths : ref(i) # Unknown /\ cur(i) # Unknown}
  IN IF both = {} THEN <<Unknown, Unknown>> ELSE <<ref(Min(both)), cur(Min(both))>>
-----------------------------------------------------------------------------
(* The already-moved guard, for a move in percent of the reference.        *)
MoveGuard(conf, move, hold) ==
  CASE move <= 0 -> conf
    [] move > 0 /\ RejectMove > 0 /\ move >= RejectMove /\ hold # "days" -> Rejected
    [] OTHER -> IF Haircut > 0 /\ move >= Haircut THEN Greater(0, conf - Penalty) ELSE conf

(* A book is the best prices of both sides, 0 for a side without levels,   *)
(* and the worth of the levels of each.                                    *)
Judgeable(book) == book.bid > 0 /\ book.ask >= book.bid

TooWide(book) == MaxSpread > 0 /\ 200 * (book.ask - book.bid) > MaxSpread * (book.bid + book.ask)

SideDepth(levels) == FoldFunction(+, 0, [i \in DOMAIN levels \cap 1 .. TopLevels |-> levels[i]])

TopDepth(book) ==
  LET bids == SideDepth(book.bids)
      asks == SideDepth(book.asks)
  IN IF bids = 0 \/ asks = 0 THEN 0 ELSE Min({bids, asks})

TooThin(book) == MinDepth > 0 /\ TopDepth(book) \in 1 .. MinDepth - 1

LiquidityGuard(book) == Judgeable(book) /\ (TooWide(book) \/ TooThin(book))

(* The gate has a book to judge, the backtest has not.                     *)
LiveVerdict(conf, move, hold, book) ==
  IF LiquidityGuard(book) THEN Rejected ELSE MoveGuard(conf, move, hold)
-----------------------------------------------------------------------------
(* No trade lies between a reference and the bar of the news; it is itself *)
(* later than the news only if nothing was traded in the lookback before   *)
(* it, and then it is the first trade after it.                            *)
LastKnown(traded, news, ref) ==
  LET before == {t \in traded : t <= news}
  IN \/ ref <= news /\ \A t \in before : t > ref => news - t < Last(Lengths)
     \/ before \cap Since(Lengths[1], news) .. news = {} /\ ref = Min(traded \ before)

(* Both references are the last known ones, a reference of the backtest    *)
(* from before the news is no later than the live one, and live is only    *)
(* without one if nothing was traded at all.                               *)
MeasuresFromTheLastKnown(traded, news, asked, failing) ==
  LET seen == {t \in traded : t <= asked}
      live == PreNewsRef(seen, news, failing)
      back == MeasurePreMove(traded, news)
  IN /\ live # Unknown => LastKnown(seen, news, live)
     /\ (failing = 0 /\ live = Unknown) => seen \cap Since(Last(Lengths), news) .. news = {}
     /\ back[1] # Unknown =>
          /\ LastKnown(traded, news, back[1])
          /\ back[1] <= back[2] /\ news <= back[2]
          /\ (failing = 0 /\ back[1] <= news) => live >= back[1]

(* Where the price only goes the trade's way (a percent each moment), an   *)
(* entry measured from the same reference to a later moment than the       *)
(* backtest's is judged no better, whatever the book.                      *)
LiveIsTighter(traded, news, asked, conf, hold, book) ==
  LET live == PreNewsRef({t \in traded : t <= asked}, news, 0)
      back == MeasurePreMove(traded, news)
  IN (live # Unknown /\ live = back[1] /\ asked >= back[2]) =>
       LiveVerdict(conf, asked - live, hold, book) <= MoveGuard(conf, back[2] - back[1], hold)
=============================================================================
