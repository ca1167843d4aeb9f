-------------------------------- MODULE Replay --------------------------------
(***************************************************************************)
(* The backtests (backtest/engine.py): run_live_replay, which judges one   *)
(* headline after another under the regime and the memory of its time and  *)
(* under the portfolio's limits, and run_backtest, which analyses all      *)
(* headlines at once and judges them alone.  What a run has paid for is    *)
(* cached on disk; it may fail, abort or die at any point and is run again.*)
(*                                                                         *)
(* A headline is what the analyzer, the universe and the candles say of    *)
(* it: a kind.  Its verdict is remembered with the context it was asked    *)
(* in.                                                                     *)
(***************************************************************************)
EXTENDS Integers, Sequences, FiniteSets, SequencesExt, FiniteSetsExt

CONSTANTS
  Kinds,        \* what a headline may be
  Markets, Sides,
  Times,        \* when the headlines came, in order
  DayLength,    \* a UTC day
  Refresh,      \* regime_refresh_seconds
  MemWindow,    \* catalyst_memory_days
  Gate,         \* risk.confidence_threshold
  ConfirmGate,  \* analyzer.confirm_gate (confirm_rule "min")
  ContraryMin,  \* risk.contrary_exit_min_confidence
  DupWindow,    \* risk.duplicate_window_seconds
  Cooldown,     \* risk.per_ticker_cooldown_seconds
  Limit,        \* risk.daily_loss_limit_usd
  MaxOpen,      \* risk.max_concurrent_positions
  MaxExposure,  \* risk.max_total_exposure_usd
  MinOrder,     \* MIN_ORDER_USD
  Tiers,        \* the notional of each confidence (risk.size_tiers)
  Lot,          \* the notional of one unit of size precision
  MinHold,      \* FUNDING_MIN_HOLD_MS
  MaxFails,     \* _MAX_CONSECUTIVE_FAILURES
  SaveEvery,    \* analyses between two saves of the cache
  Modes,        \* of "replay", "alone"
  Faults,       \* of "analysis", "regime", "confirm", "candles", "funding", "crash"
  MaxFaults,    \* bound: faults
  MaxRuns       \* bound: runs

Items == 1 .. Len(Times)

Headlines ==
  [ mkt : Markets, side : Sides, tradable : BOOLEAN, conf : DOMAIN Tiers, haircut : Nat,
    words : STRING, hold : Nat, pnl : Int, cut : Int, fund : Int, agree : BOOLEAN,
    second : DOMAIN Tiers, moved : BOOLEAN ]

ASSUME ReplayAssumption ==
  /\ Modes \subseteq {"replay", "alone"}
  /\ Times \in Seq(Nat) /\ \A i \in Items \ {1} : Times[i - 1] <= Times[i]
  /\ {DayLength, Refresh, Lot, SaveEvery, MaxFails} \subseteq Nat \ {0}
  /\ {MaxExposure, MinOrder, MaxOpen, Limit, Cooldown, MinHold} \subseteq Nat
  /\ Kinds \subseteq Headlines /\ IsFiniteSet(Markets)
  /\ DOMAIN Tiers \subseteq Nat
  /\ \A c \in DOMAIN Tiers : Tiers[c] \in Nat /\ 0 .. c \subseteq DOMAIN Tiers

VARIABLES
  mode,
  news,      \* the headlines, by number
  phase,     \* of the run: "regime", "run", "done", "failed"
  at,        \* the headline the loop is at
  cache,     \* AnalysisCache.data: the context of each verdict
  disk,      \* its file
  briefs,    \* the regime timeline on file: which run wrote each brief
  confirmed, \* ConfirmCache, on file
  book,      \* the portfolio of the run
  tried,     \* the headlines asked for in this run
  fails, done,
  dirty,     \* history: a call failed in this run
  clean,     \* history: no call failed in any run
  run, faults

files == <<disk, briefs, confirmed>>
vars  == <<mode, news, phase, at, cache, files, book, tried, fails, done, dirty, clean,
           run, faults>>

None == [memory |-> {}, brief |-> -1, error |-> FALSE]       \* no verdict

Day(t) == t \div DayLength

Fault(f) == f \in Faults /\ faults < MaxFaults /\ faults' = faults + 1

(* The boundaries of the regime lie on a fixed grid.                       *)
Boundary(t) == (t \div Refresh) * Refresh
Boundaries  == {Boundary(Times[i]) : i \in Items}

EmptyBook == [ trades |-> <<>>,
               signal |-> [s \in Markets \X Sides |-> [at |-> -1, words |-> "none"]],
               last   |-> [m \in Markets |-> -1],
               till   |-> [m \in Markets |-> 0],
               halted |-> {} ]

Fresh ==
  /\ phase' = "regime"
  /\ at' = 1
  /\ cache' = disk
  /\ book' = EmptyBook
  /\ tried' = {}
  /\ fails' = 0
  /\ done' = 0
  /\ dirty' = FALSE
  /\ run' = run + 1

Init ==
  /\ mode \in Modes
  /\ news \in [Items -> Kinds]
  /\ phase = "regime"
  /\ at = 1
  /\ disk = [i \in Items |-> None]
  /\ cache = disk
  /\ briefs = [b \in Boundaries |-> 0]
  /\ confirmed = {}
  /\ book = EmptyBook
  /\ tried = {}
  /\ fails = 0
  /\ done = 0
  /\ dirty = FALSE
  /\ clean = TRUE
  /\ run = 1
  /\ faults = 0
-----------------------------------------------------------------------------
(***************************************************************************)
(* The judgement of one headline, from the book before it.                 *)
(***************************************************************************)
OpenAt(b, t) == {k \in DOMAIN b.trades : b.trades[k].till > t}
OpenOn(b, m, t) == {k \in OpenAt(b, t) : b.trades[k].mkt = m}

Notional(b, S) == SumFunctionOnSet([k \in DOMAIN b.trades |-> b.trades[k].size], S)

(* Haircuts: thin, new or penalised markets, listings, indirect mentions.  *)
Confidence(h) == Max({0, h.conf - h.haircut})

(* dup_similarity, of headlines that share their words or do not.          *)
Duplicate(b, h, t) ==
  LET prev == b.signal[<<h.mkt, h.side>>]
  IN prev.at >= 0 /\ t - prev.at < DupWindow /\ prev.words = h.words

(* Realized today, without funding, as the live gate counts it.            *)
Realized(b, t) ==
  SumFunctionOnSet([k \in DOMAIN b.trades |-> b.trades[k].pnl + b.trades[k].fund],
    {k \in DOMAIN b.trades : b.trades[k].till <= t /\ Day(b.trades[k].till) = Day(t)})

(* scale_notional, premarket_factor, the clamp to the room left, and the   *)
(* rounding to the size precision of the market.                           *)
Room(b, t) == MaxExposure - Notional(b, OpenAt(b, t))
Rounded(n) == ((2 * n + Lot) \div (2 * Lot)) * Lot
Size(b, h, t, conf) ==
  LET n == Tiers[conf] IN Rounded(IF mode = "alone" THEN n ELSE Min({n, Room(b, t)}))

(* funding_cost: none for a short hold, none if it cannot be had.          *)
FundingCost(h, hold, ok) == IF hold <= MinHold \/ ~ok THEN 0 ELSE h.fund

(* Contrary news on an open position, on the raw confidence.               *)
ContraryTo(b, h, t) ==
  {k \in OpenOn(b, h.mkt, t) : b.trades[k].side # h.side /\ h.conf >= ContraryMin}

Truncated(b, k, t, ok) ==
  LET h    == news[b.trades[k].item]
      fund == FundingCost(h, t - b.trades[k].from, ok)
  IN [b EXCEPT !.trades[k] = [@ EXCEPT !.till = t, !.fund = fund, !.pnl = h.cut - fund],
               !.till[h.mkt] = t]

Noted(b, h, t) == [b EXCEPT !.signal[<<h.mkt, h.side>>] = [at |-> t, words |-> h.words]]

Latched(b, t) ==
  IF Realized(b, t) <= -Limit THEN [b EXCEPT !.halted = @ \cup {Day(t)}] ELSE b

Cooling(b, h, t) == b.last[h.mkt] >= 0 /\ t - b.last[h.mkt] < Cooldown

CappedByCount(b, h, t) ==
  \/ Day(t) \in b.halted
  \/ Cardinality({m \in Markets : b.till[m] > t}) >= MaxOpen
  \/ Cooling(b, h, t)
  \/ Room(b, t) < MinOrder                                          \* mutant
Capped(b, h, t) ==
  \/ Day(t) \in b.halted
  \/ b.till[h.mkt] > t
  \/ Cardinality({m \in Markets : b.till[m] > t}) >= MaxOpen
  \/ Cooling(b, h, t)
  \/ Room(b, t) < MinOrder

(* An entry, if there are candles and the size does not round to nothing.  *)
Entered(b, i, t, conf, env) ==
  LET h    == news[i]
      size == Size(b, h, t, conf)
      fund == FundingCost(h, h.hold, env.funding)
  IN IF ~env.candles \/ conf = 0 \/ size <= 0 THEN b
     ELSE [b EXCEPT !.trades = Append(@, [item |-> i, mkt |-> h.mkt, side |-> h.side,
                                          size |-> size, from |-> t, till |-> t + h.hold,
                                          pnl |-> h.pnl - fund, fund |-> fund]),
                    !.last[h.mkt] = t, !.till[h.mkt] = t + h.hold]

(* The skeptic: a veto rejects, agreement takes the lower confidence; it   *)
(* fails open.                                                             *)
Confirmed(h, conf, env) ==
  IF ~env.confirm THEN conf
  ELSE IF ~h.agree \/ Min({conf, h.second}) < ConfirmGate THEN 0 ELSE Min({conf, h.second})

JudgedInReplay(b, i, env) ==
  LET h    == news[i]
      t    == Times[i]
      conf == Confidence(h)
      s    == Noted(b, h, t)
      l    == Latched(s, t)
  IN IF ~h.tradable THEN b
     ELSE IF ContraryTo(b, h, t) # {} /\ env.candles
     THEN Truncated(b, CHOOSE k \in ContraryTo(b, h, t) : TRUE, t, env.funding)
     ELSE IF Duplicate(b, h, t) \/ conf < Gate THEN s
     ELSE IF Capped(l, h, t) \/ h.moved THEN l
     ELSE Entered(l, i, t, Confirmed(h, conf, env), env)

JudgedAlone(b, i, env) ==
  LET h == news[i] IN
  IF ~h.tradable \/ Confidence(h) < Gate \/ Cooling(b, h, Times[i]) \/ h.moved THEN b
  ELSE Entered(b, i, Times[i], Confidence(h), env)

Judged(b, i, env) ==
  IF mode = "alone" THEN JudgedAlone(b, i, env) ELSE JudgedInReplay(b, i, env)

(* Does the judgement reach the skeptic?                                   *)
AsksSkeptic(b, i) ==
  LET h == news[i] IN
  /\ mode = "replay" /\ h.tradable /\ ContraryTo(b, h, Times[i]) = {}
  /\ ~Duplicate(b, h, Times[i]) /\ Confidence(h) >= Gate
  /\ ~Capped(Latched(b, Times[i]), h, Times[i]) /\ ~h.moved
-----------------------------------------------------------------------------
(***************************************************************************)
(* The run.                                                                *)
(***************************************************************************)

(* build_regime_timeline: the missing briefs are written together, once    *)
(* all of them are there; if one fails the run ends.                       *)
TimelineAnew == [b \in Boundaries |-> run]                           \* mutant
Timeline == [b \in Boundaries |-> IF briefs[b] = 0 THEN run ELSE briefs[b]]

BuildRegime ==
  /\ phase = "regime"
  /\ phase' = "run"
  /\ briefs' = IF mode = "alone" THEN briefs ELSE Timeline
  /\ UNCHANGED <<mode, news, at, cache, disk, confirmed, book, tried, fails, done,
                 dirty, clean, run, faults>>

RegimeFails ==
  /\ phase = "regime"
  /\ mode = "replay"
  /\ \E b \in Boundaries : briefs[b] = 0
  /\ Fault("regime")
  /\ phase' = "failed"
  /\ UNCHANGED <<mode, news, at, cache, files, book, tried, fails, done, dirty, clean,
                 run>>

(* What the analyzer is told with headline i: the brief of its boundary    *)
(* and the entries of the last days.                                       *)
Context(i) ==
  [brief  |-> IF mode = "alone" THEN 0 ELSE briefs[Boundary(Times[i])],
   memory |-> IF mode = "alone" THEN {}
              ELSE {j \in {book.trades[k].item : k \in DOMAIN book.trades} :
                      Times[i] - Times[j] < MemWindow},
   error  |-> FALSE]

(* analyze_all asks for any of the missing ones, once the first has warmed *)
(* the prompt cache; the replay asks for the one it is at.                 *)
Missing == {i \in Items : cache[i] = None}
Asks(i) ==
  /\ phase = "run"
  /\ i \in Missing \ tried
  /\ IF mode = "replay" THEN i = at ELSE tried = {} => i = Min(Missing)
  /\ tried' = tried \cup {i}

AnalyzeOk ==
  \E i \in Items :
    /\ Asks(i)
    /\ cache' = [cache EXCEPT ![i] = Context(i)]
    /\ fails' = 0
    /\ done' = (done + 1) % SaveEvery
    /\ disk' = IF done' = 0 THEN cache' ELSE disk
    /\ UNCHANGED <<mode, news, phase, at, briefs, confirmed, book, dirty, clean, run, faults>>

(* A failed call is not cached; too many in a row end the run, saved.      *)
KeptError(i) == [cache EXCEPT ![i] = [Context(i) EXCEPT !.error = TRUE]] \* mutant
Kept(i)      == cache
AnalyzeFails ==
  \E i \in Items :
    /\ Asks(i)
    /\ Fault("analysis")
    /\ cache' = Kept(i)
    /\ fails' = fails + 1
    /\ IF fails' >= MaxFails
       THEN phase' = "failed" /\ disk' = cache' ELSE UNCHANGED <<phase, disk>>
    /\ dirty' = TRUE
    /\ clean' = FALSE
    /\ UNCHANGED <<mode, news, at, briefs, confirmed, book, done, run>>

Ready == /\ phase = "run" /\ at \in Items
         /\ IF mode = "alone" THEN Missing \subseteq tried ELSE at \in tried \/ at \notin Missing

Perfect == [candles |-> TRUE, funding |-> TRUE, confirm |-> TRUE]

(* A headline is judged under what could be fetched.  The verdict of the   *)
(* skeptic is saved at once, and asked again only if there was none.       *)
Judge ==
  /\ Ready
  /\ at' = at + 1
  /\ IF at \in Missing \/ cache[at].error THEN UNCHANGED <<book, confirmed, dirty, clean, faults>>
     ELSE \/ /\ book' = Judged(book, at, Perfect)
             /\ confirmed' = IF AsksSkeptic(book, at) THEN confirmed \cup {at} ELSE confirmed
             /\ UNCHANGED <<dirty, clean, faults>>
          \/ \E f \in {"candles", "funding", "confirm"} :
               /\ Fault(f)
               /\ f = "confirm" => at \notin confirmed
               /\ book' = Judged(book, at, [Perfect EXCEPT ![f] = FALSE])
               /\ dirty' = (dirty \/ f # "funding")
               /\ clean' = (clean /\ f = "funding")
               /\ UNCHANGED confirmed
  /\ disk' = IF mode = "alone" THEN cache ELSE disk      \* saved before the loop
  /\ UNCHANGED <<mode, news, phase, cache, briefs, tried, fails, done, run>>

Finish ==
  /\ phase = "run"
  /\ at \notin Items
  /\ phase' = "done"
  /\ disk' = cache
  /\ UNCHANGED <<mode, news, at, cache, briefs, confirmed, book, tried, fails, done,
                 dirty, clean, run, faults>>

(* The command is given again, or the process dies and it is.              *)
Again ==
  /\ phase \in {"done", "failed"}
  /\ run < MaxRuns
  /\ Fresh
  /\ UNCHANGED <<mode, news, files, clean, faults>>

Crash ==
  /\ phase \in {"regime", "run"}
  /\ run < MaxRuns
  /\ Fault("crash")
  /\ Fresh
  /\ UNCHANGED <<mode, news, files, clean>>

Next == \/ BuildRegime \/ RegimeFails \/ AnalyzeOk \/ AnalyzeFails
        \/ Judge \/ Finish \/ Again \/ Crash

Spec == Init /\ [][Next]_vars
-----------------------------------------------------------------------------
(* Every verdict the loop acts on was asked under the brief of its         *)
(* boundary and, if no call ever failed, with the memory the replay has at *)
(* that point - also when an earlier run paid for it and died ("faithful   *)
(* replay ... deterministic + cached", engine.py:1014-1016).               *)
JudgedInContext ==
  Ready /\ at \notin Missing =>
    /\ cache[at].brief = Context(at).brief
    /\ clean => cache[at].memory = Context(at).memory

(* A run that ends without a failed call has made the same entries and     *)
(* exits as one that was never interrupted, whatever runs before it failed *)
(* or died and whichever funding rates could not be had.                   *)
Uninterrupted[n \in 0 .. Len(Times)] ==
  IF n = 0 THEN EmptyBook ELSE Judged(Uninterrupted[n - 1], n, Perfect)

Entries(b) ==
  [k \in DOMAIN b.trades |-> [item |-> b.trades[k].item, size |-> b.trades[k].size,
                              from |-> b.trades[k].from, till |-> b.trades[k].till]]
ResumeConverges ==
  phase = "done" /\ ~dirty =>
    Entries(book) = Entries(Uninterrupted[Len(Times)])

(* The trades of a replay respect the portfolio's limits at every entry,   *)
(* contrary exits included: one position per market, the concurrency cap,  *)
(* the budget but for one rounding, the cooldown, and no entry on a day    *)
(* whose realized loss has reached the limit.                              *)
PortfolioSound ==
  mode = "replay" =>
    \A k \in DOMAIN book.trades :
      LET tr == book.trades[k]
          o  == {j \in DOMAIN book.trades : j <= k /\ book.trades[j].till > tr.from}
      IN /\ \A j \in 1 .. k - 1 : book.trades[j].mkt = tr.mkt =>
              book.trades[j].till <= tr.from /\ book.trades[j].from + Cooldown <= tr.from
         /\ Cardinality(o \cup {k}) <= MaxOpen
         /\ 2 * Notional(book, o) <= 2 * MaxExposure + Lot
         /\ Realized(book, tr.from) > -Limit

(* What the daily loss has counted as realized is final: no later contrary *)
(* exit changes a trade that has ended.                                    *)
RealizedIsFinal ==
  [][run' = run /\ at \in Items => \A k \in DOMAIN book.trades :
       book.trades[k].till <= Times[at] => book'.trades[k] = book.trades[k]]_vars
=============================================================================
