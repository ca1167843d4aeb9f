---------------------------- MODULE PositionBook ----------------------------
(***************************************************************************)
(* The life of a position: opened by the pipeline's trade section          *)
(* (pipeline.py, executor.py), watched and closed by the monitor loop      *)
(* (position_manager.py), closed early by the UI, the Telegram bot or a    *)
(* contrary headline (force_close), persisted in SQLite and, when live,    *)
(* mirrored on the exchange.                                               *)
(*                                                                         *)
(* Everything runs on one asyncio loop, so an action is what happens       *)
(* between two awaits that can really suspend.  Orders run in a worker     *)
(* thread: what the exchange does with one (ExecuteOpen, ExecuteClose) is  *)
(* a step of its own between the request and the reply.  The store is one  *)
(* FIFO connection, so an upsert takes effect, or fails, when it is        *)
(* issued, and the caller hears of it later.                               *)
(***************************************************************************)
EXTENDS Naturals, FiniteSets, FiniteSetsExt

CONSTANTS
  Ids,          \* position ids (uuid4 in the code: each is used once)
  Markets,      \* tradable markets
  NoMarket,     \* the market of a Position object that does not exist yet
  Users,        \* concurrent callers of force_close other than the pipeline
  Modes,        \* the modes the operator may select: {"live"}, {"paper"} or both
  MaxLots,      \* largest size the gate computes for one entry, in lots
  MaxOpen,      \* risk.max_concurrent_positions
  MaxExposure,  \* risk.max_total_exposure_usd, in lots
  ContraryExit, \* risk.contrary_exit_min_confidence > 0
  Faults,       \* kinds of fault the environment may produce
  MaxFaults     \* bound: how many faults one behaviour may contain

FaultKinds == { "crash",    \* the process dies between two steps
                "db",       \* store.upsert_position raises
                "mid",      \* hl.mid raises
                "fetch",    \* hl.position_state raises
                "glitch",   \* hl.position_state returns a well-formed empty book
                "partial",  \* an IOC order fills only partly
                "reject",   \* an order is rejected
                "lost",     \* an order executes, or not, and its response is lost
                "stop" }    \* the protective stop does not rest

ASSUME ConstantsAssumption ==
  /\ IsFiniteSet(Ids)
  /\ NoMarket \notin Markets
  /\ {"monitor", "trader"} \cap Users = {}
  /\ Modes \subseteq {"paper", "live"}
  /\ MaxLots \in Nat /\ MaxOpen \in Nat /\ MaxExposure \in Nat
  /\ ContraryExit \in BOOLEAN
  /\ Faults \subseteq FaultKinds
  /\ MaxFaults \in Nat

Closers == Users \cup {"monitor", "trader"}

(* models.Position, less what no property here tells apart.  realized is   *)
(* the number of lots whose PnL has been booked (partial_pnl_usd, pnl_usd).*)
Position == [ mkt      : Markets \cup {NoMarket},
              mode     : {"paper", "live"},
              status   : {"unused", "open", "closed"},
              size     : Nat,
              stop     : BOOLEAN,
              realized : Nat ]

Unused == [ mkt |-> NoMarket, mode |-> "paper", status |-> "unused",
            size |-> 0, stop |-> FALSE, realized |-> 0 ]

VARIABLES
  up,       \* the process is running
  pos,      \* Position objects in memory
  open,     \* PositionManager._open
  closing,  \* PositionManager._closing
  misses,   \* PositionManager._absent
  row,      \* the positions table
  exch,     \* lots held on the exchange, per market
  resting,  \* reduce-only stops resting on the exchange, per market
  due,      \* positions whose time_exit_ms has passed
  trader,   \* the pipeline's trade section, which holds _trade_lock unless idle
  closer,   \* one executor.close (or mark_closed) in flight per caller
  monitor,  \* PositionManager.run
  faults    \* faults so far

memory   == <<pos, open, closing, misses>>
exchange == <<exch, resting>>
tasks    == <<trader, closer, monitor>>
vars     == <<up, memory, row, exchange, due, tasks, faults>>

TraderIdle  == [pc |-> "idle", mkt |-> NoMarket, id |-> "none", lots |-> 0]
CloserIdle  == [pc |-> "idle", id |-> "none", fill |-> 0]
MonitorIdle == [pc |-> "idle", left |-> {}, id |-> "none",
                known |-> FALSE, seen |-> {}, glitched |-> FALSE]

Live(id) == pos[id].mode = "live"
HasOpenExitingApart(m) == \E id \in open \ closing : pos[id].mkt = m  \* mutant
HasOpen(m) == \E id \in open : pos[id].mkt = m
LiveOpen == {id \in open : Live(id)}
LiveIn(m) == {id \in open : Live(id) /\ pos[id].mkt = m}
TotalExposure == MapThenSumSet(LAMBDA id : pos[id].size, open)

(* risk.max_concurrent_positions and the exposure budget, as the gate      *)
(* reads them.                                                             *)
BelowCap == Cardinality(open) < MaxOpen
WithinBudgetAlone(lots) == lots <= MaxExposure                      \* mutant
WithinBudget(lots) == lots + TotalExposure <= MaxExposure

(* Consecutive polls a live position must be absent from to count as gone. *)
DebounceOnce == 1                                                   \* mutant
Debounce == 2

Fault(f) == f \in Faults /\ faults < MaxFaults /\ faults' = faults + 1
NoFault  == UNCHANGED faults

Init ==
  /\ up = TRUE
  /\ pos = [id \in Ids |-> Unused]
  /\ open = {}
  /\ closing = {}
  /\ misses = [id \in Ids |-> 0]
  /\ row = [id \in Ids |-> Unused]
  /\ exch = [m \in Markets |-> 0]
  /\ resting = [m \in Markets |-> {}]
  /\ due = {}
  /\ trader = TraderIdle
  /\ closer = [c \in Closers |-> CloserIdle]
  /\ monitor = MonitorIdle
  /\ faults = 0
-----------------------------------------------------------------------------
(* store.upsert_position: it either writes the object as it now stands or  *)
(* raises and leaves the row alone.                                        *)
UpsertOk(id, record) == row' = [row EXCEPT ![id] = record] /\ NoFault
UpsertRaises == Fault("db") /\ UNCHANGED row

(***************************************************************************)
(* Opening: Pipeline._trade -> RiskEngine.evaluate -> Executor.open.       *)
(***************************************************************************)
TraderFree == up /\ trader.pc = "idle" /\ closer["trader"].pc = "idle"

(* A headline takes the trade lock; evaluate awaits realized_pnl_today.    *)
StartTrade(m) ==
  /\ TraderFree
  /\ trader' = [TraderIdle EXCEPT !.pc = "gate", !.mkt = m]
  /\ UNCHANGED <<up, memory, row, exchange, due, closer, monitor, faults>>

(* The portfolio caps, read after that await; then evaluate awaits the     *)
(* price, the candles, the book and the skeptic.                           *)
PassCaps ==
  /\ up /\ trader.pc = "gate"
  /\ ~HasOpen(trader.mkt)
  /\ BelowCap
  /\ trader' = [trader EXCEPT !.pc = "quote"]
  /\ UNCHANGED <<up, memory, row, exchange, due, closer, monitor, faults>>

(* Any of evaluate's rejections.                                           *)
RejectTrade ==
  /\ up /\ trader.pc \in {"gate", "quote"}
  /\ trader' = TraderIdle
  /\ UNCHANGED <<up, memory, row, exchange, due, closer, monitor, faults>>

(* The size is clamped to the exposure budget left, and Executor.open      *)
(* builds the Position in the mode the runtime flag now has.  A live entry *)
(* sends a market order, a paper entry goes straight to the store.         *)
SendOrder(id, lots, mode) ==
  /\ up /\ trader.pc = "quote"
  /\ pos[id].status = "unused"
  /\ WithinBudget(lots)
  /\ pos' = [pos EXCEPT ![id] =
       [Unused EXCEPT !.mkt = trader.mkt, !.mode = mode,
                      !.status = "open", !.size = lots]]
  /\ trader' = [trader EXCEPT !.pc = IF mode = "live" THEN "sent" ELSE "placed",
                              !.id = id, !.lots = lots]
  /\ UNCHANGED <<up, open, closing, misses, row, exchange, due, closer,
                 monitor, faults>>

(* What the exchange makes of the market_open order: a fill, whole or      *)
(* partial, a rejection, or an error after it executed or did not.         *)
ExecuteOpen ==
  /\ up /\ trader.pc = "sent"
  /\ \E fill \in 0 .. trader.lots :
       /\ \/ /\ fill = trader.lots /\ NoFault
             /\ trader' = [trader EXCEPT !.pc = "replied", !.lots = fill]
          \/ /\ fill \in 1 .. trader.lots - 1 /\ Fault("partial")
             /\ trader' = [trader EXCEPT !.pc = "replied", !.lots = fill]
          \/ /\ fill = 0 /\ Fault("reject")
             /\ trader' = [trader EXCEPT !.pc = "replied", !.lots = fill]
          \/ /\ fill \in {0, trader.lots} /\ Fault("lost")
             /\ trader' = [trader EXCEPT !.pc = "verify"]
       /\ exch' = [exch EXCEPT ![trader.mkt] = @ + fill]
  /\ UNCHANGED <<up, memory, row, resting, due, closer, monitor>>

(* The size of the position becomes the size filled; nothing filled means  *)
(* no position.                                                            *)
OpenReply ==
  /\ up /\ trader.pc = "replied"
  /\ IF trader.lots = 0
     THEN trader' = TraderIdle /\ UNCHANGED pos
     ELSE /\ trader' = [trader EXCEPT !.pc = "placing"]
          /\ pos' = [pos EXCEPT ![trader.id].size = trader.lots]
  /\ UNCHANGED <<up, open, closing, misses, row, exchange, due, closer,
                 monitor, faults>>

(* _find_untracked_fill: after an errored order, adopt whatever the        *)
(* exchange holds on this market; when it cannot be asked, or answers with *)
(* an empty book, the order counts as failed.                              *)
VerifyOrder ==
  LET held == exch[trader.mkt] IN
  /\ up /\ trader.pc = "verify"
  /\ \/ /\ held > 0 /\ NoFault
        /\ trader' = [trader EXCEPT !.pc = "placing", !.lots = held]
        /\ pos' = [pos EXCEPT ![trader.id].size = held]
     \/ /\ \/ held = 0 /\ NoFault
           \/ Fault("fetch")
           \/ Fault("glitch")
        /\ trader' = TraderIdle
        /\ UNCHANGED pos
  /\ UNCHANGED <<up, open, closing, misses, row, exchange, due, closer, monitor>>

(* _place_exchange_stop: best effort, its failure does not abort the entry.*)
PlaceStop ==
  /\ up /\ trader.pc = "placing"
  /\ \/ /\ NoFault
        /\ resting' = [resting EXCEPT ![trader.mkt] = @ \cup {trader.id}]
        /\ pos' = [pos EXCEPT ![trader.id].stop = TRUE]
     \/ /\ Fault("stop")
        /\ UNCHANGED <<resting, pos>>
  /\ trader' = [trader EXCEPT !.pc = "placed"]
  /\ UNCHANGED <<up, open, closing, misses, row, exch, due, closer, monitor>>

(* The new position is persisted; a failure is logged and ignored.         *)
PersistOpen ==
  /\ up /\ trader.pc = "placed"
  /\ UpsertOk(trader.id, pos[trader.id]) \/ UpsertRaises
  /\ trader' = [trader EXCEPT !.pc = "persisted"]
  /\ UNCHANGED <<up, memory, exchange, due, closer, monitor>>

(* trade.open is published, the manager tracks the position and the lock   *)
(* is released.                                                            *)
Track ==
  /\ up /\ trader.pc = "persisted"
  /\ open' = open \cup {trader.id}
  /\ trader' = TraderIdle
  /\ UNCHANGED <<up, pos, closing, misses, row, exchange, due, closer,
                 monitor, faults>>
-----------------------------------------------------------------------------
(***************************************************************************)
(* Closing: Executor.close and mark_closed, on behalf of closer c.         *)
(***************************************************************************)

(* The caller adds the id to _closing and calls Executor.close, which      *)
(* sends a market_close order for a live position and, for a paper one,    *)
(* awaits at most a price.                                                 *)
BeginClose(c, id) ==
  /\ closing' = closing \cup {id}
  /\ closer' = [closer EXCEPT ![c] =
       [pc |-> IF Live(id) THEN "sent" ELSE "record", id |-> id, fill |-> 0]]

(* force_close's guard, then its call.  A user names a tracked position.   *)
ForceClose(c, id) ==
  /\ closer[c].pc = "idle"
  /\ id \in open
  /\ id \notin closing
  /\ BeginClose(c, id)

UserClose(u, id) ==
  /\ up
  /\ ForceClose(u, id)
  /\ UNCHANGED <<up, pos, open, misses, row, exchange, due, trader, monitor,
                 faults>>

(* The contrary-news exit runs inside the trade section, before the gate.  *)
ContraryClose(id) ==
  /\ ContraryExit
  /\ TraderFree
  /\ ForceClose("trader", id)
  /\ UNCHANGED <<up, pos, open, misses, row, exchange, due, trader, monitor,
                 faults>>

(* The exchange executes market_close, which names a market and no size:   *)
(* it flattens whatever is held there.  A flat market gives no fill.  A    *)
(* whole fill also cancels the market's reduce-only stops.                 *)
ExecuteClose(c) ==
  LET m    == pos[closer[c].id].mkt
      held == exch[m] IN
  /\ up /\ closer[c].pc = "sent"
  /\ \E sold \in 0 .. held, fill \in 0 .. held :
       /\ \/ sold = held /\ fill = held /\ NoFault
          \/ sold \in 1 .. held - 1 /\ fill = sold /\ Fault("partial")
          \/ sold = 0 /\ fill = 0 /\ Fault("reject")
          \/ sold = held /\ fill = 0 /\ Fault("lost")
       /\ exch' = [exch EXCEPT ![m] = held - sold]
       /\ resting' = IF sold = held THEN [resting EXCEPT ![m] = {}] ELSE resting
       /\ closer' = [closer EXCEPT ![c].pc = "replied", ![c].fill = fill]
  /\ UNCHANGED <<up, memory, row, due, trader, monitor>>

(* The caller's finally clause.                                            *)
ReleaseKeepsGuard(c) ==                                             \* mutant
  /\ closing' = closing
  /\ closer' = [closer EXCEPT ![c] = CloserIdle]
Release(c) ==
  /\ closing' = closing \ {closer[c].id}
  /\ closer' = [closer EXCEPT ![c] = CloserIdle]

(* No fill: the position stays tracked.                                    *)
CloseUnfilled(c) ==
  /\ up /\ closer[c].pc = "replied" /\ closer[c].fill = 0
  /\ Release(c)
  /\ UNCHANGED <<up, pos, open, misses, row, exchange, due, trader, monitor,
                 faults>>

(* _record_partial_close's assignments.                                    *)
SlicedSizeKept(id, k) == [pos[id] EXCEPT !.realized = @ + k]        \* mutant
Sliced(id, k) == [pos[id] EXCEPT !.size = @ - k, !.realized = @ + k]

(* A fill smaller than the position: book the slice, keep the rest; a      *)
(* failed upsert is ignored.                                               *)
ClosePartial(c) ==
  LET id == closer[c].id
      k  == closer[c].fill IN
  /\ up /\ closer[c].pc = "replied"
  /\ 0 < k /\ k < pos[id].size
  /\ pos' = [pos EXCEPT ![id] = Sliced(id, k)]
  /\ UpsertOk(id, Sliced(id, k)) \/ UpsertRaises
  /\ closer' = [closer EXCEPT ![c].pc = "booked"]
  /\ UNCHANGED <<up, open, closing, misses, exchange, due, trader, monitor>>

(* A whole fill: the resting stop is cancelled (best effort: on a flat     *)
(* market it is harmless) before the close is recorded.                    *)
CloseFilled(c) ==
  LET id == closer[c].id IN
  /\ up /\ closer[c].pc = "replied"
  /\ closer[c].fill > 0 /\ closer[c].fill >= pos[id].size
  /\ pos' = [pos EXCEPT ![id].stop = FALSE]
  /\ resting' = [resting EXCEPT ![pos[id].mkt] = @ \ {id}]
  /\ closer' = [closer EXCEPT ![c].pc = "record"]
  /\ UNCHANGED <<up, open, closing, misses, row, exch, due, trader, monitor,
                 faults>>

(* _record_close's assignments: the whole remaining size is booked.        *)
RecordedLastSlice(id) ==                                            \* mutant
  [pos[id] EXCEPT !.status = "closed", !.realized = pos[id].size]
Recorded(id) == [pos[id] EXCEPT !.status = "closed", !.realized = @ + pos[id].size]

(* _record_close up to its await: the object becomes closed first, then    *)
(* the row is written.                                                     *)
MarkUnsaved(id) ==                                                  \* mutant
  pos' = [pos EXCEPT ![id] = Recorded(id)] /\ UNCHANGED row /\ NoFault
MarkRecorded(id) ==
  /\ pos' = [pos EXCEPT ![id] = Recorded(id)]
  /\ UpsertOk(id, Recorded(id)) \/ UpsertRaises

(* What the caller sees of that upsert when it resumes.                    *)
UpsertOutcome == IF faults' = faults THEN "saved" ELSE "unsaved"

RecordClose(c) ==
  LET id == closer[c].id IN
  /\ up /\ closer[c].pc = "record"
  /\ IF pos[id].status = "closed"
     THEN /\ closer' = [closer EXCEPT ![c].pc = "saved"]
          /\ UNCHANGED <<pos, row, faults>>
     ELSE /\ MarkRecorded(id)
          /\ closer' = [closer EXCEPT ![c].pc = UpsertOutcome]
  /\ UNCHANGED <<up, open, closing, misses, exchange, due, trader, monitor>>

(* A paper close that was given no price asks for one, which may raise; a  *)
(* raised exception leaves the position tracked and ends a monitor pass.   *)
AbortPass(c) == IF c = "monitor" THEN monitor' = [MonitorIdle EXCEPT
                                                  !.glitched = monitor.glitched]
                                 ELSE UNCHANGED monitor

PaperPriceRaises(c) ==
  /\ up /\ closer[c].pc = "record" /\ ~Live(closer[c].id)
  /\ Fault("mid")
  /\ Release(c)
  /\ AbortPass(c)
  /\ UNCHANGED <<up, pos, open, misses, row, exchange, due, trader>>

(* PositionManager._drop.                                                  *)
Drop(id) ==
  /\ open' = open \ {id}
  /\ misses' = [misses EXCEPT ![id] = 0]

(* The close succeeded: publish trade.close, drop the position.            *)
FinishClose(c) ==
  /\ up /\ closer[c].pc = "saved"
  /\ Drop(closer[c].id)
  /\ Release(c)
  /\ UNCHANGED <<up, pos, row, exchange, due, trader, monitor, faults>>

(* The upsert raised out of close: the position stays tracked.             *)
CloseRaises(c) ==
  /\ up /\ closer[c].pc = "unsaved"
  /\ Release(c)
  /\ AbortPass(c)
  /\ UNCHANGED <<up, pos, open, misses, row, exchange, due, trader, faults>>

(* After a partial fill close returns None.                                *)
FinishPartial(c) ==
  /\ up /\ closer[c].pc = "booked"
  /\ Release(c)
  /\ UNCHANGED <<up, pos, open, misses, row, exchange, due, trader, monitor,
                 faults>>
-----------------------------------------------------------------------------
(***************************************************************************)
(* The monitor loop: _check_all.  A pass visits the tracked positions in   *)
(* no particular order; steps on two positions with no await between them  *)
(* commute, so each is an action.                                          *)
(***************************************************************************)
MonitorAt(pc) == up /\ monitor.pc = pc /\ closer["monitor"].pc = "idle"

(* _position_states.  Nothing is asked when no live position is tracked; a *)
(* failed fetch leaves the answer unknown; a glitch is an empty answer,    *)
(* and never the answer to two polls in a row.                             *)
FetchStates ==
  /\ MonitorAt("idle")
  /\ \/ /\ LiveOpen = {}
        /\ NoFault
        /\ monitor' = [monitor EXCEPT !.pc = "reconcile", !.left = {},
                                      !.known = FALSE, !.seen = {}]
     \/ /\ LiveOpen # {}
        /\ \/ /\ NoFault
              /\ monitor' = [monitor EXCEPT !.pc = "fetched", !.left = LiveOpen,
                                            !.known = TRUE, !.seen = {m \in Markets : exch[m] > 0},
                                            !.glitched = FALSE]
           \/ /\ Fault("glitch") /\ ~monitor.glitched
              /\ monitor' = [monitor EXCEPT !.pc = "fetched", !.left = LiveOpen,
                                            !.known = TRUE, !.seen = {}, !.glitched = TRUE]
           \/ /\ Fault("fetch")
              /\ monitor' = [monitor EXCEPT !.pc = "fetched", !.left = LiveOpen,
                                            !.known = FALSE, !.seen = {}, !.glitched = FALSE]
  /\ UNCHANGED <<up, memory, row, exchange, due, trader, closer>>

(* The reply arrives: reconcile the live positions still tracked.  One     *)
(* tracked since the question is within its grace period of 15 s.          *)
StartReconcile ==
  /\ MonitorAt("fetched")
  /\ monitor' = [monitor EXCEPT !.pc = "reconcile", !.left = @ \cap open]
  /\ UNCHANGED <<up, memory, row, exchange, due, trader, closer, faults>>

(* One position of _reconcile_exchange_closes.  A position may still be in *)
(* its grace period unless an earlier poll found it older, or its time     *)
(* exit, hours later, has passed.                                          *)
ReconcileSkips(id) ==
  \/ ~monitor.known
  \/ id \in closing
  \/ id \notin due /\ misses[id] = 0

ReconcileSkip(id) ==
  /\ MonitorAt("reconcile") /\ id \in monitor.left
  /\ ReconcileSkips(id)
  /\ monitor' = [monitor EXCEPT !.left = @ \ {id}]
  /\ UNCHANGED <<up, memory, row, exchange, due, trader, closer, faults>>

ReconcilePresent(id) ==
  /\ MonitorAt("reconcile") /\ id \in monitor.left
  /\ monitor.known /\ id \notin closing
  /\ pos[id].mkt \in monitor.seen
  /\ misses' = [misses EXCEPT ![id] = 0]
  /\ monitor' = [monitor EXCEPT !.left = @ \ {id}]
  /\ UNCHANGED <<up, pos, open, closing, row, exchange, due, trader, closer,
                 faults>>

(* Absent for the first time: wait for a second poll.                      *)
ReconcileMiss(id) ==
  /\ MonitorAt("reconcile") /\ id \in monitor.left
  /\ monitor.known /\ id \notin closing
  /\ pos[id].mkt \notin monitor.seen
  /\ misses[id] + 1 < Debounce
  /\ misses' = [misses EXCEPT ![id] = misses[id] + 1]
  /\ monitor' = [monitor EXCEPT !.left = @ \ {id}]
  /\ UNCHANGED <<up, pos, open, closing, row, exchange, due, trader, closer,
                 faults>>

(* Absent again: mark_closed records the close and sends no order.         *)
ReconcileGone(id) ==
  /\ MonitorAt("reconcile") /\ id \in monitor.left
  /\ monitor.known /\ id \notin closing
  /\ pos[id].mkt \notin monitor.seen
  /\ misses[id] + 1 >= Debounce
  /\ misses' = [misses EXCEPT ![id] = 2]
  /\ IF pos[id].status = "closed"
     THEN /\ closer' = [closer EXCEPT !["monitor"] =
                         [pc |-> "marked", id |-> id, fill |-> 0]]
          /\ UNCHANGED <<pos, row, faults>>
     ELSE /\ MarkRecorded(id)
          /\ closer' = [closer EXCEPT !["monitor"] =
               [pc |-> IF UpsertOutcome = "saved" THEN "marked" ELSE "unmarked",
                id |-> id, fill |-> 0]]
  /\ monitor' = [monitor EXCEPT !.left = @ \ {id}]
  /\ UNCHANGED <<up, open, closing, exchange, due, trader>>

FinishMark ==
  /\ up /\ closer["monitor"].pc \in {"marked", "unmarked"}
  /\ IF closer["monitor"].pc = "marked" THEN Drop(closer["monitor"].id)
                                        ELSE UNCHANGED <<open, misses>>
  /\ closer' = [closer EXCEPT !["monitor"] = CloserIdle]
  /\ UNCHANGED <<up, pos, closing, row, exchange, due, trader, monitor, faults>>

(* The second loop starts: a copy of the tracked positions.                *)
StartScan ==
  /\ MonitorAt("reconcile") /\ monitor.left = {}
  /\ monitor' = [monitor EXCEPT !.pc = "scan", !.left = open]
  /\ UNCHANGED <<up, memory, row, exchange, due, trader, closer, faults>>

(* A position with a close in flight is skipped; for any other the monitor *)
(* awaits its funding rate and its price.                                  *)
ScanSkip(id) ==
  /\ MonitorAt("scan") /\ id \in monitor.left
  /\ id \in closing
  /\ monitor' = [monitor EXCEPT !.left = @ \ {id}]
  /\ UNCHANGED <<up, memory, row, exchange, due, trader, closer, faults>>

ScanAsk(id) ==
  /\ MonitorAt("scan") /\ id \in monitor.left
  /\ id \notin closing
  /\ monitor' = [monitor EXCEPT !.pc = "price", !.left = @ \ {id}, !.id = id]
  /\ UNCHANGED <<up, memory, row, exchange, due, trader, closer, faults>>

(* _exit_reason: the time exit always fires, a price exit may.             *)
ScanExit ==
  /\ MonitorAt("price")
  /\ BeginClose("monitor", monitor.id)
  /\ monitor' = [monitor EXCEPT !.pc = "scan", !.id = "none"]
  /\ UNCHANGED <<up, pos, open, misses, row, exchange, due, trader, faults>>

(* No exit: a new peak is persisted, whatever becomes of the write.        *)
ScanKeep ==
  /\ MonitorAt("price")
  /\ monitor.id \notin due
  /\ \/ UpsertOk(monitor.id, pos[monitor.id])
     \/ UpsertRaises
     \/ UNCHANGED row /\ NoFault
  /\ monitor' = [monitor EXCEPT !.pc = "scan", !.id = "none"]
  /\ UNCHANGED <<up, memory, exchange, due, trader, closer>>

(* hl.mid raises: run() catches it, so the rest of the pass is skipped.    *)
ScanRaises ==
  /\ MonitorAt("price")
  /\ Fault("mid")
  /\ AbortPass("monitor")
  /\ UNCHANGED <<up, memory, row, exchange, due, trader, closer>>

EndScan ==
  /\ MonitorAt("scan") /\ monitor.left = {}
  /\ monitor' = [MonitorIdle EXCEPT !.glitched = monitor.glitched]
  /\ UNCHANGED <<up, memory, row, exchange, due, trader, closer, faults>>
-----------------------------------------------------------------------------
(***************************************************************************)
(* The world: time, the exchange acting on its own, crash and restart.     *)
(***************************************************************************)
Expire(id) ==
  /\ id \in open \ due
  /\ due' = due \cup {id}
  /\ UNCHANGED <<up, memory, row, exchange, tasks, faults>>

(* A resting stop fires, the position is liquidated or closed by hand.     *)
ExchangeFlattens(m) ==
  /\ exch[m] > 0
  /\ exch' = [exch EXCEPT ![m] = 0]
  /\ resting' = [resting EXCEPT ![m] = {}]
  /\ UNCHANGED <<up, memory, row, due, tasks, faults>>

(* The process dies, or is shut down between two awaits of the monitor:    *)
(* what is in memory is gone.  Position objects are left as they were, to  *)
(* be read by nobody.                                                      *)
Crash ==
  /\ up
  /\ Fault("crash")
  /\ up' = FALSE
  /\ open' = {}
  /\ closing' = {}
  /\ misses' = [id \in Ids |-> 0]
  /\ trader' = TraderIdle
  /\ closer' = [c \in Closers |-> CloserIdle]
  /\ monitor' = MonitorIdle
  /\ UNCHANGED <<pos, row, exchange, due>>

(* PositionManager.restore: every row still 'open' is tracked again.       *)
OpenRows == {id \in Ids : row[id].status = "open"}

Restart ==
  /\ ~up
  /\ up' = TRUE
  /\ open' = OpenRows
  /\ pos' = [id \in Ids |-> IF id \in OpenRows THEN row[id] ELSE pos[id]]
  /\ UNCHANGED <<closing, misses, row, exchange, due, tasks, faults>>

-----------------------------------------------------------------------------
(* The trade section once it holds the lock.                               *)
TraderStep ==
  \/ PassCaps
  \/ RejectTrade
  \/ \E id \in Ids, lots \in 1 .. MaxLots, mode \in Modes : SendOrder(id, lots, mode)
  \/ ExecuteOpen
  \/ OpenReply
  \/ VerifyOrder
  \/ PlaceStop
  \/ PersistOpen
  \/ Track

(* A close once it has begun.                                              *)
CloserStep(c) ==
  \/ ExecuteClose(c)
  \/ CloseUnfilled(c)
  \/ ClosePartial(c)
  \/ CloseFilled(c)
  \/ RecordClose(c)
  \/ PaperPriceRaises(c)
  \/ FinishClose(c)
  \/ CloseRaises(c)
  \/ FinishPartial(c)

MonitorStep ==
  \/ FetchStates
  \/ StartReconcile
  \/ \E id \in Ids : \/ ReconcileSkip(id)
                     \/ ReconcilePresent(id)
                     \/ ReconcileMiss(id)
                     \/ ReconcileGone(id)
                     \/ ScanSkip(id)
                     \/ ScanAsk(id)
  \/ FinishMark
  \/ StartScan
  \/ ScanExit
  \/ ScanKeep
  \/ ScanRaises
  \/ EndScan

Request ==
  \/ \E m \in Markets : StartTrade(m)
  \/ \E id \in Ids : ContraryClose(id) \/ \E u \in Users : UserClose(u, id)

World ==
  \/ \E id \in Ids : Expire(id)
  \/ \E m \in Markets : ExchangeFlattens(m)
  \/ Crash

Next ==
  \/ Request
  \/ TraderStep
  \/ \E c \in Closers : CloserStep(c)
  \/ MonitorStep
  \/ World
  \/ Restart

Spec == Init /\ [][Next]_vars

(* Fairness: the event loop runs every ready task, a request to the        *)
(* exchange is answered, and the supervisor restarts the process.  Nobody  *)
(* has to send a headline, close by hand, or let the exchange act.         *)
FairSpec ==
  /\ Spec
  /\ WF_vars(TraderStep)
  /\ \A c \in Closers : WF_vars(CloserStep(c))
  /\ WF_vars(MonitorStep)
  /\ WF_vars(Restart)

-----------------------------------------------------------------------------
TraderState ==
  [ pc   : {"idle", "gate", "quote", "sent", "replied", "verify", "placing",
            "placed", "persisted"},
    mkt  : Markets \cup {NoMarket},
    id   : Ids \cup {"none"},
    lots : Nat ]

CloserState ==
  [ pc   : {"idle", "sent", "replied", "booked", "record", "saved", "unsaved",
            "marked", "unmarked"},
    id   : Ids \cup {"none"},
    fill : Nat ]

MonitorState ==
  [ pc       : {"idle", "fetched", "reconcile", "scan", "price"},
    left     : SUBSET Ids,
    id       : Ids \cup {"none"},
    known    : BOOLEAN,
    seen     : SUBSET Markets,
    glitched : BOOLEAN ]

MemoryOK ==
  /\ pos \in [Ids -> Position]
  /\ open \in SUBSET Ids
  /\ closing \in SUBSET Ids
  /\ misses \in [Ids -> 0 .. 2]

WorldOK ==
  /\ up \in BOOLEAN
  /\ row \in [Ids -> Position]
  /\ exch \in [Markets -> Nat]
  /\ resting \in [Markets -> SUBSET Ids]
  /\ due \in SUBSET Ids
  /\ faults \in Nat

TypeOK ==
  /\ MemoryOK
  /\ WorldOK
  /\ trader \in TraderState
  /\ closer \in [Closers -> CloserState]
  /\ monitor \in MonitorState
-----------------------------------------------------------------------------
(***************************************************************************)
(* Safety.                                                                 *)
(***************************************************************************)

(* Two tracked positions never share a market, whatever headlines, closers *)
(* and crashes do: the gate reads has_open long before track is called.    *)
OneTrackedPerMarket ==
  \A a, b \in open : pos[a].mkt = pos[b].mkt => a = b

(* max_concurrent_positions holds although it is read before the awaits of *)
(* the gate and of the order, and again after a restart.                   *)
CapRespected == Cardinality(open) <= MaxOpen

(* max_total_exposure holds although partial fills, partial closes and     *)
(* adopted fills change sizes after the budget was read.                   *)
ExposureWithinCap == TotalExposure <= MaxExposure

(* An order of ours is on its way to market m, or its result is.           *)
OrderInFlight(m) ==
  \/ trader.mkt = m /\ trader.pc \in {"sent", "replied", "verify", "placing",
                                      "placed", "persisted"}
  \/ \E c \in Closers : /\ closer[c].pc # "idle"
                        /\ pos[closer[c].id].mkt = m

(* With nothing in flight the book and the exchange agree: a market with   *)
(* no tracked position is flat, and one with a position holds exactly its  *)
(* size unless the exchange has already closed it.                         *)
BookMatchesExchange ==
  \A m \in Markets : up /\ ~OrderInFlight(m) =>
    \/ exch[m] = 0
    \/ \E id \in LiveIn(m) : LiveIn(m) = {id} /\ exch[m] = pos[id].size

(* The reconciler never records a close while the exchange still holds the *)
(* position (executor.mark_closed sends no order, so that exposure would   *)
(* be managed by nobody).                                                  *)
NeverReconcileLiveExposure ==
  [][\A id \in Ids : ReconcileGone(id) => exch[pos[id].mkt] = 0]_vars

(* What a restart would restore is what memory holds: every tracked open   *)
(* position has a row with its current size and booked slices, and no row  *)
(* is open for a position that nobody tracks or is about to track.         *)
RowsMirrorBook ==
  up => /\ \A id \in open : pos[id].status = "open" =>
             /\ row[id].status = "open"
             /\ row[id].size = pos[id].size
             /\ row[id].realized = pos[id].realized
        /\ OpenRows \subseteq open \cup {trader.id}

(***************************************************************************)
(* Liveness.                                                               *)
(***************************************************************************)

(* A position past its time exit is eventually closed, on record, across   *)
(* rejected, lost and partial close orders, an exchange that closes it     *)
(* first, prices that cannot be had, and crashes.                          *)
DueIsClosed ==
  \A id \in Ids : id \in open \cap due ~> row[id].status = "closed"

-----------------------------------------------------------------------------
(* The positions table implements the abstract ledger: crashes, restarts,  *)
(* retries and everything in memory are invisible in it.                   *)
Ledger == INSTANCE PositionLedger WITH
  ledger <- [id \in Ids |-> [ status   |-> row[id].status,
                              mkt      |-> row[id].mkt,
                              size     |-> row[id].size,
                              realized |-> row[id].realized ]]

ImplementsLedger == Ledger!Spec
=============================================================================
