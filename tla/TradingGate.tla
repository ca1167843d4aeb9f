---------------------------- MODULE TradingGate -----------------------------
(***************************************************************************)
(* May the bot trade?  RiskEngine.evaluate (risk.py) with the awaits that  *)
(* separate its reading of the halt, of the mode, of the losses of the day *)
(* and of the cooldown from the order; RuntimeState (config.py), which the *)
(* dashboard changes at any time and a restart reads back from its file;   *)
(* and the PnL of positions as the gate sees it.                           *)
(*                                                                         *)
(* One headline is in the gate at a time (_trade_lock).  A position is     *)
(* named by the number of its order; PositionBook has its life in detail.  *)
(* What only depends on the headline or the market is a choice of the gate.*)
(*                                                                         *)
(* The store does what it is asked in order, in a thread of its own, and   *)
(* its callers resume in that order: what a caller knows, what the table   *)
(* holds and what the manager tracks change in three different steps.  A   *)
(* write with its commit, and a query with its fetch, is one request here: *)
(* each asks twice, so that the second requests keep the order of the      *)
(* first.  A position has one closer here (_closing).                      *)
(***************************************************************************)
EXTENDS Integers, Sequences, FiniteSets, FiniteSetsExt

CONSTANTS
  Markets,
  NoMarket,       \* the market of no headline
  Outcomes,       \* what a mark or a close may yield, in units of PnL
  Limit,          \* risk.daily_loss_limit_usd
  Cooldown,       \* risk.per_ticker_cooldown_seconds, in ticks of the clock
  DayLength,      \* a UTC day, in ticks
  TornWrites,     \* whether a crash may interrupt RuntimeState._save
  MaxTime,        \* bound: ticks
  MaxEntries,     \* bound: orders
  MaxCrashes      \* bound: crashes

ASSUME GateAssumption ==
  /\ NoMarket \notin Markets
  /\ Outcomes \subseteq Int
  /\ {Limit, DayLength} \subseteq Nat \ {0}
  /\ {Cooldown, MaxTime, MaxEntries, MaxCrashes} \subseteq Nat
  /\ TornWrites \in BOOLEAN

VARIABLES
  up,          \* the process is running
  now,         \* the clock
  runtime,     \* RuntimeState
  disk,        \* its file
  gate,        \* the headline in the trade section
  row,         \* the positions table
  opened,      \* opened_ms of the newest row of each market, 0 if none
  tracked,     \* PositionManager._open
  mark,        \* PositionManager._last_upnl
  lastEntry,   \* RiskEngine._last_entry_ms, 0 if none
  queue,       \* what the store was asked and its callers wait for, in order
  executed,    \* how much of the queue the store has done
  passed,      \* history: orders sent since trading was halted
  entries,
  crashes

memory == <<runtime, gate, tracked, mark, lastEntry>>
table  == <<row, opened>>
store  == <<queue, executed>>
bounds == <<now, entries, crashes>>
vars   == <<up, memory, disk, table, store, passed, bounds>>

Modes == {"paper", "live"}
Today == 1 + (now \div DayLength)

(* A fresh RuntimeState, in config.yaml's mode.                            *)
Defaults == [mode |-> "paper", halted |-> FALSE, daily |-> FALSE, day |-> 0]
Torn     == [Defaults EXCEPT !.day = -1]     \* a file that does not parse

Orders == 1 .. MaxEntries
NoRow  == [mkt |-> NoMarket, mode |-> "paper", open |-> FALSE, pnl |-> 0, day |-> 0]

(* The query of a headline: since which day, and the rows its answer adds  *)
(* up.                                                                     *)
Idle == [pc |-> "idle", mkt |-> NoMarket, mode |-> "paper", sent |-> 0,
         since |-> 0, answer |-> {}]

Init ==
  /\ up = TRUE
  /\ now = 1
  /\ runtime = Defaults
  /\ disk = Defaults
  /\ gate = Idle
  /\ row = [e \in Orders |-> NoRow]
  /\ opened = [m \in Markets |-> 0]
  /\ tracked = {}
  /\ mark = [e \in Orders |-> 0]
  /\ lastEntry = [m \in Markets |-> 0]
  /\ queue = <<>>
  /\ executed = 0
  /\ passed = 0
  /\ entries = 0
  /\ crashes = 0
-----------------------------------------------------------------------------
(***************************************************************************)
(* RuntimeState: every change is saved at once.                            *)
(***************************************************************************)
Become(rt) ==
  /\ runtime' = rt
  /\ disk' = IF rt = runtime THEN disk ELSE rt
  /\ passed' = IF rt.halted /\ runtime.halted THEN passed ELSE 0

(* halt_daily does not touch a manual halt.                                *)
HaltDailyOverwrites(rt) ==
  [rt EXCEPT !.halted = TRUE, !.daily = TRUE, !.day = Today]        \* mutant
HaltDaily(rt) ==
  IF rt.halted /\ ~rt.daily THEN rt
  ELSE [rt EXCEPT !.halted = TRUE, !.daily = TRUE, !.day = Today]

(* maybe_auto_resume.                                                      *)
Cleared(rt) == [Defaults EXCEPT !.mode = rt.mode]
AutoResumedEarly(rt) == IF rt.halted /\ rt.daily THEN Cleared(rt) ELSE rt \* mutant
AutoResumed(rt) ==
  IF rt.halted /\ rt.daily /\ rt.day # Today THEN Cleared(rt) ELSE rt

(* The dashboard's controls.                                               *)
Operate(rt) ==
  /\ up
  /\ Become(rt)
  /\ UNCHANGED <<up, gate, tracked, mark, lastEntry, table, store, bounds>>

Halt == Operate([Cleared(runtime) EXCEPT !.halted = TRUE])

Resume == runtime.halted /\ Operate(Cleared(runtime))

Toggle == \E mode \in Modes \ {runtime.mode} :
            Operate([runtime EXCEPT !.mode = mode])
-----------------------------------------------------------------------------
(***************************************************************************)
(* The gate.                                                               *)
(***************************************************************************)
BlocksDaily(rt) == rt.halted /\ rt.daily                            \* mutant
Blocks(rt) == rt.halted

At(pc) == gate' = [gate EXCEPT !.pc = pc]
Leave  == gate' = Idle

(* What the store is asked for: the close of a position, with its PnL and  *)
(* its day, or, for order 0, the query of the headline.                    *)
Ask(e, pnl, day) == queue' = Append(queue, [order |-> e, pnl |-> pnl, day |-> day])

Waiting(e) == {i \in DOMAIN queue : queue[i].order = e}

(* The caller whose turn it is resumes.                                    *)
Answered(e) ==
  /\ executed > 0
  /\ Head(queue).order = e
  /\ queue' = Tail(queue)
  /\ executed' = executed - 1

(* A headline on m is turned away, or its gate goes on to ask for the      *)
(* losses of today in the mode of now.                                     *)
Begin(m) ==
  /\ up
  /\ gate = Idle
  /\ Become(AutoResumed(runtime))
  /\ \/ Leave /\ UNCHANGED queue
     \/ /\ ~Blocks(runtime')
        /\ gate' = [Idle EXCEPT !.pc = "reading", !.mkt = m, !.mode = runtime.mode,
                                !.since = Today]
        /\ Ask(0, 0, Today)
  /\ UNCHANGED <<up, tracked, mark, lastEntry, table, executed, bounds>>

(* realized_pnl_today and, when its answer is there, unrealized_pnl.       *)
Placed == {e \in Orders : row[e].mkt # NoMarket}

ClosedSince(mode, day) ==
  {e \in Placed : row[e].mode = mode /\ ~row[e].open /\ row[e].day >= day}

InMode(mode) == {e \in tracked : row[e].mode = mode}

Realized == MapThenSumSet(LAMBDA e : row[e].pnl, gate.answer)
Unrealized(mode) == MapThenSumSet(LAMBDA e : mark[e], InMode(mode))
Loss == Realized + Unrealized(gate.mode)

HasOpen(m) == \E e \in tracked : row[e].mkt = m

CoolingDown(m) == lastEntry[m] # 0 /\ now - lastEntry[m] < Cooldown

CheckLoss ==
  /\ gate.pc = "reading"
  /\ Answered(0)
  /\ Loss <= -Limit
  /\ Become(HaltDaily(runtime))
  /\ Leave
  /\ UNCHANGED <<up, tracked, mark, lastEntry, table, bounds>>

CheckMarket ==
  /\ gate.pc = "reading"
  /\ Answered(0)
  /\ Loss > -Limit
  /\ gate' = IF HasOpen(gate.mkt) \/ CoolingDown(gate.mkt) THEN Idle
             ELSE [Idle EXCEPT !.pc = "pricing", !.mkt = gate.mkt, !.mode = gate.mode]
  /\ UNCHANGED <<up, runtime, disk, passed, tracked, mark, lastEntry, table, bounds>>

(* Price, candles, order book, second opinion, sizing: any may reject.     *)
GuardRejects ==
  /\ gate.pc = "pricing"
  /\ Leave
  /\ UNCHANGED <<up, runtime, disk, passed, tracked, mark, lastEntry, table,
                 store, bounds>>

(* Executor.open takes the mode of now, and the time.                      *)
SendOrder ==
  /\ gate.pc = "pricing"
  /\ entries < MaxEntries
  /\ entries' = entries + 1
  /\ gate' = [gate EXCEPT !.pc = "placing", !.mode = runtime.mode, !.sent = now]
  /\ passed' = IF runtime.halted THEN passed + 1 ELSE passed
  /\ UNCHANGED <<up, runtime, disk, tracked, mark, lastEntry, table, store, now,
                 crashes>>

OrderFails ==
  /\ gate.pc = "placing"
  /\ Leave
  /\ UNCHANGED <<up, runtime, disk, passed, tracked, mark, lastEntry, table,
                 store, bounds>>

OrderFills ==
  /\ gate.pc = "placing"
  /\ At("tracking")
  /\ row' = [row EXCEPT ![entries] =
               [NoRow EXCEPT !.mkt = gate.mkt, !.mode = gate.mode, !.open = TRUE]]
  /\ opened' = [opened EXCEPT ![gate.mkt] = gate.sent]
  /\ UNCHANGED <<up, runtime, disk, passed, tracked, mark, lastEntry, store, bounds>>

Track ==
  /\ gate.pc = "tracking"
  /\ Leave
  /\ tracked' = tracked \cup {entries}
  /\ lastEntry' = [lastEntry EXCEPT ![gate.mkt] = now]
  /\ UNCHANGED <<up, runtime, disk, passed, mark, table, store, bounds>>
-----------------------------------------------------------------------------
(***************************************************************************)
(* Positions: marked by the monitor, closed by it or by others.            *)
(***************************************************************************)
Mark(e) ==
  /\ up
  /\ e \in tracked
  /\ \E pnl \in Outcomes : mark' = [mark EXCEPT ![e] = pnl]
  /\ UNCHANGED <<up, runtime, disk, passed, gate, tracked, lastEntry, table,
                 store, bounds>>

(* The PnL of a close is that of all its parts (executor.py:286), whose own *)
(* is nowhere else before (261); it is dated before it is written, and the *)
(* position is dropped when it is.                                         *)
DroppedAtOnce(e) == tracked \ {e}                                   \* mutant
WhileWritten(e) == tracked

Close(e) ==
  /\ up
  /\ e \in tracked
  /\ Waiting(e) = {}
  /\ \E pnl \in Outcomes : Ask(e, pnl, Today)
  /\ tracked' = WhileWritten(e)
  /\ UNCHANGED <<up, runtime, disk, passed, gate, mark, lastEntry, table, executed, bounds>>

Drop(e) ==
  /\ up
  /\ Answered(e)
  /\ tracked' = tracked \ {e}
  /\ mark' = [mark EXCEPT ![e] = 0]
  /\ UNCHANGED <<up, runtime, disk, passed, gate, lastEntry, table, bounds>>
-----------------------------------------------------------------------------
(***************************************************************************)
(* The store does the first thing it has not done.                         *)
(***************************************************************************)
StoreExecutes ==
  /\ up
  /\ executed < Len(queue)
  /\ executed' = executed + 1
  /\ LET asked == queue[executed + 1]
     IN IF asked.order = 0
        THEN /\ gate' = [gate EXCEPT !.answer = ClosedSince(gate.mode, asked.day)]
             /\ UNCHANGED row
        ELSE /\ row' = [row EXCEPT ![asked.order].open = FALSE,
                                   ![asked.order].pnl = asked.pnl,
                                   ![asked.order].day = asked.day]
             /\ UNCHANGED gate
  /\ UNCHANGED <<up, runtime, disk, passed, tracked, mark, lastEntry, opened, queue, bounds>>
-----------------------------------------------------------------------------
(***************************************************************************)
(* The clock; crash and restart.                                           *)
(***************************************************************************)
Tick ==
  /\ now < MaxTime
  /\ now' = now + 1
  /\ UNCHANGED <<up, memory, disk, passed, table, store, entries, crashes>>

(* The process dies, perhaps while the operator is changing something;     *)
(* what the store has not done is never done.                              *)
Crash ==
  /\ up
  /\ crashes < MaxCrashes
  /\ crashes' = crashes + 1
  /\ up' = FALSE
  /\ disk' \in {disk} \cup (IF TornWrites THEN {Torn} ELSE {})
  /\ gate' = Idle
  /\ queue' = <<>> /\ executed' = 0
  /\ UNCHANGED <<runtime, passed, tracked, mark, lastEntry, table, now, entries>>

(* What _load makes of the file.                                           *)
Loaded == IF disk = Torn THEN Defaults ELSE disk

(* RiskEngine.restore: the newest entry of each market within the cooldown.*)
RestoredNone == [m \in Markets |-> 0]                               \* mutant
Restored == [m \in Markets |-> IF opened[m] >= now - Cooldown THEN opened[m] ELSE 0]

Restart ==
  /\ ~up
  /\ up' = TRUE
  /\ runtime' = Loaded
  /\ tracked' = {e \in Orders : row[e].open}
  /\ mark' = [e \in Orders |-> 0]
  /\ lastEntry' = Restored
  /\ UNCHANGED <<disk, passed, gate, table, store, bounds>>
-----------------------------------------------------------------------------
GateStep ==
  \/ CheckLoss
  \/ CheckMarket
  \/ GuardRejects
  \/ SendOrder
  \/ OrderFails
  \/ OrderFills
  \/ Track

Next ==
  \/ Halt \/ Resume \/ Toggle
  \/ \E m \in Markets : Begin(m)
  \/ GateStep
  \/ \E e \in Orders : Mark(e) \/ Close(e) \/ Drop(e)
  \/ StoreExecutes
  \/ Tick
  \/ Crash
  \/ Restart

Spec == Init /\ [][Next]_vars
-----------------------------------------------------------------------------
RuntimeStates == [mode : Modes, halted : BOOLEAN, daily : BOOLEAN, day : Nat]

Asked == [order : {0} \cup Orders, pnl : Int, day : Nat]

Rows == [mkt : Markets \cup {NoMarket}, mode : Modes, open : BOOLEAN, pnl : Int, day : Nat]

TypeOK ==
  /\ up \in BOOLEAN
  /\ now \in Nat
  /\ runtime \in RuntimeStates
  /\ runtime.daily => runtime.halted /\ runtime.day # 0
  /\ disk \in RuntimeStates \cup {Torn}
  /\ gate \in [pc : {"idle", "reading", "pricing", "placing", "tracking"},
               mkt : Markets \cup {NoMarket}, mode : Modes, sent : 0 .. now,
               since : Nat, answer : SUBSET Orders]
  /\ row \in [Orders -> Rows]
  /\ tracked \subseteq Placed
  /\ mark \in [Orders -> Int]
  /\ opened \in [Markets -> 0 .. now] /\ lastEntry \in [Markets -> 0 .. now]
  /\ queue \in Seq(Asked)
  /\ executed \in 0 .. Len(queue)
  /\ passed \in Nat /\ entries \in 0 .. MaxEntries /\ crashes \in 0 .. MaxCrashes

(* A halt stops entries but for the one headline that had passed its first *)
(* check already: evaluate reads the flag once, and one headline at a time *)
(* is in the gate.                                                         *)
HaltLetsOneThrough == passed <= 1

(* config.py:360-363: "a manual halt or a dry/live toggle SURVIVES a       *)
(* restart (a crash must not silently resume trading or flip the mode)":   *)
(* only the operator ends a manual halt or changes the mode.               *)
ManualHalt == runtime.halted /\ ~runtime.daily

OperatorDecides ==
  [][/\ ManualHalt => ManualHalt' \/ Resume
     /\ runtime.mode # runtime'.mode => Toggle]_vars

(* "blocks trading for the rest of the current UTC day": a daily-loss halt *)
(* ends with the day, or by the operator, but not with the process.        *)
DailyHaltLasts ==
  [][runtime.halted /\ runtime.daily /\ runtime.day = Today
       => runtime'.halted \/ Resume \/ Today' # Today]_vars

(* "a restart can't immediately re-enter a ticker traded within the        *)
(* cooldown window": an order and the newest entry on record of its market *)
(* are a cooldown apart.                                                   *)
CooldownHolds ==
  [][SendOrder => \/ opened[gate.mkt] = 0
                  \/ now - opened[gate.mkt] >= Cooldown]_vars

(* risk.py:361-363, "realized PnL today PLUS current open-position         *)
(* drawdown": though a close reaches the table and the manager in          *)
(* different steps and the gate reads one after the other, the sum it      *)
(* compares with the limit has each position of its mode that is open or   *)
(* was closed since the start of the day in exactly one of its terms, and  *)
(* none that was closed before.                                            *)
LossDue(mode, day) == ClosedSince(mode, day) \cup {e \in Placed : row[e].mode = mode /\ row[e].open}

CountedOnce ==
  [][CheckLoss \/ CheckMarket
       => /\ gate.answer \cup InMode(gate.mode) = LossDue(gate.mode, gate.since)
          /\ gate.answer \cap InMode(gate.mode) = {}]_vars
=============================================================================
