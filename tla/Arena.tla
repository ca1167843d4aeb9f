--------------------------------- MODULE Arena ---------------------------------
(***************************************************************************)
(* The arena (main_arena.py, arena/pipeline.py, arena/lane.py): one feed,  *)
(* one process, several models.  A headline is analyzed once for each lane *)
(* behind a semaphore they share, and each lane trades its own verdict     *)
(* under its own lock, gate, wallet and daily-loss halt (risk.py, and the  *)
(* per-model halts of RuntimeState in config.py).                          *)
(*                                                                         *)
(* All headlines are about one market, which the lanes trade each for      *)
(* itself.  Whether a lane trades paper or real money does not change.     *)
(***************************************************************************)
EXTENDS Integers, FiniteSets

CONSTANTS
  Lanes,
  Items,        \* headlines
  Story,        \* what a headline tells: those that do so alike are repeats
  Verdicts,     \* what the model of a lane may say: a direction, a confidence
  Held,         \* the lanes that start with a position they restored
  Gate,         \* confidence_threshold of each lane
  Penalties,    \* what the haircuts of a headline may add up to
  Floor,        \* risk.contrary_exit_min_confidence
  Permits,      \* analysis_concurrency
  MaxPending,   \* MAX_PENDING
  Outcomes,     \* what a mark or a close may yield, in units of PnL
  Limit,        \* risk.daily_loss_limit_usd
  Cooldown,     \* risk.per_ticker_cooldown_seconds, in ticks of the clock
  Window,       \* risk.duplicate_window_seconds, in ticks
  DayLength,    \* a UTC day, in ticks
  MaxEvents     \* bound: ticks, marks, closes, failures and crashes in all

Sides == {"long", "short"}

ASSUME ArenaAssumption ==
  /\ \A l \in Lanes : Verdicts[l] \subseteq [dir : Sides \cup {"none"}, conf : Nat]
  /\ Gate \in [Lanes -> Nat]
  /\ Penalties \subseteq Nat
  /\ Outcomes \subseteq Int
  /\ {Permits, MaxPending, Limit, DayLength} \subseteq Nat \ {0}
  /\ {Floor, Cooldown, Window, MaxEvents} \subseteq Nat

VARIABLES
  up,
  now,
  task,     \* for each lane and headline: where _lane_process is
  signal,   \* RiskEngine._recent_signal of each lane, by direction
  rows,     \* the newest directional row of each lane in analyses, likewise
  pos,      \* the side each lane holds, or "none": tracked, and its row open
  entered,  \* RiskEngine._last_entry_ms, and opened_ms of the lane's last row
  mark,     \* PnL of the open position at its last mark
  booked,   \* PnL of the rows each lane closed today
  halt,     \* RuntimeState._model_daily: the day of each lane's halt, 0 if none
  disk,     \* its file
  found,    \* history: the day on which each lane was last found at its limit
  traded,   \* history: when the story of the lane's last order was analyzed
  events

book == <<pos, entered, mark, booked>>
halts == <<halt, disk, found>>
vars == <<up, now, task, signal, rows, book, halts, traded, events>>

Today == 1 + (now \div DayLength)

NoVerdict == [dir |-> "none", conf |-> 0]
Task(pc)  == [pc |-> pc, verdict |-> NoVerdict, at |-> 0]
NoSignal  == [at |-> 0, story |-> 0]
None      == [s \in Sides |-> NoSignal]

Init ==
  /\ up = TRUE
  /\ now = 1
  /\ task = [l \in Lanes |-> [i \in Items |-> Task("none")]]
  /\ signal = [l \in Lanes |-> None]
  /\ rows = [l \in Lanes |-> None]
  /\ pos = [l \in Lanes |-> IF l \in Held THEN "long" ELSE "none"]
  /\ entered = [l \in Lanes |-> 0]
  /\ mark = [l \in Lanes |-> 0]
  /\ booked = [l \in Lanes |-> 0]
  /\ halt = [l \in Lanes |-> 0]
  /\ disk = halt
  /\ found = [l \in Lanes |-> 0]
  /\ traded = [l \in Lanes |-> [at |-> 0, story |-> 0, dir |-> "none"]]
  /\ events = 0

Event == events < MaxEvents /\ events' = events + 1

Is(l, i, pc) == task[l][i].pc = pc
To(l, i, pc) == task' = [task EXCEPT ![l][i] = Task(pc)]
-----------------------------------------------------------------------------
(***************************************************************************)
(* Ingestion: ArenaPipeline.on_news, the fan-out of _process, and the      *)
(* analysis of each lane.                                                  *)
(***************************************************************************)
Ended == {"none", "done", "failed", "lost"}
InFlight == {i \in Items : \E l \in Lanes : task[l][i].pc \notin Ended}

(* Every lane gets a headline that is kept; of one that is filtered, or    *)
(* that comes when too many are in flight, nothing more is heard.          *)
Deliver(i) ==
  /\ up
  /\ \A l \in Lanes : Is(l, i, "none")
  /\ Cardinality(InFlight) < MaxPending
  /\ task' = [l \in Lanes |-> [task[l] EXCEPT ![i] = Task("queued")]]
  /\ UNCHANGED <<up, now, signal, rows, book, halts, traded, events>>

AnalyzingLeaky ==
  {p \in Lanes \X Items : Is(p[1], p[2], "analyzing") \/ Is(p[1], p[2], "failed")} \* mutant
Analyzing == {p \in Lanes \X Items : Is(p[1], p[2], "analyzing")}

BeginAnalysis(l, i) ==
  /\ Is(l, i, "queued")
  /\ Cardinality(Analyzing) < Permits
  /\ To(l, i, "analyzing")
  /\ UNCHANGED <<up, now, signal, rows, book, halts, traded, events>>

(* A verdict is put on record, a directional one as what a restart will    *)
(* rebuild the duplicate window from.                                      *)
Analyzed(l, i) ==
  /\ Is(l, i, "analyzing")
  /\ \E v \in Verdicts[l] :
       /\ task' = [task EXCEPT ![l][i] = [pc |-> "ready", verdict |-> v, at |-> now]]
       /\ rows' = IF v.dir \in Sides
                  THEN [rows EXCEPT ![l][v.dir] = [at |-> now, story |-> Story[i]]]
                  ELSE rows
  /\ UNCHANGED <<up, now, signal, book, halts, traded, events>>

(* gather takes the exception of one lane, and the others go on.           *)
Raises(l, i) ==
  /\ task[l][i].pc \in {"analyzing", "gate", "placing"}
  /\ Event
  /\ To(l, i, "failed")
  /\ UNCHANGED <<up, now, signal, rows, book, halts, traded>>
-----------------------------------------------------------------------------
(***************************************************************************)
(* The trade section, _lane_trade, one headline of a lane at a time.       *)
(***************************************************************************)
LockFree(l) == \A i \in Items : task[l][i].pc \notin {"exiting", "gate", "placing"}
Contrary(l, v) == pos[l] # "none" /\ v.dir \in Sides \ {pos[l]} /\ Floor > 0 /\ v.conf >= Floor

Enters(l, i) == Is(l, i, "ready") /\ LockFree(l)

(* The lane holds the opposite side.  The close may not fill, and what it  *)
(* yields is booked before the lock is released.                           *)
ExitContrary(l, i) ==
  /\ Enters(l, i)
  /\ Contrary(l, task[l][i].verdict)
  /\ To(l, i, "exiting")
  /\ UNCHANGED <<up, now, signal, rows, book, halts, traded, events>>

Flatten(l, pnl) ==
  /\ pos' = [pos EXCEPT ![l] = "none"]
  /\ mark' = [mark EXCEPT ![l] = 0]
  /\ booked' = [booked EXCEPT ![l] = @ + pnl]
  /\ UNCHANGED entered

EndExit(l, i) ==
  /\ Is(l, i, "exiting")
  /\ To(l, i, "done")
  /\ \/ UNCHANGED book
     \/ pos[l] # "none" /\ \E pnl \in Outcomes : Flatten(l, pnl)
  /\ UNCHANGED <<up, now, signal, rows, halts, traded, events>>

(* Every evaluate forgets the halts of other days, a readout of the        *)
(* leaderboard that of one lane; what is left is saved.                    *)
Pruned == [l \in Lanes |-> IF halt[l] = Today THEN halt[l] ELSE 0]

Keep(left) ==
  /\ halt' = left
  /\ disk' = IF left = halt THEN disk ELSE left
Prune == Keep(Pruned)

HaltedWithAnyLane(l) == \E m \in Lanes : halt[m] = Today            \* mutant
Halted(l) == halt[l] = Today

RejectHalted(l, i) ==
  /\ Enters(l, i) /\ ~Contrary(l, task[l][i].verdict)
  /\ Halted(l)
  /\ Prune
  /\ To(l, i, "done")
  /\ UNCHANGED <<up, now, signal, rows, book, found, traded, events>>

(* The gate up to the losses of the day.  A directional verdict is the     *)
(* newest signal of its direction, whatever becomes of it.                 *)
Repeats(l, i, v) ==
  /\ Window > 0
  /\ signal[l][v.dir].story = Story[i]
  /\ now - signal[l][v.dir].at < Window

Haircut(conf) == {IF p < conf THEN conf - p ELSE 0 : p \in Penalties}

Judge(l, i) ==
  /\ Enters(l, i) /\ ~Contrary(l, task[l][i].verdict)
  /\ ~Halted(l)
  /\ Prune
  /\ LET v == task[l][i].verdict
     IN  /\ signal' = IF v.dir \in Sides
                      THEN [signal EXCEPT ![l][v.dir] = [at |-> now, story |-> Story[i]]]
                      ELSE signal
         /\ \E conf \in Haircut(v.conf) :
              task' = [task EXCEPT ![l][i] =
                        IF v.dir \in Sides /\ ~Repeats(l, i, v) /\ conf >= Gate[l]
                        THEN [@ EXCEPT !.pc = "gate"] ELSE Task("done")]
  /\ UNCHANGED <<up, now, rows, book, found, traded, events>>

(* Stale, or without a market: turned away before it counts as a signal.   *)
Disregard(l, i) ==
  /\ Enters(l, i) /\ ~Contrary(l, task[l][i].verdict)
  /\ ~Halted(l)
  /\ Prune
  /\ To(l, i, "done")
  /\ UNCHANGED <<up, now, signal, rows, book, found, traded, events>>

AtLimit(l) == booked[l] + mark[l] <= -Limit

CheckLoss(l, i) ==
  /\ Is(l, i, "gate")
  /\ AtLimit(l)
  /\ halt' = [halt EXCEPT ![l] = Today]
  /\ disk' = halt'
  /\ found' = [found EXCEPT ![l] = Today]
  /\ To(l, i, "done")
  /\ UNCHANGED <<up, now, signal, rows, book, traded, events>>

Occupied(l) == pos[l] # "none" \/ (entered[l] # 0 /\ now - entered[l] < Cooldown)

(* A position, the cooldown, or one of the guards after them.              *)
RejectMarket(l, i) ==
  /\ Is(l, i, "gate")
  /\ ~AtLimit(l)
  /\ To(l, i, "done")
  /\ UNCHANGED <<up, now, signal, rows, book, halts, traded, events>>

SendOrder(l, i) ==
  /\ Is(l, i, "gate")
  /\ ~AtLimit(l) /\ ~Occupied(l)
  /\ task' = [task EXCEPT ![l][i].pc = "placing"]
  /\ traded' = [traded EXCEPT ![l] = [at |-> task[l][i].at, story |-> Story[i],
                                      dir |-> task[l][i].verdict.dir]]
  /\ UNCHANGED <<up, now, signal, rows, book, halts, events>>

OrderFails(l, i) ==
  /\ Is(l, i, "placing")
  /\ To(l, i, "done")
  /\ UNCHANGED <<up, now, signal, rows, book, halts, traded, events>>

OrderFills(l, i) ==
  /\ Is(l, i, "placing")
  /\ pos' = [pos EXCEPT ![l] = task[l][i].verdict.dir]
  /\ entered' = [entered EXCEPT ![l] = now]
  /\ To(l, i, "done")
  /\ UNCHANGED <<up, now, signal, rows, mark, booked, halts, traded, events>>
-----------------------------------------------------------------------------
(***************************************************************************)
(* Each lane's monitor; the leaderboard; the clock; crash and restart.     *)
(***************************************************************************)
Mark(l) ==
  /\ up /\ pos[l] # "none"
  /\ Event
  /\ \E pnl \in Outcomes \ {mark[l]} : mark' = [mark EXCEPT ![l] = pnl]
  /\ UNCHANGED <<up, now, task, signal, rows, pos, entered, booked, halts, traded>>

Close(l) ==
  /\ up /\ pos[l] # "none"
  /\ Event
  /\ \E pnl \in Outcomes : Flatten(l, pnl)
  /\ UNCHANGED <<up, now, task, signal, rows, halts, traded>>

Readout(l) ==
  /\ up
  /\ Keep([halt EXCEPT ![l] = Pruned[l]])
  /\ UNCHANGED <<up, now, task, signal, rows, book, found, traded, events>>

Tick ==
  /\ Event
  /\ now' = now + 1
  /\ booked' = IF Today' = Today THEN booked ELSE [l \in Lanes |-> 0]
  /\ UNCHANGED <<up, task, signal, rows, pos, entered, mark, halts, traded>>

(* The headlines in flight are not analyzed again: they are in the table   *)
(* that the dedup memory is rebuilt from.                                  *)
Crash ==
  /\ up
  /\ Event
  /\ up' = FALSE
  /\ task' = [l \in Lanes |-> [i \in Items |->
               IF task[l][i].pc \in Ended THEN task[l][i] ELSE Task("lost")]]
  /\ UNCHANGED <<now, signal, rows, book, halts, traded>>

(* RiskEngine.restore: the analyses of the lane within the window.         *)
RestoredNone(l) == None                                             \* mutant
Restored(l) ==
  [s \in Sides |-> IF rows[l][s].at >= now - Window THEN rows[l][s] ELSE NoSignal]

Restart ==
  /\ ~up
  /\ up' = TRUE
  /\ signal' = [l \in Lanes |-> Restored(l)]
  /\ mark' = [l \in Lanes |-> 0]
  /\ halt' = disk
  /\ UNCHANGED <<now, task, rows, pos, entered, booked, disk, found, traded, events>>
-----------------------------------------------------------------------------
TaskStep(l, i) ==
  \/ BeginAnalysis(l, i)
  \/ Analyzed(l, i)
  \/ Raises(l, i)
  \/ ExitContrary(l, i)
  \/ EndExit(l, i)
  \/ RejectHalted(l, i)
  \/ Judge(l, i)
  \/ Disregard(l, i)
  \/ CheckLoss(l, i)
  \/ RejectMarket(l, i)
  \/ SendOrder(l, i)
  \/ OrderFails(l, i)
  \/ OrderFills(l, i)

Next ==
  \/ \E i \in Items : Deliver(i)
  \/ \E l \in Lanes, i \in Items : TaskStep(l, i)
  \/ \E l \in Lanes : Mark(l) \/ Close(l) \/ Readout(l)
  \/ Tick
  \/ Crash
  \/ Restart

Spec == Init /\ [][Next]_vars
-----------------------------------------------------------------------------
(* config.py:426: a daily loss "halts ONLY that lane": once it is found    *)
(* the lane sends no order that day, over restarts and whatever another    *)
(* lane or the leaderboard prunes, and no lane is turned away for it that  *)
(* was not found at its own limit.                                         *)
HaltIsTheLanesOwn ==
  [][\A l \in Lanes, i \in Items :
       /\ SendOrder(l, i) => found[l] # Today
       /\ RejectHalted(l, i) => found[l] = Today]_vars

RepeatsLast(l, i) ==
  traded[l].story = Story[i] /\ traded[l].dir = task[l][i].verdict.dir

(* risk.py:231: "a restart inside the window must not re-open it": a lane  *)
(* judges no headline fit that repeats the story of its last order within  *)
(* the window of the analysis that led to that.                            *)
StoryTradedOnce ==
  [][\A l \in Lanes, i \in Items :
       SendOrder(l, i) /\ RepeatsLast(l, i)
         => signal[l][traded[l].dir].at - traded[l].at >= Window]_vars

(* pipeline.py:7, "one lane's slow analysis or failed order never blocks   *)
(* another": whoever has failed, is halted or holds the semaphore or a     *)
(* lock, some headline in flight can go on.  A step of a task never takes  *)
(* it back, so every lane ends every headline unless the process dies.     *)
NobodyWaitsForever ==
  InFlight # {} => ENABLED \E l \in Lanes, i \in Items : TaskStep(l, i)
=============================================================================
