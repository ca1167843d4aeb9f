------------------------------ MODULE ArenaProofs ------------------------------
(***************************************************************************)
(* What a lane of the arena may count on, for every number of lanes,       *)
(* headlines and permits, every verdict, and any number of crashes.        *)
(*                                                                         *)
(* Neither property is inductive.  The order of a lane goes out some awaits *)
(* after the flags and the signals were read, so both rest on the lane's   *)
(* lock (OneInside) and say what is still true of a headline in the gate   *)
(* (GateUnhalted, GateSignals).  What a restart reads back is covered by   *)
(* the agreement of file, memory and what was found (HaltsAgree), and by   *)
(* the rows being at least as new as the signals that matter (OnRecord).   *)
(***************************************************************************)
EXTENDS Arena, TLAPS

Pcs == {"none", "queued", "analyzing", "ready", "exiting", "gate", "placing", "done",
        "failed", "lost"}
Inside == {"exiting", "gate", "placing"}

TaskStates == [pc : Pcs, verdict : [dir : Sides \cup {"none"}, conf : Nat], at : Nat]
Told       == {Story[i] : i \in Items}
Signals    == {NoSignal} \cup [at : Nat, story : Told]

ArenaTypes ==
  /\ now \in Nat \ {0}
  /\ task \in [Lanes -> [Items -> TaskStates]]
  /\ signal \in [Lanes -> [Sides -> Signals]]
  /\ rows \in [Lanes -> [Sides -> Signals]]
  /\ halt \in [Lanes -> Nat]
  /\ disk \in [Lanes -> Nat]
  /\ found \in [Lanes -> Nat]
  /\ traded \in [Lanes -> [at : Nat, story : Told \cup {0}, dir : Sides \cup {"none"}]]

(* One headline of a lane is behind its lock, and none while the process   *)
(* is down.                                                                *)
OneInside == \A l \in Lanes : \A i, j \in Items :
  task[l][i].pc \in Inside /\ task[l][j].pc \in Inside => i = j
DownIdle == ~up => \A l \in Lanes, i \in Items : task[l][i].pc \in Ended

LockInv == ArenaTypes /\ OneInside /\ DownIdle
-----------------------------------------------------------------------------
LEMMA DayIs ==
  ASSUME now \in Nat
  PROVE  /\ Today \in Nat \ {0}
         /\ now' = now + 1 => Today' \in Nat /\ Today <= Today'
<1>1. DayLength \in Nat /\ DayLength > 0
  BY ArenaAssumption
<1>2. \A n \in Nat : n \div DayLength \in Nat
  BY <1>1
<1>3. \A n \in Nat : n \div DayLength <= (n + 1) \div DayLength
  BY <1>1
<1> QED BY <1>2, <1>3 DEF Today

LEMMA TaskTypes ==
  /\ \A pc \in Pcs : Task(pc) \in TaskStates /\ Task(pc).pc = pc
  /\ \A t \in TaskStates, pc \in Pcs :
       [t EXCEPT !.pc = pc] \in TaskStates /\ [t EXCEPT !.pc = pc].pc = pc
       /\ [t EXCEPT !.pc = pc].verdict = t.verdict /\ [t EXCEPT !.pc = pc].at = t.at
BY DEF TaskStates, Task, NoVerdict

LEMMA TaskEdited ==
  ASSUME ArenaTypes, NEW l \in Lanes, NEW i \in Items, NEW t \in TaskStates,
         task' = [task EXCEPT ![l][i] = t]
  PROVE  /\ task' \in [Lanes -> [Items -> TaskStates]]
         /\ task'[l][i] = t
         /\ \A m \in Lanes, j \in Items : m # l \/ j # i => task'[m][j] = task[m][j]
BY DEF ArenaTypes

(* A verdict of a lane's model, and what the gate and the orders do with   *)
(* the task that carries it.                                               *)
LEMMA NewVerdict ==
  ASSUME NEW l \in Lanes, NEW v \in Verdicts[l], now \in Nat
  PROVE  [pc |-> "ready", verdict |-> v, at |-> now] \in TaskStates
<1>1. v \in [dir : Sides \cup {"none"}, conf : Nat]
  BY ArenaAssumption
<1> QED BY <1>1 DEF TaskStates, Pcs

(* How a task moves: who comes from outside the lane's lock found it free. *)
Moved(l, i, t) ==
  /\ task' = [task EXCEPT ![l][i] = t]
  /\ t \in TaskStates
  /\ task[l][i].pc \notin Ended
  /\ t.pc \in Inside => LockFree(l) \/ task[l][i].pc \in Inside
  /\ t.pc \in {"gate", "placing"} => t.verdict = task[l][i].verdict /\ t.at = task[l][i].at
  /\ t.pc = "gate" => Judge(l, i)
  /\ t.pc = "placing" => task[l][i].pc = "gate"

LEMMA TaskMoves ==
  ASSUME ArenaTypes, NEW l \in Lanes, NEW i \in Items, TaskStep(l, i)
  PROVE  \E t \in TaskStates : Moved(l, i, t)
<1> DEFINE c == task[l][i]
<1>1. c \in TaskStates /\ task[l] \in [Items -> TaskStates]
  BY DEF ArenaTypes
<1>2. ASSUME NEW pc \in Pcs \ {"gate", "placing"}, To(l, i, pc), c.pc \notin Ended,
             pc \in Inside => LockFree(l)
      PROVE  \E t \in TaskStates : Moved(l, i, t)
  BY <1>2, TaskTypes DEF To, Moved
<1>3. ASSUME Is(l, i, "gate") \/ Is(l, i, "placing") \/ Is(l, i, "exiting") \/ Is(l, i, "queued")
               \/ Is(l, i, "analyzing") \/ Is(l, i, "ready")
      PROVE  c.pc \notin Ended
  BY <1>3 DEF Is, Ended
<1>4. CASE BeginAnalysis(l, i)
  BY <1>2, <1>3, <1>4 DEF BeginAnalysis, Pcs, Inside
<1>5. CASE Analyzed(l, i)
  <2>1. PICK v \in Verdicts[l] :
          task' = [task EXCEPT ![l][i] = [pc |-> "ready", verdict |-> v, at |-> now]]
    BY <1>5 DEF Analyzed
  <2>2. [pc |-> "ready", verdict |-> v, at |-> now] \in TaskStates
    BY NewVerdict DEF ArenaTypes
  <2> QED BY <1>3, <1>5, <2>1, <2>2 DEF Analyzed, Moved, Inside
<1>6. CASE Raises(l, i)
  BY <1>2, <1>6 DEF Raises, Pcs, Inside, Ended
<1>7. CASE ExitContrary(l, i)
  BY <1>2, <1>3, <1>7 DEF ExitContrary, Enters, Pcs, Inside
<1>8. CASE EndExit(l, i) \/ RejectMarket(l, i) \/ CheckLoss(l, i) \/ OrderFails(l, i) \/ OrderFills(l, i)
  <2>1. To(l, i, "done") /\ c.pc \notin Ended
    BY <1>3, <1>8 DEF EndExit, RejectMarket, CheckLoss, OrderFails, OrderFills
  <2> QED BY <1>2, <2>1 DEF Pcs, Inside
<1>9. CASE RejectHalted(l, i) \/ Disregard(l, i)
  <2>1. To(l, i, "done") /\ c.pc \notin Ended
    BY <1>3, <1>9 DEF RejectHalted, Disregard, Enters
  <2> QED BY <1>2, <2>1 DEF Pcs, Inside
<1>10. CASE Judge(l, i)
  <2>1. LockFree(l) /\ c.pc \notin Ended
    BY <1>3, <1>10 DEF Judge, Enters
  <2>2. CASE To(l, i, "done")
    BY <1>2, <2>1, <2>2 DEF Pcs, Inside
  <2>3. CASE task' = [task EXCEPT ![l][i] = [c EXCEPT !.pc = "gate"]]
    BY <1>1, <1>10, <2>1, <2>3, TaskTypes DEF Moved, Pcs
  <2>4. To(l, i, "done") \/ task' = [task EXCEPT ![l][i] = [c EXCEPT !.pc = "gate"]]
    BY <1>1, <1>10 DEF Judge, To
  <2> QED BY <2>2, <2>3, <2>4
<1>11. CASE SendOrder(l, i)
  <2>1. task' = [task EXCEPT ![l][i] = [c EXCEPT !.pc = "placing"]]
    BY <1>1, <1>11 DEF SendOrder
  <2> QED BY <1>1, <1>3, <1>11, <2>1, TaskTypes DEF SendOrder, Is, Moved, Pcs, Inside
<1> QED BY <1>4, <1>5, <1>6, <1>7, <1>8, <1>9, <1>10, <1>11 DEF TaskStep

(* What the other steps do to the tasks.                                   *)
LEMMA OthersMove ==
  ASSUME ArenaTypes,
         \/ \E l \in Lanes : Mark(l) \/ Close(l) \/ Readout(l)
         \/ Tick \/ Restart \/ UNCHANGED vars
  PROVE  UNCHANGED task /\ (up' = up \/ up')
BY DEF Mark, Close, Readout, Tick, Restart, vars
-----------------------------------------------------------------------------
(* Types.                                                                  *)
TasksTyped == task \in [Lanes -> [Items -> TaskStates]]
SignalsTyped ==
  /\ signal \in [Lanes -> [Sides -> Signals]]
  /\ rows \in [Lanes -> [Sides -> Signals]]
HaltsTyped ==
  /\ halt \in [Lanes -> Nat]
  /\ disk \in [Lanes -> Nat]
  /\ found \in [Lanes -> Nat]
TradedTyped == traded \in [Lanes -> [at : Nat, story : Told \cup {0}, dir : Sides \cup {"none"}]]

LEMMA PrunedTyped ==
  ASSUME ArenaTypes
  PROVE  /\ Pruned \in [Lanes -> Nat]
         /\ \A l \in Lanes : [halt EXCEPT ![l] = Pruned[l]] \in [Lanes -> Nat]
BY DEF ArenaTypes, Pruned

LEMMA SignalTyped ==
  ASSUME ArenaTypes, NEW f \in [Lanes -> [Sides -> Signals]], NEW l \in Lanes, NEW s \in Sides,
         NEW i \in Items
  PROVE  /\ [f EXCEPT ![l][s] = [at |-> now, story |-> Story[i]]] \in [Lanes -> [Sides -> Signals]]
         /\ [f EXCEPT ![l][s] = [at |-> now, story |-> Story[i]]][l][s] = [at |-> now, story |-> Story[i]]
         /\ \A m \in Lanes, r \in Sides : m # l \/ r # s =>
              [f EXCEPT ![l][s] = [at |-> now, story |-> Story[i]]][m][r] = f[m][r]
<1>1. [at |-> now, story |-> Story[i]] \in Signals
  BY DEF ArenaTypes, Signals, Told
<1> HIDE DEF Signals
<1> QED BY <1>1

LEMMA TaskStepTyped ==
  ASSUME ArenaTypes, NEW l \in Lanes, NEW i \in Items, TaskStep(l, i)
  PROVE  ArenaTypes' /\ UNCHANGED <<up, now>>
<1>1. UNCHANGED <<up, now>>
  BY DEF TaskStep, BeginAnalysis, Analyzed, Raises, ExitContrary, EndExit, RejectHalted, Judge,
         Disregard, CheckLoss, RejectMarket, SendOrder, OrderFails, OrderFills
<1>2. TasksTyped'
  BY TaskMoves, TaskEdited DEF Moved, TasksTyped
<1>3. task[l][i] \in TaskStates
  BY DEF ArenaTypes
<1>4. CASE Analyzed(l, i)
  <2>1. PICK v \in Verdicts[l] :
          rows' = IF v.dir \in Sides
                  THEN [rows EXCEPT ![l][v.dir] = [at |-> now, story |-> Story[i]]] ELSE rows
    BY <1>4 DEF Analyzed
  <2>2. rows' \in [Lanes -> [Sides -> Signals]] /\ UNCHANGED <<signal, halt, disk, found, traded>>
    BY <1>4, <2>1, SignalTyped DEF Analyzed, halts, ArenaTypes
  <2> QED BY <1>1, <1>2, <2>2 DEF ArenaTypes, TasksTyped
<1>5. CASE Judge(l, i)
  <2> DEFINE v == task[l][i].verdict
  <2>1. /\ signal' = IF v.dir \in Sides
                     THEN [signal EXCEPT ![l][v.dir] = [at |-> now, story |-> Story[i]]] ELSE signal
        /\ Prune /\ UNCHANGED <<rows, found, traded>>
    BY <1>5 DEF Judge
  <2>2. signal' \in [Lanes -> [Sides -> Signals]]
    <3>1. signal \in [Lanes -> [Sides -> Signals]]
      BY DEF ArenaTypes
    <3>2. CASE v.dir \in Sides
      BY <2>1, <3>1, <3>2, SignalTyped
    <3>3. CASE v.dir \notin Sides
      BY <2>1, <3>1, <3>3
    <3> QED BY <3>2, <3>3
  <2>3. halt' \in [Lanes -> Nat] /\ disk' \in [Lanes -> Nat]
    BY <2>1, PrunedTyped DEF Prune, Keep, ArenaTypes
  <2> QED BY <1>1, <1>2, <2>1, <2>2, <2>3 DEF ArenaTypes, TasksTyped
<1>6. CASE RejectHalted(l, i) \/ Disregard(l, i)
  <2>1. halt' \in [Lanes -> Nat] /\ disk' \in [Lanes -> Nat]
    BY <1>6, PrunedTyped DEF RejectHalted, Disregard, Prune, Keep, ArenaTypes
  <2> QED BY <1>1, <1>2, <1>6, <2>1 DEF RejectHalted, Disregard, ArenaTypes, TasksTyped
<1>7. CASE CheckLoss(l, i)
  <2>1. Today \in Nat
    BY DayIs DEF ArenaTypes
  <2> QED BY <1>1, <1>2, <1>7, <2>1 DEF CheckLoss, ArenaTypes, TasksTyped
<1>8. CASE SendOrder(l, i)
  <2>1. traded' = [traded EXCEPT ![l] = [at |-> task[l][i].at, story |-> Story[i],
                                         dir |-> task[l][i].verdict.dir]]
    BY <1>8 DEF SendOrder
  <2>2. [at |-> task[l][i].at, story |-> Story[i], dir |-> task[l][i].verdict.dir]
          \in [at : Nat, story : Told \cup {0}, dir : Sides \cup {"none"}]
    BY <1>3 DEF TaskStates, Told
  <2>3. TradedTyped'
    BY <2>1, <2>2 DEF TradedTyped, ArenaTypes
  <2> QED BY <1>1, <1>2, <1>8, <2>3 DEF SendOrder, halts, ArenaTypes, TasksTyped, TradedTyped
<1>9. CASE BeginAnalysis(l, i) \/ Raises(l, i) \/ ExitContrary(l, i) \/ EndExit(l, i)
            \/ RejectMarket(l, i) \/ OrderFails(l, i) \/ OrderFills(l, i)
  <2>1. UNCHANGED <<signal, rows, halts, traded>>
    BY <1>9 DEF BeginAnalysis, Raises, ExitContrary, EndExit, RejectMarket, OrderFails, OrderFills
  <2> QED BY <1>1, <1>2, <2>1 DEF ArenaTypes, TasksTyped, halts
<1> QED BY <1>4, <1>5, <1>6, <1>7, <1>8, <1>9 DEF TaskStep

LEMMA NextTyped == ArenaTypes /\ [Next]_vars => ArenaTypes'
<1> SUFFICES ASSUME ArenaTypes, [Next]_vars PROVE ArenaTypes'
  OBVIOUS
<1>1. ASSUME NEW i \in Items, Deliver(i) PROVE ArenaTypes'
  <2>1. \A l \in Lanes : [task[l] EXCEPT ![i] = Task("queued")] \in [Items -> TaskStates]
    BY TaskTypes DEF ArenaTypes, Pcs
  <2>2. TasksTyped'
    BY <1>1, <2>1 DEF Deliver, TasksTyped
  <2> QED BY <1>1, <2>2 DEF Deliver, halts, ArenaTypes, TasksTyped
<1>2. ASSUME NEW l \in Lanes, NEW i \in Items, TaskStep(l, i) PROVE ArenaTypes'
  BY <1>2, TaskStepTyped
<1>3. ASSUME NEW l \in Lanes, Mark(l) \/ Close(l) PROVE ArenaTypes'
  BY <1>3 DEF Mark, Close, halts, ArenaTypes
<1>4. ASSUME NEW l \in Lanes, Readout(l) PROVE ArenaTypes'
  BY <1>4, PrunedTyped DEF Readout, Keep, ArenaTypes
<1>5. CASE Tick
  BY <1>5 DEF Tick, halts, ArenaTypes
<1>6. CASE Crash
  <2>1. \A l \in Lanes, i \in Items :
          (IF task[l][i].pc \in Ended THEN task[l][i] ELSE Task("lost")) \in TaskStates
    <3>1. Task("lost") \in TaskStates
      BY TaskTypes DEF Pcs
    <3> QED BY <3>1 DEF ArenaTypes
  <2>2. TasksTyped'
    BY <1>6, <2>1 DEF Crash, TasksTyped
  <2> QED BY <1>6, <2>2 DEF Crash, halts, ArenaTypes, TasksTyped
<1>7. CASE Restart
  <2>1. \A l \in Lanes : Restored(l) \in [Sides -> Signals]
    BY DEF Restored, Signals, ArenaTypes
  <2> QED BY <1>7, <2>1 DEF Restart, ArenaTypes
<1>8. CASE UNCHANGED vars
  BY <1>8 DEF vars, halts, ArenaTypes
<1> QED BY <1>1, <1>2, <1>3, <1>4, <1>5, <1>6, <1>7, <1>8 DEF Next

LEMMA NextLocked == LockInv /\ [Next]_vars => OneInside' /\ DownIdle'
<1> SUFFICES ASSUME LockInv, [Next]_vars PROVE OneInside' /\ DownIdle'
  OBVIOUS
<1>0. ArenaTypes
  BY DEF LockInv
<1>1. ASSUME NEW i \in Items, Deliver(i) PROVE OneInside' /\ DownIdle'
  <2>1. \A l \in Lanes, j \in Items :
          task'[l][j] = IF j = i THEN Task("queued") ELSE task[l][j]
    BY <1>0, <1>1 DEF Deliver, ArenaTypes
  <2>2. Task("queued").pc \notin Inside /\ up'
    BY <1>1 DEF Deliver, Task, Inside
  <2> QED BY <2>1, <2>2 DEF LockInv, OneInside, DownIdle
<1>2. ASSUME NEW l \in Lanes, NEW i \in Items, TaskStep(l, i) PROVE OneInside' /\ DownIdle'
  <2>1. PICK t \in TaskStates : Moved(l, i, t)
    BY <1>0, <1>2, TaskMoves
  <2>2. /\ task'[l][i] = t
        /\ \A m \in Lanes, j \in Items : m # l \/ j # i => task'[m][j] = task[m][j]
    <3>1. task' = [task EXCEPT ![l][i] = t]
      BY <2>1 DEF Moved
    <3>2. task'[l][i] = t
      BY <1>0, <3>1 DEF ArenaTypes
    <3>3. ASSUME NEW m \in Lanes, NEW j \in Items, m # l \/ j # i PROVE task'[m][j] = task[m][j]
      BY <1>0, <3>1, <3>3 DEF ArenaTypes
    <3> QED BY <3>2, <3>3
  <2>3. up' = up /\ up
    BY <1>0, <1>2, <2>1, TaskStepTyped DEF LockInv, DownIdle, Moved
  <2>4. t.pc \in Inside => \A j \in Items : task[l][j].pc \in Inside => j = i
    BY <2>1 DEF Moved, LockFree, LockInv, OneInside, Inside
  <2> QED BY <2>2, <2>3, <2>4 DEF LockInv, OneInside, DownIdle
<1>3. CASE Crash
  <2>1. \A l \in Lanes, i \in Items :
          task'[l][i] = IF task[l][i].pc \in Ended THEN task[l][i] ELSE Task("lost")
    BY <1>3 DEF Crash
  <2>2. Task("lost").pc \in Ended /\ \A pc \in Ended : pc \notin Inside
    BY DEF Task, Ended, Inside
  <2> QED BY <2>1, <2>2 DEF OneInside, DownIdle
<1>4. CASE (\E l \in Lanes : Mark(l) \/ Close(l) \/ Readout(l)) \/ Tick \/ Restart \/ UNCHANGED vars
  BY <1>0, <1>4, OthersMove DEF LockInv, OneInside, DownIdle
<1> QED BY <1>1, <1>2, <1>3, <1>4 DEF Next

LEMMA NextLock == LockInv /\ [Next]_vars => LockInv'
BY NextTyped, NextLocked DEF LockInv

LEMMA InitLock == Init => LockInv
<1> SUFFICES ASSUME Init PROVE LockInv
  OBVIOUS
<1>1. task = [l \in Lanes |-> [i \in Items |-> Task("none")]] /\ Task("none") \in TaskStates
      /\ Task("none").pc = "none"
  BY TaskTypes DEF Init, Pcs
<1>2. ArenaTypes
  BY <1>1 DEF Init, ArenaTypes, None, NoSignal, Signals
<1> QED BY <1>1, <1>2 DEF Init, LockInv, OneInside, DownIdle, Inside
-----------------------------------------------------------------------------
(***************************************************************************)
(* Halts.  The flag, its file and what was found tell of the same day,     *)
(* whoever prunes what, and past the first check of the gate the lane has  *)
(* not been found at its limit today: nobody else of it is in the gate.    *)
(***************************************************************************)
HaltsAgree == \A l \in Lanes :
  /\ halt[l] <= Today /\ disk[l] <= Today /\ found[l] <= Today
  /\ halt[l] = Today <=> found[l] = Today
  /\ disk[l] = Today <=> found[l] = Today

GateUnhalted == \A l \in Lanes, i \in Items : Is(l, i, "gate") => found[l] # Today

HaltInv == LockInv /\ HaltsAgree /\ GateUnhalted

LEMMA SameDay == now' = now => Today' = Today
BY DEF Today

LEMMA DayAfter == ASSUME ArenaTypes PROVE Today \in Nat \ {0}
BY DayIs DEF ArenaTypes

LEMMA KeepAgrees ==
  ASSUME ArenaTypes, HaltsAgree, NEW left, Keep(left), UNCHANGED <<now, found>>,
         \A l \in Lanes : left[l] = halt[l] \/ (left[l] = 0 /\ halt[l] # Today)
  PROVE  HaltsAgree'
<1>1. Today' = Today /\ Today \in Nat \ {0}
  BY SameDay, DayAfter
<1>2. \A l \in Lanes : left[l] <= Today /\ (left[l] = Today <=> halt[l] = Today)
  BY <1>1 DEF HaltsAgree
<1> QED BY <1>1, <1>2 DEF Keep, HaltsAgree

LEMMA PruneAgrees == ASSUME ArenaTypes, HaltsAgree, Prune, UNCHANGED <<now, found>> PROVE HaltsAgree'
<1>1. \A l \in Lanes : Pruned[l] = halt[l] \/ (Pruned[l] = 0 /\ halt[l] # Today)
  BY DEF Pruned
<1> QED BY <1>1, KeepAgrees DEF Prune

(* A step of a headline finds its lane at the limit, or leaves that alone. *)
LEMMA TaskStepHalts ==
  ASSUME ArenaTypes, HaltsAgree, NEW l \in Lanes, NEW i \in Items, TaskStep(l, i)
  PROVE  HaltsAgree' /\ (found' = found \/ CheckLoss(l, i))
<1>1. CASE RejectHalted(l, i) \/ Judge(l, i) \/ Disregard(l, i)
  <2>1. Prune /\ UNCHANGED <<now, found>>
    BY <1>1 DEF RejectHalted, Judge, Disregard
  <2> QED BY <2>1, PruneAgrees
<1>2. CASE CheckLoss(l, i)
  <2>1. /\ halt' = [halt EXCEPT ![l] = Today] /\ disk' = [halt EXCEPT ![l] = Today]
        /\ found' = [found EXCEPT ![l] = Today] /\ now' = now
    BY <1>2 DEF CheckLoss
  <2>2. Today' = Today /\ Today \in Nat
    BY <2>1, SameDay, DayAfter
  <2> QED BY <1>2, <2>1, <2>2 DEF HaltsAgree, ArenaTypes
<1>3. CASE BeginAnalysis(l, i) \/ Analyzed(l, i) \/ Raises(l, i) \/ ExitContrary(l, i)
            \/ EndExit(l, i) \/ RejectMarket(l, i) \/ SendOrder(l, i) \/ OrderFails(l, i)
            \/ OrderFills(l, i)
  <2>1. UNCHANGED <<now, halts>>
    BY <1>3 DEF BeginAnalysis, Analyzed, Raises, ExitContrary, EndExit, RejectMarket, SendOrder,
                OrderFails, OrderFills
  <2> QED BY <2>1, SameDay DEF halts, HaltsAgree
<1> QED BY <1>1, <1>2, <1>3 DEF TaskStep

LEMMA NextHalts == HaltInv /\ [Next]_vars => HaltsAgree' /\ GateUnhalted'
<1> SUFFICES ASSUME HaltInv, [Next]_vars PROVE HaltsAgree' /\ GateUnhalted'
  OBVIOUS
<1>0. ArenaTypes /\ HaltsAgree /\ Today \in Nat
  BY DayAfter DEF HaltInv, LockInv
<1>1. ASSUME NEW i \in Items, Deliver(i) PROVE HaltsAgree' /\ GateUnhalted'
  <2>1. UNCHANGED <<now, halts>> /\ Today' = Today
    BY <1>1, SameDay DEF Deliver
  <2>2. \A l \in Lanes, j \in Items :
          task'[l][j] = IF j = i THEN Task("queued") ELSE task[l][j]
    BY <1>0, <1>1 DEF Deliver, ArenaTypes
  <2>3. Task("queued").pc # "gate"
    BY DEF Task
  <2> QED BY <2>1, <2>2, <2>3 DEF halts, HaltInv, HaltsAgree, GateUnhalted, Is
<1>2. ASSUME NEW l \in Lanes, NEW i \in Items, TaskStep(l, i) PROVE HaltsAgree' /\ GateUnhalted'
  <2>1. PICK t \in TaskStates : Moved(l, i, t)
    BY <1>0, <1>2, TaskMoves
  <2>2. /\ task'[l][i] = t
        /\ \A m \in Lanes, j \in Items : m # l \/ j # i => task'[m][j] = task[m][j]
    BY <1>0, <2>1 DEF Moved, ArenaTypes
  <2>3. HaltsAgree' /\ (found' = found \/ CheckLoss(l, i)) /\ Today' = Today
    BY <1>0, <1>2, TaskStepHalts, TaskStepTyped, SameDay
  <2>4. CASE found' = found
    <3>1. t.pc = "gate" => found[l] # Today
      BY <1>0, <2>1 DEF Moved, Judge, Halted, HaltsAgree
    <3> QED BY <2>2, <2>3, <2>4, <3>1 DEF HaltInv, GateUnhalted, Is
  <2>5. CASE CheckLoss(l, i)
    <3>1. task[l][i].pc = "gate" /\ t.pc = "done"
      BY <1>0, <2>2, <2>5 DEF CheckLoss, Is, To, Task, ArenaTypes
    <3>2. \A j \in Items : task'[l][j].pc # "gate"
      BY <2>2, <3>1 DEF HaltInv, LockInv, OneInside, Inside
    <3>3. \A m \in Lanes : m # l => found'[m] = found[m]
      BY <1>0, <2>5 DEF CheckLoss, ArenaTypes
    <3> QED BY <2>2, <2>3, <3>2, <3>3 DEF HaltInv, GateUnhalted, Is
  <2> QED BY <2>3, <2>4, <2>5
<1>3. ASSUME NEW l \in Lanes, Mark(l) \/ Close(l) PROVE HaltsAgree' /\ GateUnhalted'
  <2>1. UNCHANGED <<now, task, halts>>
    BY <1>3 DEF Mark, Close
  <2> QED BY <2>1, SameDay DEF halts, HaltInv, HaltsAgree, GateUnhalted, Is
<1>4. ASSUME NEW l \in Lanes, Readout(l) PROVE HaltsAgree' /\ GateUnhalted'
  <2>1. /\ Keep([halt EXCEPT ![l] = Pruned[l]]) /\ UNCHANGED <<now, task, found>>
    BY <1>4 DEF Readout
  <2>2. \A m \in Lanes : [halt EXCEPT ![l] = Pruned[l]][m] = halt[m]
                           \/ ([halt EXCEPT ![l] = Pruned[l]][m] = 0 /\ halt[m] # Today)
    BY <1>0 DEF Pruned, ArenaTypes
  <2>3. HaltsAgree'
    BY <1>0, <2>1, <2>2, KeepAgrees
  <2> QED BY <2>1, <2>3, SameDay DEF HaltInv, GateUnhalted, Is
<1>5. CASE Tick
  <2>1. UNCHANGED <<task, halts>> /\ Today' \in Nat /\ Today <= Today'
    <3>1. now' = now + 1 /\ now \in Nat /\ UNCHANGED <<task, halts>>
      BY <1>0, <1>5 DEF Tick, ArenaTypes
    <3> QED BY <3>1, DayIs
  <2>2. \A l \in Lanes : halt[l] \in Nat /\ disk[l] \in Nat /\ found[l] \in Nat
    BY <1>0 DEF ArenaTypes
  <2>3. CASE Today' = Today
    BY <2>1, <2>3 DEF halts, HaltInv, HaltsAgree, GateUnhalted, Is
  <2>4. CASE Today < Today'
    <3>1. \A l \in Lanes : halt[l] < Today' /\ disk[l] < Today' /\ found[l] < Today'
      BY <1>0, <2>1, <2>2, <2>4 DEF HaltsAgree
    <3> QED BY <2>1, <2>2, <3>1 DEF halts, HaltsAgree, GateUnhalted
  <2> QED BY <1>0, <2>1, <2>3, <2>4
<1>6. CASE Crash
  <2>1. UNCHANGED <<now, halts>>
    BY <1>6 DEF Crash
  <2>2. \A l \in Lanes, i \in Items : task'[l][i].pc = "gate" => task[l][i].pc = "gate"
    BY <1>6 DEF Crash, Task
  <2> QED BY <2>1, <2>2, SameDay DEF halts, HaltInv, HaltsAgree, GateUnhalted, Is
<1>7. CASE Restart
  <2>1. halt' = disk /\ UNCHANGED <<now, task, disk, found>>
    BY <1>7 DEF Restart
  <2> QED BY <2>1, SameDay DEF HaltInv, HaltsAgree, GateUnhalted, Is
<1>8. CASE UNCHANGED vars
  <2>1. UNCHANGED <<now, task, halts>>
    BY <1>8 DEF vars
  <2> QED BY <2>1, SameDay DEF halts, HaltInv, HaltsAgree, GateUnhalted, Is
<1> QED BY <1>1, <1>2, <1>3, <1>4, <1>5, <1>6, <1>7, <1>8 DEF Next

LEMMA InitHalts == Init => HaltInv
<1> SUFFICES ASSUME Init PROVE HaltInv
  OBVIOUS
<1>1. LockInv /\ Today \in Nat \ {0}
  BY InitLock, DayAfter DEF LockInv
<1>2. HaltsAgree
  BY <1>1 DEF Init, HaltsAgree
<1>3. \A l \in Lanes, i \in Items : task[l][i].pc = "none"
  BY DEF Init, Task
<1> QED BY <1>1, <1>2, <1>3 DEF HaltInv, GateUnhalted, Is

(* A lane found at its daily limit sends no order that day, and no lane is *)
(* turned away as halted that was not found at its own limit: whatever the *)
(* other lanes do, however often the leaderboard prunes the flags and the  *)
(* process dies in between (config.py, RuntimeState.halt_daily and         *)
(* is_daily_halted; risk.py, evaluate).                                    *)
THEOREM HaltIsOwn == Spec => HaltIsTheLanesOwn
<1>1. Init => HaltInv
  BY InitHalts
<1>2. HaltInv /\ [Next]_vars => HaltInv'
  BY NextLock, NextHalts DEF HaltInv
<1>3. HaltInv => \A l \in Lanes, i \in Items :
                   /\ SendOrder(l, i) => found[l] # Today
                   /\ RejectHalted(l, i) => found[l] = Today
  BY DEF HaltInv, HaltsAgree, GateUnhalted, SendOrder, RejectHalted, Halted
<1> QED BY <1>1, <1>2, <1>3, PTL DEF Spec, HaltIsTheLanesOwn
-----------------------------------------------------------------------------
(***************************************************************************)
(* Repeats.  The gate remembers one signal of each direction, the newest.  *)
(* So a repeat of the last story traded is known for one as long as that   *)
(* memory was not taken by another story in between.                       *)
(***************************************************************************)
LastIsRemembered == \A l \in Lanes, i \in Items :
  Is(l, i, "ready") /\ RepeatsLast(l, i) /\ traded[l].dir \in Sides =>
    \/ signal[l][traded[l].dir] = NoSignal
    \/ signal[l][traded[l].dir].story = Story[i]

Judging == {"ready", "gate", "placing"}

(* The row of a verdict, and of the last order, is at least as old as the  *)
(* newest of its direction, which a restart reads back.                    *)
OnRecord == \A l \in Lanes :
  /\ \A s \in Sides : rows[l][s].at <= now
  /\ \A i \in Items : task[l][i].pc \in Judging /\ task[l][i].verdict.dir \in Sides =>
       0 < task[l][i].at /\ task[l][i].at <= rows[l][task[l][i].verdict.dir].at
  /\ traded[l].dir \in Sides => 0 < traded[l].at /\ traded[l].at <= rows[l][traded[l].dir].at

(* The signal of the last order is there, or it is too old to matter.      *)
Signalled == \A l \in Lanes : traded[l].dir \in Sides =>
  \/ traded[l].at <= signal[l][traded[l].dir].at
  \/ signal[l][traded[l].dir] = NoSignal /\ now - traded[l].at > Window

(* A headline in the gate has left its signal.                             *)
GateSignal(l, i) ==
  LET v == task[l][i].verdict
  IN /\ v.dir \in Sides
     /\ task[l][i].at <= signal[l][v.dir].at
     /\ RepeatsLast(l, i) => signal[l][v.dir].at - traded[l].at >= Window

GateSignals == \A l \in Lanes, i \in Items : Is(l, i, "gate") => GateSignal(l, i)

StoryInv == LockInv /\ OnRecord /\ Signalled /\ GateSignals

LEMMA SignalAt ==
  ASSUME ArenaTypes
  PROVE  /\ \A l \in Lanes, s \in Sides :
              /\ signal[l][s] \in Signals /\ signal[l][s].at \in Nat
              /\ rows[l][s] \in Signals /\ rows[l][s].at \in Nat
         /\ \A l \in Lanes : traded[l].at \in Nat /\ traded[l].dir \in Sides \cup {"none"}
         /\ \A l \in Lanes, i \in Items :
              task[l][i] \in TaskStates /\ task[l][i].at \in Nat /\ task[l][i].verdict.conf \in Nat
         /\ now \in Nat \ {0} /\ Window \in Nat
<1>1. \A g \in Signals : g.at \in Nat
  BY DEF Signals, NoSignal
<1>2. \A t \in TaskStates : t.at \in Nat /\ t.verdict.conf \in Nat
  BY DEF TaskStates
<1> QED BY <1>1, <1>2, ArenaAssumption DEF ArenaTypes

(* Nothing is judged and nothing ordered.                                  *)
LEMMA StoryRests ==
  ASSUME StoryInv, UNCHANGED <<signal, rows, traded>>, now' \in Nat, now <= now',
         \A l \in Lanes, i \in Items : task'[l][i].pc \in Judging => task'[l][i] = task[l][i]
  PROVE  OnRecord' /\ Signalled' /\ GateSignals'
<1>0. ArenaTypes
  BY DEF StoryInv, LockInv
<1>1. OnRecord'
  BY <1>0, SignalAt DEF StoryInv, OnRecord
<1>2. Signalled'
  BY <1>0, SignalAt DEF StoryInv, Signalled
<1>3. GateSignals'
  BY DEF StoryInv, GateSignals, GateSignal, RepeatsLast, Is, Judging
<1> QED BY <1>1, <1>2, <1>3

LEMMA AnalyzedStory ==
  ASSUME StoryInv, NEW l \in Lanes, NEW i \in Items, Analyzed(l, i)
  PROVE  OnRecord' /\ Signalled' /\ GateSignals'
<1>0. ArenaTypes
  BY DEF StoryInv, LockInv
<1>1. PICK v \in Verdicts[l] :
        /\ task' = [task EXCEPT ![l][i] = [pc |-> "ready", verdict |-> v, at |-> now]]
        /\ rows' = IF v.dir \in Sides
                   THEN [rows EXCEPT ![l][v.dir] = [at |-> now, story |-> Story[i]]] ELSE rows
        /\ UNCHANGED <<now, signal, traded>>
  BY DEF Analyzed, halts
<1>2. /\ task'[l][i] = [pc |-> "ready", verdict |-> v, at |-> now]
      /\ \A m \in Lanes, j \in Items : m # l \/ j # i => task'[m][j] = task[m][j]
  BY <1>0, <1>1 DEF ArenaTypes
<1>3. \A m \in Lanes, s \in Sides :
        /\ rows[m][s].at <= rows'[m][s].at /\ rows'[m][s].at <= now
        /\ m = l /\ s = v.dir => rows'[m][s].at = now
  <2>1. CASE v.dir \in Sides
    <3>1. /\ rows'[l][v.dir] = [at |-> now, story |-> Story[i]]
          /\ \A m \in Lanes, s \in Sides : m # l \/ s # v.dir => rows'[m][s] = rows[m][s]
      BY <1>0, <1>1, <2>1, SignalTyped DEF ArenaTypes
    <3> QED BY <1>0, <3>1, SignalAt DEF StoryInv, OnRecord
  <2>2. CASE v.dir \notin Sides
    BY <1>0, <1>1, <2>2, SignalAt DEF StoryInv, OnRecord
  <2> QED BY <2>1, <2>2
<1>4. \A m \in Lanes, s \in Sides : rows'[m][s].at \in Nat /\ rows[m][s].at \in Nat
  <2>1. ArenaTypes'
    BY <1>0, TaskStepTyped DEF TaskStep
  <2>2. \A g \in Signals : g.at \in Nat
    BY DEF Signals, NoSignal
  <2> QED BY <1>0, <2>1, <2>2 DEF ArenaTypes
<1>5. OnRecord'
  <2>1. \A m \in Lanes, j \in Items :
          task'[m][j].pc \in Judging /\ task'[m][j].verdict.dir \in Sides =>
            0 < task'[m][j].at /\ task'[m][j].at <= rows'[m][task'[m][j].verdict.dir].at
    <3> SUFFICES ASSUME NEW m \in Lanes, NEW j \in Items,
                        task'[m][j].pc \in Judging, task'[m][j].verdict.dir \in Sides
                 PROVE  0 < task'[m][j].at
                        /\ task'[m][j].at <= rows'[m][task'[m][j].verdict.dir].at
      OBVIOUS
    <3>1. CASE m = l /\ j = i
      BY <1>0, <1>2, <1>3, <3>1, SignalAt
    <3>2. CASE m # l \/ j # i
      BY <1>0, <1>2, <1>3, <1>4, <3>2, SignalAt DEF StoryInv, OnRecord
    <3> QED BY <3>1, <3>2
  <2>2. \A m \in Lanes : traded[m].dir \in Sides =>
          0 < traded[m].at /\ traded[m].at <= rows'[m][traded[m].dir].at
    BY <1>0, <1>3, <1>4, SignalAt DEF StoryInv, OnRecord
  <2> QED BY <1>1, <1>3, <2>1, <2>2 DEF OnRecord
<1>6. Signalled'
  BY <1>1 DEF StoryInv, Signalled
<1>7. GateSignals'
  BY <1>1, <1>2 DEF StoryInv, GateSignals, GateSignal, RepeatsLast, Is
<1> QED BY <1>5, <1>6, <1>7

(* A headline that passes the duplicate window does not repeat the last    *)
(* order, or does so when the window is over.                              *)
LEMMA JudgedAfterWindow ==
  ASSUME StoryInv, LastIsRemembered, NEW l \in Lanes, NEW i \in Items, Is(l, i, "ready"),
         RepeatsLast(l, i), task[l][i].verdict.dir \in Sides, ~Repeats(l, i, task[l][i].verdict)
  PROVE  now - traded[l].at >= Window
<1> DEFINE g == signal[l][traded[l].dir]
<1>0. ArenaTypes
  BY DEF StoryInv, LockInv
<1>1. traded[l].dir \in Sides /\ traded[l].dir = task[l][i].verdict.dir
  BY DEF RepeatsLast
<1>2. /\ g.at \in Nat /\ traded[l].at \in Nat /\ now \in Nat /\ Window \in Nat
      /\ 0 < traded[l].at /\ traded[l].at <= now
  BY <1>0, <1>1, SignalAt DEF StoryInv, OnRecord
<1>3. traded[l].at <= g.at \/ (g = NoSignal /\ now - traded[l].at > Window)
  BY <1>1 DEF StoryInv, Signalled
<1>4. CASE g = NoSignal /\ now - traded[l].at > Window
  BY <1>2, <1>4
<1>5. CASE traded[l].at <= g.at
  <2>1. g # NoSignal
    BY <1>2, <1>5 DEF NoSignal
  <2>2. g.story = Story[i]
    BY <1>1, <2>1 DEF LastIsRemembered
  <2>3. Window = 0 \/ now - g.at >= Window
    BY <1>1, <1>2, <2>2 DEF Repeats
  <2> QED BY <1>2, <1>5, <2>3
<1> QED BY <1>3, <1>4, <1>5

LEMMA JudgeStory ==
  ASSUME StoryInv, LastIsRemembered, NEW l \in Lanes, NEW i \in Items, Judge(l, i)
  PROVE  OnRecord' /\ Signalled' /\ GateSignals'
<1> DEFINE v == task[l][i].verdict
<1>0. ArenaTypes
  BY DEF StoryInv, LockInv
<1>1. /\ Is(l, i, "ready") /\ LockFree(l) /\ UNCHANGED <<now, rows, traded>>
      /\ signal' = IF v.dir \in Sides
                   THEN [signal EXCEPT ![l][v.dir] = [at |-> now, story |-> Story[i]]] ELSE signal
      /\ \/ To(l, i, "done")
         \/ /\ task' = [task EXCEPT ![l][i] = [task[l][i] EXCEPT !.pc = "gate"]]
            /\ v.dir \in Sides /\ ~Repeats(l, i, v)
  BY <1>0 DEF Judge, Enters, To, ArenaTypes
<1>2. \A m \in Lanes, s \in Sides :
        /\ m = l /\ s = v.dir => signal'[m][s] = [at |-> now, story |-> Story[i]]
        /\ m # l \/ s # v.dir => signal'[m][s] = signal[m][s]
  <2>1. CASE v.dir \in Sides
    BY <1>0, <1>1, <2>1, SignalTyped DEF ArenaTypes
  <2>2. CASE v.dir \notin Sides
    BY <1>1, <2>2
  <2> QED BY <2>1, <2>2
<1>3. /\ \A m \in Lanes, j \in Items : m # l \/ j # i => task'[m][j] = task[m][j]
      /\ \/ task'[l][i].pc = "done"
         \/ /\ task'[l][i].pc = "gate" /\ task'[l][i].verdict = v /\ task'[l][i].at = task[l][i].at
            /\ v.dir \in Sides /\ ~Repeats(l, i, v)
  <2>1. CASE To(l, i, "done")
    BY <1>0, <2>1 DEF To, Task, ArenaTypes
  <2>2. CASE /\ task' = [task EXCEPT ![l][i] = [task[l][i] EXCEPT !.pc = "gate"]]
             /\ v.dir \in Sides /\ ~Repeats(l, i, v)
    <3> DEFINE g == [task[l][i] EXCEPT !.pc = "gate"]
    <3>1. task[l][i] \in TaskStates /\ "gate" \in Pcs
      BY <1>0 DEF ArenaTypes, Pcs
    <3>2. g.pc = "gate" /\ g.verdict = v /\ g.at = task[l][i].at
      BY <3>1, TaskTypes
    <3>3. task' = [task EXCEPT ![l][i] = g]
      BY <2>2
    <3> HIDE DEF g
    <3>4. /\ task'[l][i] = g
          /\ \A m \in Lanes, j \in Items : m # l \/ j # i => task'[m][j] = task[m][j]
      BY <1>0, <3>3 DEF ArenaTypes
    <3> QED BY <2>2, <3>2, <3>4
  <2> QED BY <1>1, <2>1, <2>2
<1>4. Is(l, i, "ready") /\ task[l][i].pc \in Judging
  BY <1>1 DEF Is, Judging
<1>5. OnRecord'
  <2>1. \A m \in Lanes, j \in Items : task'[m][j].pc \in Judging =>
          /\ task[m][j].pc \in Judging /\ task'[m][j].verdict = task[m][j].verdict
          /\ task'[m][j].at = task[m][j].at
    BY <1>3, <1>4 DEF Judging
  <2> QED BY <1>1, <2>1 DEF StoryInv, OnRecord
<1>6. Signalled'
  <2> SUFFICES ASSUME NEW m \in Lanes, traded[m].dir \in Sides
               PROVE  \/ traded[m].at <= signal'[m][traded[m].dir].at
                      \/ signal'[m][traded[m].dir] = NoSignal /\ now - traded[m].at > Window
    BY <1>1 DEF Signalled
  <2>1. CASE m = l /\ traded[m].dir = v.dir
    <3>1. signal'[m][traded[m].dir].at = now
      BY <1>2, <2>1
    <3>2. traded[m].at <= now
      BY <1>0, SignalAt DEF StoryInv, OnRecord
    <3> QED BY <3>1, <3>2
  <2>2. CASE m # l \/ traded[m].dir # v.dir
    BY <1>2, <2>2 DEF StoryInv, Signalled
  <2> QED BY <2>1, <2>2
<1>7. GateSignals'
  <2>1. \A m \in Lanes, j \in Items : Is(m, j, "gate") /\ ~(m = l /\ j = i) => m # l
    BY <1>1 DEF Is, LockFree
  <2>2. ASSUME NEW m \in Lanes, NEW j \in Items, m # l, task'[m][j].pc = "gate"
        PROVE  GateSignal(m, j)'
    <3>1. task'[m][j] = task[m][j] /\ \A s \in Sides : signal'[m][s] = signal[m][s]
      BY <1>2, <1>3, <2>2
    <3>2. GateSignal(m, j)
      BY <2>2, <3>1 DEF StoryInv, GateSignals, Is
    <3> QED BY <1>1, <3>1, <3>2 DEF GateSignal, RepeatsLast
  <2>3. ASSUME task'[l][i].pc = "gate" PROVE GateSignal(l, i)'
    <3>1. /\ task'[l][i].verdict = v /\ task'[l][i].at = task[l][i].at
          /\ v.dir \in Sides /\ ~Repeats(l, i, v)
      BY <1>3, <2>3
    <3>2. signal'[l][v.dir].at = now
      BY <1>2, <3>1
    <3>3. task[l][i].at <= now
      BY <1>0, <1>4, <3>1, SignalAt DEF StoryInv, OnRecord
    <3>4. RepeatsLast(l, i) => now - traded[l].at >= Window
      BY <1>1, <3>1, JudgedAfterWindow
    <3>5. RepeatsLast(l, i)' <=> RepeatsLast(l, i)
      BY <1>1, <3>1 DEF RepeatsLast
    <3> QED BY <1>1, <3>1, <3>2, <3>3, <3>4, <3>5 DEF GateSignal
  <2>4. ASSUME NEW m \in Lanes, NEW j \in Items, task'[m][j].pc = "gate" PROVE GateSignal(m, j)'
    <3>1. CASE m = l /\ j = i
      BY <2>3, <2>4, <3>1
    <3>2. CASE ~(m = l /\ j = i)
      <4>1. task'[m][j] = task[m][j]
        BY <1>3, <3>2
      <4>2. m # l
        BY <2>1, <2>4, <3>2, <4>1 DEF Is
      <4> QED BY <2>2, <2>4, <4>2
    <3> QED BY <3>1, <3>2
  <2> QED BY <2>4 DEF GateSignals, Is
<1> QED BY <1>5, <1>6, <1>7

LEMMA OrderStory ==
  ASSUME StoryInv, NEW l \in Lanes, NEW i \in Items, SendOrder(l, i)
  PROVE  OnRecord' /\ Signalled' /\ GateSignals'
<1> DEFINE v == task[l][i].verdict
<1>0. ArenaTypes /\ GateSignal(l, i) /\ task[l][i].pc = "gate"
  BY DEF StoryInv, LockInv, GateSignals, SendOrder, Is
<1>1. /\ UNCHANGED <<now, signal, rows>>
      /\ traded'[l].at = task[l][i].at /\ traded'[l].dir = v.dir
      /\ \A m \in Lanes : m # l => traded'[m] = traded[m]
  BY <1>0 DEF SendOrder, ArenaTypes
<1>2. PICK t \in TaskStates : Moved(l, i, t)
  BY <1>0, TaskMoves DEF TaskStep
<1>3. /\ task'[l][i] = t /\ t.verdict = v /\ t.at = task[l][i].at /\ t.pc = "placing"
      /\ \A m \in Lanes, j \in Items : m # l \/ j # i => task'[m][j] = task[m][j]
  <2> DEFINE g == [task[l][i] EXCEPT !.pc = "placing"]
  <2>1. task[l][i] \in TaskStates /\ "placing" \in Pcs
    BY <1>0 DEF ArenaTypes, Pcs
  <2>2. g.pc = "placing"
    BY <2>1, TaskTypes
  <2>3. task' = [task EXCEPT ![l][i] = g] /\ task' = [task EXCEPT ![l][i] = t]
    BY <1>2 DEF SendOrder, Moved
  <2> HIDE DEF g
  <2>4. /\ task'[l][i] = g /\ task'[l][i] = t
        /\ \A m \in Lanes, j \in Items : m # l \/ j # i => task'[m][j] = task[m][j]
    BY <1>0, <2>3 DEF ArenaTypes
  <2> QED BY <1>2, <2>2, <2>4 DEF Moved
<1>4. v.dir \in Sides /\ task[l][i].at <= signal[l][v.dir].at
  BY <1>0 DEF GateSignal
<1>5. 0 < task[l][i].at /\ task[l][i].at <= rows[l][v.dir].at
  BY <1>0, <1>4 DEF StoryInv, OnRecord, Judging
<1>6. OnRecord'
  <2>1. \A m \in Lanes, j \in Items : task'[m][j].pc \in Judging =>
          /\ task[m][j].pc \in Judging /\ task'[m][j].verdict = task[m][j].verdict
          /\ task'[m][j].at = task[m][j].at
    BY <1>0, <1>3 DEF Judging
  <2> QED BY <1>1, <1>5, <2>1 DEF StoryInv, OnRecord
<1>7. Signalled'
  BY <1>1, <1>4 DEF StoryInv, Signalled
<1>8. GateSignals'
  <2>1. ASSUME NEW m \in Lanes, NEW j \in Items, task'[m][j].pc = "gate" PROVE GateSignal(m, j)'
    <3>1. task'[m][j] = task[m][j] /\ task[m][j].pc = "gate" /\ ~(m = l /\ j = i)
      BY <1>3, <2>1
    <3>2. m # l
      BY <1>0, <3>1 DEF StoryInv, LockInv, OneInside, Inside
    <3> QED BY <1>1, <3>1, <3>2 DEF StoryInv, GateSignals, GateSignal, RepeatsLast, Is
  <2> QED BY <2>1 DEF GateSignals, Is
<1> QED BY <1>6, <1>7, <1>8

(* A restart forgets what is older than the window, and nobody is in the   *)
(* gate.                                                                   *)
LEMMA RestartStory == ASSUME StoryInv, Restart PROVE OnRecord' /\ Signalled' /\ GateSignals'
<1>0. ArenaTypes
  BY DEF StoryInv, LockInv
<1>1. UNCHANGED <<now, task, rows, traded>> /\ signal' = [l \in Lanes |-> Restored(l)]
  BY DEF Restart
<1>2. \A l \in Lanes, i \in Items : task[l][i].pc \in Ended
  BY DEF StoryInv, LockInv, DownIdle, Restart
<1>3. OnRecord'
  BY <1>1 DEF StoryInv, OnRecord
<1>4. Signalled'
  <2> SUFFICES ASSUME NEW l \in Lanes, traded[l].dir \in Sides
               PROVE  \/ traded[l].at <= signal'[l][traded[l].dir].at
                      \/ signal'[l][traded[l].dir] = NoSignal /\ now - traded[l].at > Window
    BY <1>1 DEF Signalled
  <2> DEFINE g == rows[l][traded[l].dir]
  <2>1. traded[l].at <= g.at /\ g.at \in Nat /\ traded[l].at \in Nat /\ now \in Nat /\ Window \in Nat
    BY <1>0, SignalAt DEF StoryInv, OnRecord
  <2>2. signal'[l][traded[l].dir] = IF g.at >= now - Window THEN g ELSE NoSignal
    BY <1>1 DEF Restored
  <2>3. CASE g.at >= now - Window
    BY <2>1, <2>2, <2>3
  <2>4. CASE ~(g.at >= now - Window)
    BY <2>1, <2>2, <2>4
  <2> QED BY <2>3, <2>4
<1>5. GateSignals'
  BY <1>1, <1>2 DEF GateSignals, Is, Ended
<1> QED BY <1>3, <1>4, <1>5

LEMMA NextStory ==
  StoryInv /\ LastIsRemembered /\ [Next]_vars => OnRecord' /\ Signalled' /\ GateSignals'
<1> SUFFICES ASSUME StoryInv, LastIsRemembered, [Next]_vars
             PROVE  OnRecord' /\ Signalled' /\ GateSignals'
  OBVIOUS
<1>0. ArenaTypes /\ now \in Nat
  BY DEF StoryInv, LockInv, ArenaTypes
<1>1. ASSUME NEW i \in Items, Deliver(i) PROVE OnRecord' /\ Signalled' /\ GateSignals'
  <2>1. UNCHANGED <<signal, rows, traded, now>>
    BY <1>1 DEF Deliver
  <2>2. \A l \in Lanes, j \in Items :
          task'[l][j] = IF j = i THEN Task("queued") ELSE task[l][j]
    BY <1>0, <1>1 DEF Deliver, ArenaTypes
  <2>3. Task("queued").pc \notin Judging
    BY DEF Task, Judging
  <2> QED BY <1>0, <2>1, <2>2, <2>3, StoryRests
<1>2. ASSUME NEW l \in Lanes, NEW i \in Items, TaskStep(l, i)
      PROVE  OnRecord' /\ Signalled' /\ GateSignals'
  <2>1. CASE Analyzed(l, i)
    BY <2>1, AnalyzedStory
  <2>2. CASE Judge(l, i)
    BY <2>2, JudgeStory
  <2>3. CASE SendOrder(l, i)
    BY <2>3, OrderStory
  <2>4. ASSUME UNCHANGED <<signal, rows, traded, now>>, NEW pc \in Pcs, To(l, i, pc), pc \notin Judging
        PROVE  OnRecord' /\ Signalled' /\ GateSignals'
    <3>1. /\ task'[l][i].pc = pc
          /\ \A m \in Lanes, j \in Items : m # l \/ j # i => task'[m][j] = task[m][j]
      BY <1>0, <2>4 DEF To, Task, ArenaTypes
    <3>2. \A m \in Lanes, j \in Items : task'[m][j].pc \in Judging => task'[m][j] = task[m][j]
      BY <2>4, <3>1
    <3> QED BY <1>0, <2>4, <3>2, StoryRests
  <2>5. CASE BeginAnalysis(l, i)
    BY <2>4, <2>5 DEF BeginAnalysis, Pcs, Judging
  <2>6. CASE Raises(l, i)
    BY <2>4, <2>6 DEF Raises, Pcs, Judging
  <2>7. CASE ExitContrary(l, i)
    BY <2>4, <2>7 DEF ExitContrary, Pcs, Judging
  <2>8. CASE EndExit(l, i) \/ RejectHalted(l, i) \/ Disregard(l, i) \/ CheckLoss(l, i)
               \/ RejectMarket(l, i) \/ OrderFails(l, i) \/ OrderFills(l, i)
    <3>1. To(l, i, "done") /\ UNCHANGED <<signal, rows, traded, now>>
      BY <2>8 DEF EndExit, RejectHalted, Disregard, CheckLoss, RejectMarket, OrderFails, OrderFills
    <3> QED BY <2>4, <3>1 DEF Pcs, Judging
  <2> QED BY <1>2, <2>1, <2>2, <2>3, <2>5, <2>6, <2>7, <2>8 DEF TaskStep
<1>3. CASE \E l \in Lanes : Mark(l) \/ Close(l) \/ Readout(l)
  <2>1. UNCHANGED <<task, signal, rows, traded, now>>
    BY <1>3 DEF Mark, Close, Readout
  <2> QED BY <1>0, <2>1, StoryRests
<1>4. CASE Tick
  <2>1. UNCHANGED <<task, signal, rows, traded>> /\ now' = now + 1
    BY <1>4 DEF Tick
  <2> QED BY <1>0, <2>1, StoryRests
<1>5. CASE Crash
  <2>1. UNCHANGED <<signal, rows, traded, now>>
    BY <1>5 DEF Crash
  <2>2. \A l \in Lanes, i \in Items : task'[l][i].pc \in Judging => task'[l][i] = task[l][i]
    BY <1>5 DEF Crash, Task, Judging
  <2> QED BY <1>0, <2>1, <2>2, StoryRests
<1>6. CASE Restart
  BY <1>6, RestartStory
<1>7. CASE UNCHANGED vars
  <2>1. UNCHANGED <<task, signal, rows, traded, now>>
    BY <1>7 DEF vars
  <2> QED BY <1>0, <2>1, StoryRests
<1> QED BY <1>1, <1>2, <1>3, <1>4, <1>5, <1>6, <1>7 DEF Next

LEMMA InitStory == Init => StoryInv
<1> SUFFICES ASSUME Init PROVE StoryInv
  OBVIOUS
<1>1. LockInv
  BY InitLock
<1>2. /\ \A l \in Lanes, i \in Items : task[l][i].pc = "none"
      /\ \A l \in Lanes : traded[l].dir = "none"
      /\ \A l \in Lanes, s \in Sides : rows[l][s].at = 0
      /\ now = 1
  BY DEF Init, Task, None, NoSignal
<1>3. OnRecord /\ Signalled /\ GateSignals
  BY <1>2 DEF OnRecord, Signalled, GateSignals, Is, Judging, Sides
<1> QED BY <1>1, <1>3 DEF StoryInv

(* A lane judges no headline fit that repeats the story of its last order  *)
(* within the window of the analysis that led to that order, over crashes  *)
(* and restarts: what memory suppressed before, the table makes it         *)
(* suppress after (risk.py:196-246).                                       *)
THEOREM RepeatsAreStopped == []LastIsRemembered => (Spec => StoryTradedOnce)
<1>1. Init => StoryInv
  BY InitStory
<1>2. StoryInv /\ LastIsRemembered /\ [Next]_vars => StoryInv'
  BY NextLock, NextStory DEF StoryInv
<1>3. StoryInv =>
        \A l \in Lanes, i \in Items :
          SendOrder(l, i) /\ RepeatsLast(l, i)
            => signal[l][traded[l].dir].at - traded[l].at >= Window
  BY DEF StoryInv, GateSignals, GateSignal, SendOrder, RepeatsLast
<1> QED BY <1>1, <1>2, <1>3, PTL DEF Spec, StoryTradedOnce

(* With one story only, as in the run, nothing else takes the memory.      *)
OneStory == \A i, j \in Items : Story[i] = Story[j]

LEMMA OneIsRemembered == OneStory /\ ArenaTypes => LastIsRemembered
<1> SUFFICES ASSUME OneStory, ArenaTypes, NEW l \in Lanes, NEW i \in Items,
                    traded[l].dir \in Sides
             PROVE  \/ signal[l][traded[l].dir] = NoSignal
                    \/ signal[l][traded[l].dir].story = Story[i]
  BY DEF LastIsRemembered
<1>1. signal[l][traded[l].dir] \in Signals
  BY SignalAt
<1> QED BY <1>1 DEF Signals, Told, OneStory

(* So the lanes trade a story once, whatever number of headlines tell it.  *)
THEOREM OneStoryIsTradedOnce == OneStory => (Spec => StoryTradedOnce)
<1> SUFFICES ASSUME OneStory PROVE Spec => StoryTradedOnce
  OBVIOUS
<1>1. Spec => []ArenaTypes
  <2>1. Init => ArenaTypes
    BY InitLock DEF LockInv
  <2> QED BY <2>1, NextTyped, PTL DEF Spec
<1>2. ArenaTypes => LastIsRemembered
  BY OneIsRemembered
<1> QED BY <1>1, <1>2, RepeatsAreStopped, PTL
==============================================================================
