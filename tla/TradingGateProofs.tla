------------------------- MODULE TradingGateProofs --------------------------
(***************************************************************************)
(* What the gate and RuntimeState guarantee whatever the markets, the      *)
(* outcomes, the limit and the clock: proofs of the type invariant and of  *)
(* the properties about halts, the mode, the cooldown and the loss limit.  *)
(***************************************************************************)
EXTENDS TradingGate, TLAPS, SequenceTheorems

(* An action that leaves the runtime flags, their file and the count of    *)
(* orders alone.                                                           *)
KeepsFlags == UNCHANGED <<runtime, disk, passed>>

LEMMA DefaultsType == Defaults \in RuntimeStates /\ Torn.day = -1 /\ Torn \notin RuntimeStates
  BY DEF Defaults, RuntimeStates, Modes, Torn

LEMMA NoRowType == NoRow \in Rows /\ NoRow.mkt = NoMarket /\ ~NoRow.open
  BY DEF NoRow, Rows, Modes

LEMMA NewRowType ==
  ASSUME NEW m \in Markets, NEW md \in Modes
  PROVE  LET new == [NoRow EXCEPT !.mkt = m, !.mode = md, !.open = TRUE]
         IN new \in Rows /\ new.open /\ new.mkt # NoMarket
  BY NoRowType, GateAssumption DEF Rows

GateStates(pcs, t) ==
  [pc : pcs, mkt : Markets \cup {NoMarket}, mode : Modes, sent : 0 .. t,
   since : Nat, answer : SUBSET Orders]

LEMMA IdleType ==
  ASSUME NEW t \in Nat
  PROVE  Idle \in GateStates({"idle"}, t)
  BY DEF Idle, GateStates, Modes

LEMMA PricingGate ==
  ASSUME NEW t \in Nat, NEW m \in Markets, NEW md \in Modes
  PROVE  LET g == [Idle EXCEPT !.pc = "pricing", !.mkt = m, !.mode = md]
         IN g \in GateStates({"pricing"}, t) /\ g.pc = "pricing" /\ g.mkt = m
<1>1. Idle \in GateStates({"idle"}, t)
  BY IdleType
<1> QED
  BY <1>1 DEF GateStates

LEMMA TodayType ==
  ASSUME now \in Nat
  PROVE  Today \in Nat /\ Today # 0
<1>1. DayLength \in Nat /\ DayLength > 0
  BY GateAssumption
<1> QED
  BY <1>1 DEF Today

LEMMA ClearedType ==
  ASSUME NEW rt \in RuntimeStates
  PROVE  /\ Cleared(rt) \in RuntimeStates
         /\ ~Cleared(rt).halted /\ ~Cleared(rt).daily
         /\ Cleared(rt).mode = rt.mode
  BY DEF Cleared, Defaults, RuntimeStates, Modes

LEMMA AutoResumedType ==
  ASSUME NEW rt \in RuntimeStates, rt.daily => rt.halted /\ rt.day # 0
  PROVE  /\ AutoResumed(rt) \in RuntimeStates
         /\ AutoResumed(rt).mode = rt.mode
         /\ AutoResumed(rt).daily => AutoResumed(rt).halted /\ AutoResumed(rt).day # 0
         /\ rt.halted /\ ~rt.daily => AutoResumed(rt) = rt
         /\ rt.halted /\ rt.daily /\ rt.day = Today => AutoResumed(rt) = rt
         /\ ~rt.halted => AutoResumed(rt) = rt
  BY ClearedType DEF AutoResumed, RuntimeStates

LEMMA HaltDailyType ==
  ASSUME NEW rt \in RuntimeStates, now \in Nat,
         rt.daily => rt.halted /\ rt.day # 0
  PROVE  /\ HaltDaily(rt) \in RuntimeStates
         /\ HaltDaily(rt).mode = rt.mode
         /\ HaltDaily(rt).halted
         /\ HaltDaily(rt).daily => HaltDaily(rt).halted /\ HaltDaily(rt).day # 0
         /\ rt.halted /\ ~rt.daily => HaltDaily(rt) = rt
<1>1. CASE rt.halted /\ ~rt.daily
  BY <1>1 DEF HaltDaily
<1>2. CASE ~(rt.halted /\ ~rt.daily)
  <2>1. HaltDaily(rt) = [rt EXCEPT !.halted = TRUE, !.daily = TRUE, !.day = Today]
    BY <1>2, Zenon DEF HaltDaily
  <2>2. Today \in Nat /\ Today # 0
    BY TodayType
  <2> QED
    BY <1>2, <2>1, <2>2 DEF RuntimeStates
<1> QED
  BY <1>1, <1>2

LEMMA BecomeType ==
  ASSUME NEW rt \in RuntimeStates, rt.daily => rt.halted /\ rt.day # 0,
         disk \in RuntimeStates \cup {Torn}, passed \in Nat, Become(rt)
  PROVE  /\ runtime' \in RuntimeStates
         /\ runtime'.daily => runtime'.halted /\ runtime'.day # 0
         /\ disk' \in RuntimeStates \cup {Torn}
         /\ passed' \in Nat
  BY DEF Become

-----------------------------------------------------------------------------
(***************************************************************************)
(* Type correctness, in the parts the actions disturb.                     *)
(***************************************************************************)
FlagsOK ==
  /\ runtime \in RuntimeStates
  /\ runtime.daily => runtime.halted /\ runtime.day # 0
  /\ disk \in RuntimeStates \cup {Torn}
  /\ disk # Torn => (disk.daily => disk.halted /\ disk.day # 0)
  /\ passed \in Nat

Stages == {"idle", "reading", "pricing", "placing", "tracking"}

GateOK == gate \in GateStates(Stages, now)

(* A headline in the gate has a market, and no order has its number yet.   *)
GateBusy == gate.pc # "idle" => gate.mkt \in Markets /\ up

Numbered ==
  /\ \A e \in Placed : e <= entries
  /\ gate.pc = "placing" => entries \in Orders \ Placed
  /\ gate.pc = "tracking" => entries \in Placed \ tracked

BookOK ==
  /\ row \in [Orders -> Rows]
  /\ tracked \subseteq Placed /\ {e \in Orders : row[e].open} \subseteq Placed
  /\ mark \in [Orders -> Int]
  /\ opened \in [Markets -> 0 .. now] /\ lastEntry \in [Markets -> 0 .. now]

StoreOK == queue \in Seq(Asked) /\ executed \in 0 .. Len(queue)

BoundsOK ==
  /\ up \in BOOLEAN
  /\ now \in Nat /\ now > 0
  /\ entries \in 0 .. MaxEntries /\ crashes \in 0 .. MaxCrashes

TypeInv == FlagsOK /\ GateOK /\ GateBusy /\ Numbered /\ BookOK /\ StoreOK /\ BoundsOK

LEMMA TypeInvImplies == TypeInv => TypeOK
  BY DEF TypeInv, FlagsOK, GateOK, GateStates, Stages, BookOK, StoreOK, BoundsOK, TypeOK

LEMMA TypeInit == Init => TypeInv
<1> SUFFICES ASSUME Init PROVE TypeInv
  OBVIOUS
<1> USE DEF Init
<1>1. FlagsOK
  BY DefaultsType DEF FlagsOK, Defaults
<1>2. GateOK /\ GateBusy /\ Idle.pc = "idle"
  BY IdleType DEF GateOK, GateBusy, GateStates, Stages, Idle
<1>5. Placed = {}
  BY NoRowType DEF Placed
<1>3. BookOK /\ StoreOK /\ Numbered
  BY NoRowType, <1>2, <1>5 DEF BookOK, StoreOK, Numbered
<1>4. BoundsOK
  BY GateAssumption DEF BoundsOK
<1> QED
  BY <1>1, <1>2, <1>3, <1>4 DEF TypeInv

(* Flags change by Become only, or when the process crashes and restarts.  *)
LEMMA FlagsStep ==
  ASSUME TypeInv, [Next]_vars
  PROVE  FlagsOK'
<1> USE DEF TypeInv, FlagsOK, BoundsOK
<1>1. ASSUME NEW rt \in RuntimeStates, rt.daily => rt.halted /\ rt.day # 0, Become(rt)
      PROVE  FlagsOK'
  BY <1>1, DefaultsType DEF Become
<1>2. CASE Halt
  <2> DEFINE rt == [Cleared(runtime) EXCEPT !.halted = TRUE]
  <2>1. rt \in RuntimeStates /\ ~rt.daily
    BY ClearedType DEF RuntimeStates
  <2>2. Become(rt)
    BY <1>2 DEF Halt, Operate
  <2> HIDE DEF rt
  <2> QED
    BY <1>1, <2>1, <2>2
<1>3. CASE Resume
  BY <1>1, <1>3, ClearedType DEF Resume, Operate
<1>4. CASE Toggle
  <2>1. PICK mode \in Modes : Become([runtime EXCEPT !.mode = mode])
    BY <1>4 DEF Toggle, Operate
  <2> DEFINE rt == [runtime EXCEPT !.mode = mode]
  <2>2. rt \in RuntimeStates /\ (rt.daily => rt.halted /\ rt.day # 0)
    BY DEF RuntimeStates
  <2>3. Become(rt)
    BY <2>1
  <2> HIDE DEF rt
  <2> QED
    BY <1>1, <2>2, <2>3
<1>5. ASSUME NEW m \in Markets, Begin(m) PROVE FlagsOK'
  BY <1>1, <1>5, AutoResumedType DEF Begin
<1>6. CASE CheckLoss
  BY <1>1, <1>6, HaltDailyType DEF CheckLoss
<1>7. ASSUME KeepsFlags PROVE FlagsOK'
  BY <1>7 DEF KeepsFlags
<1>8. CASE SendOrder
  BY <1>8 DEF SendOrder
<1>9. CASE Crash
  BY <1>9 DEF Crash
<1>10. CASE Restart
  BY <1>10, DefaultsType DEF Restart, Loaded, Defaults
<1>11. ASSUME NEW e \in Orders, Mark(e) \/ Close(e) \/ Drop(e) PROVE KeepsFlags
  BY <1>11 DEF Mark, Close, Drop, KeepsFlags
<1>12. CASE CheckMarket \/ GuardRejects \/ OrderFails \/ OrderFills \/ Track \/ StoreExecutes
  BY <1>7, <1>12 DEF CheckMarket, GuardRejects, OrderFails, OrderFills, Track, StoreExecutes,
                     KeepsFlags
<1>13. CASE Tick
  BY <1>7, <1>13 DEF Tick, memory, KeepsFlags
<1>14. CASE UNCHANGED vars
  BY <1>7, <1>14 DEF vars, memory, KeepsFlags
<1> QED
  BY <1>2, <1>3, <1>4, <1>5, <1>6, <1>7, <1>8, <1>9, <1>10, <1>11, <1>12, <1>13, <1>14
  DEF Next, GateStep

LEMMA BoundsStep ==
  ASSUME TypeInv, [Next]_vars
  PROVE  BoundsOK'
<1> USE DEF TypeInv, BoundsOK
<1>1. ASSUME UNCHANGED <<up, bounds>> PROVE BoundsOK'
  BY <1>1 DEF bounds
<1>2. CASE Halt \/ Resume \/ Toggle
  BY <1>1, <1>2 DEF Halt, Resume, Toggle, Operate
<1>3. ASSUME NEW m \in Markets, Begin(m) PROVE BoundsOK'
  BY <1>1, <1>3 DEF Begin
<1>10. ASSUME NEW e \in Orders, Mark(e) \/ Close(e) \/ Drop(e) PROVE BoundsOK'
  BY <1>1, <1>10 DEF Mark, Close, Drop
<1>11. CASE StoreExecutes
  BY <1>1, <1>11 DEF StoreExecutes
<1>4. CASE CheckLoss \/ CheckMarket \/ GuardRejects \/ OrderFails \/ OrderFills \/ Track
  BY <1>1, <1>4 DEF CheckLoss, CheckMarket, GuardRejects, OrderFails, OrderFills, Track
<1>5. CASE SendOrder
  BY <1>5, GateAssumption DEF SendOrder
<1>6. CASE Tick
  BY <1>6 DEF Tick
<1>7. CASE Crash
  <2>1. MaxCrashes \in Nat
    BY GateAssumption
  <2>2. crashes' \in 0 .. MaxCrashes
    BY <1>7, <2>1 DEF Crash
  <2>3. up' \in BOOLEAN /\ UNCHANGED <<now, entries>>
    BY <1>7 DEF Crash
  <2> QED
    BY <2>2, <2>3
<1>8. CASE Restart
  BY <1>8 DEF Restart, bounds
<1>9. CASE UNCHANGED vars
  BY <1>1, <1>9 DEF vars
<1> QED
  BY <1>2, <1>3, <1>4, <1>5, <1>6, <1>7, <1>8, <1>9, <1>10, <1>11 DEF Next, GateStep

LEMMA NowGrows ==
  ASSUME TypeInv, [Next]_vars
  PROVE  now' >= now
<1>1. now \in Nat
  BY DEF TypeInv, BoundsOK
<1>2. CASE UNCHANGED now
  BY <1>1, <1>2
<1>3. CASE Tick
  BY <1>1, <1>3 DEF Tick
<1>4. CASE Halt \/ Resume \/ Toggle
  BY <1>2, <1>4 DEF Halt, Resume, Toggle, Operate, bounds
<1>5. ASSUME NEW m \in Markets, Begin(m) PROVE UNCHANGED now
  BY <1>5 DEF Begin, bounds
<1>8. ASSUME NEW e \in Orders, Mark(e) \/ Close(e) \/ Drop(e) PROVE UNCHANGED now
  BY <1>8 DEF Mark, Close, Drop, bounds
<1>9. CASE StoreExecutes
  BY <1>2, <1>9 DEF StoreExecutes, bounds
<1>6. CASE GateStep
  BY <1>2, <1>6 DEF GateStep, CheckLoss, CheckMarket, GuardRejects, SendOrder, OrderFails,
                    OrderFills, Track, bounds
<1>7. CASE Crash \/ Restart \/ UNCHANGED vars
  BY <1>2, <1>7 DEF Crash, Restart, vars, bounds
<1> QED
  BY <1>2, <1>3, <1>4, <1>5, <1>6, <1>7, <1>8, <1>9 DEF Next

(* What the store does next is one of the things it was asked.             *)
LEMMA NextAsked ==
  ASSUME TypeInv, StoreExecutes
  PROVE  /\ executed + 1 \in 1 .. Len(queue)
         /\ queue[executed + 1] \in Asked
         /\ queue[executed + 1].order # 0 => queue[executed + 1].order \in Orders
<1>1. executed \in 0 .. Len(queue) /\ Len(queue) \in Nat /\ executed < Len(queue)
  BY DEF TypeInv, StoreOK, StoreExecutes
<1>2. executed + 1 \in 1 .. Len(queue)
  BY <1>1
<1>3. queue[executed + 1] \in Asked
  BY <1>2 DEF TypeInv, StoreOK
<1> QED
  BY <1>2, <1>3 DEF Asked

(* The gate's own steps, and those that leave it and the process alone.    *)
LEMMA GateTypeStep ==
  ASSUME TypeInv, [Next]_vars
  PROVE  GateOK' /\ GateBusy'
<1> USE DEF TypeInv, GateOK, GateBusy, Stages
<1>0. now \in Nat /\ now' \in Nat /\ now' >= now
  BY BoundsStep, NowGrows DEF BoundsOK
<1>1. ASSUME UNCHANGED <<gate, up>> PROVE GateOK' /\ GateBusy'
  BY <1>0, <1>1 DEF GateStates
<1>2. Idle \in GateStates({"idle"}, now')
  BY <1>0, IdleType
<1>3. ASSUME gate' = Idle PROVE GateOK' /\ GateBusy'
  BY <1>2, <1>3 DEF GateStates
<1>4. ASSUME NEW m \in Markets, Begin(m) PROVE GateOK' /\ GateBusy'
  <2>1. runtime.mode \in Modes /\ Today \in Nat
    BY TodayType DEF FlagsOK, RuntimeStates, BoundsOK
  <2>2. CASE Leave
    BY <1>3, <2>2 DEF Leave
  <2>3. CASE gate' = [Idle EXCEPT !.pc = "reading", !.mkt = m, !.mode = runtime.mode,
                                  !.since = Today]
    <3> DEFINE g == [Idle EXCEPT !.pc = "reading", !.mkt = m, !.mode = runtime.mode,
                                 !.since = Today]
    <3>0. g \in GateStates({"reading"}, now') /\ g.mkt = m
      BY <1>2, <2>1 DEF GateStates
    <3>1. gate' \in GateStates({"reading"}, now') /\ gate'.mkt = m
      BY <2>3, <3>0
    <3> QED
      BY <1>4, <3>1 DEF Begin, GateStates
  <2> QED
    BY <1>4, <2>2, <2>3 DEF Begin
<1>5. ASSUME gate.pc # "idle", up' = up,
             NEW pc \in {"tracking"}, At(pc)
      PROVE  GateOK' /\ GateBusy'
  BY <1>0, <1>5 DEF At, GateStates
<1>6. CASE CheckLoss
  BY <1>3, <1>6 DEF CheckLoss, Leave
<1>7. CASE CheckMarket
  <2>1. CASE gate' = Idle
    BY <1>3, <2>1
  <2>2. CASE gate' = [Idle EXCEPT !.pc = "pricing", !.mkt = gate.mkt, !.mode = gate.mode]
    <3>1. gate.mkt \in Markets /\ gate.mode \in Modes /\ up' = up /\ up
      BY <1>7 DEF CheckMarket, GateStates
    <3>2. gate' \in GateStates({"pricing"}, now') /\ gate'.mkt = gate.mkt
      BY <1>0, <2>2, <3>1, PricingGate
    <3> QED
      BY <3>1, <3>2 DEF GateStates
  <2> QED
    BY <1>7, <2>1, <2>2 DEF CheckMarket
<1>8. CASE GuardRejects \/ OrderFails \/ Track
  BY <1>3, <1>8 DEF GuardRejects, OrderFails, Track, Leave
<1>9. CASE SendOrder
  <2>1. runtime.mode \in Modes /\ now' = now
    BY <1>9 DEF SendOrder, FlagsOK, RuntimeStates
  <2>2. now \in 0 .. now'
    BY <1>0, <2>1
  <2>3. gate' = [gate EXCEPT !.pc = "placing", !.mode = runtime.mode, !.sent = now]
    BY <1>9 DEF SendOrder
  <2>4. gate \in GateStates(Stages, now')
    BY <2>1
  <2>5. gate'.pc = "placing" /\ gate' \in GateStates({"placing"}, now')
    BY <2>1, <2>2, <2>3, <2>4 DEF GateStates
  <2>6. gate'.mkt = gate.mkt /\ gate.pc # "idle" /\ up' = up
    BY <1>9 DEF SendOrder, GateStates
  <2> QED
    BY <2>5, <2>6 DEF GateStates
<1>10. CASE OrderFills
  BY <1>5, <1>10 DEF OrderFills
<1>11. CASE Halt \/ Resume \/ Toggle
  BY <1>1, <1>11 DEF Halt, Resume, Toggle, Operate
<1>12. ASSUME NEW e \in Orders, Mark(e) \/ Close(e) \/ Drop(e) PROVE GateOK' /\ GateBusy'
  BY <1>1, <1>12 DEF Mark, Close, Drop
<1>13. CASE Tick
  BY <1>1, <1>13 DEF Tick, memory
<1>14. CASE Restart
  BY <1>0, <1>14 DEF Restart, GateStates
<1>15. CASE UNCHANGED vars
  BY <1>1, <1>15 DEF vars, memory
<1>16. CASE Crash
  BY <1>2, <1>16 DEF Crash, GateStates
<1>17. CASE StoreExecutes
  <2>1. gate' = gate \/ \E S \in SUBSET Orders : gate' = [gate EXCEPT !.answer = S]
    BY <1>17 DEF StoreExecutes, ClosedSince, Placed
  <2>2. gate' \in GateStates(Stages, now') /\ gate'.pc = gate.pc /\ gate'.mkt = gate.mkt
    <3>1. gate \in GateStates(Stages, now')
      BY <1>0 DEF GateStates
    <3> QED
      BY <2>1, <3>1 DEF GateStates
  <2> QED
    BY <1>17, <2>2 DEF StoreExecutes
<1> QED
  BY <1>4, <1>6, <1>7, <1>8, <1>9, <1>10, <1>11, <1>12, <1>13, <1>14, <1>15, <1>16, <1>17
  DEF Next, GateStep

(* Orders are numbered as they are sent, and rows keep their market.       *)
LEMMA NumberedStep ==
  ASSUME TypeInv, [Next]_vars
  PROVE  Numbered'
<1> USE DEF TypeInv, Numbered
<1>0. /\ entries \in 0 .. MaxEntries /\ MaxEntries \in Nat
      /\ Idle.pc = "idle" /\ gate \in GateStates(Stages, now)
      /\ row \in [Orders -> Rows] /\ tracked \subseteq Placed
      /\ gate.pc # "idle" => gate.mkt \in Markets
  BY GateAssumption DEF BoundsOK, Idle, GateOK, BookOK, GateBusy
<1>1. ASSUME UNCHANGED <<row, tracked, entries>>,
             gate'.pc = gate.pc \/ gate'.pc \in {"idle", "reading", "pricing"}
      PROVE  Numbered'
  BY <1>1 DEF Placed
<1>2. ASSUME gate' = Idle PROVE gate'.pc = "idle"
  BY <1>0, <1>2
<1>3. CASE Halt \/ Resume \/ Toggle
  BY <1>1, <1>3 DEF Halt, Resume, Toggle, Operate, table, bounds
<1>4. ASSUME NEW m \in Markets, Begin(m) PROVE Numbered'
  <2>1. CASE gate' = Idle
    BY <1>1, <1>2, <1>4, <2>1 DEF Begin, table, bounds
  <2>2. CASE gate' = [Idle EXCEPT !.pc = "reading", !.mkt = m, !.mode = runtime.mode,
                                  !.since = Today]
    <3>1. gate'.pc = "reading"
      BY <2>2 DEF Idle
    <3> QED
      BY <1>1, <1>4, <3>1 DEF Begin, table, bounds
  <2> QED
    BY <1>4, <2>1, <2>2 DEF Begin, Leave
<1>5. CASE CheckLoss \/ GuardRejects \/ OrderFails
  BY <1>1, <1>2, <1>5 DEF CheckLoss, GuardRejects, OrderFails, Leave, table, bounds
<1>6. CASE CheckMarket
  <2>1. gate'.pc \in {"idle", "pricing"}
    BY <1>0, <1>6 DEF CheckMarket, Idle
  <2> QED
    BY <1>1, <1>6, <2>1 DEF CheckMarket, table, bounds
<1>7. CASE SendOrder
  <2>1. gate'.pc = "placing" /\ entries' = entries + 1 /\ entries < MaxEntries
        /\ UNCHANGED <<row, tracked>>
    BY <1>0, <1>7 DEF SendOrder, table, GateStates
  <2>2. entries' \in Orders
    BY <1>0, <2>1 DEF Orders
  <2>3. \A e \in Placed : e <= entries /\ e \in Nat
    BY DEF Placed, Orders
  <2>4. entries \in Nat
    BY <1>0
  <2>5. Placed' = Placed
    BY <2>1 DEF Placed
  <2> HIDE DEF TypeInv, Numbered
  <2> QED
    BY <2>1, <2>2, <2>3, <2>4, <2>5 DEF Numbered
<1>8. CASE OrderFills
  <2>1. /\ gate'.pc = "tracking" /\ entries' = entries /\ tracked' = tracked
        /\ entries \in Orders \ Placed
    BY <1>0, <1>8 DEF OrderFills, At, bounds, GateStates
  <2> DEFINE new == [NoRow EXCEPT !.mkt = gate.mkt, !.mode = gate.mode, !.open = TRUE]
  <2>2. new \in Rows /\ new.open /\ new.mkt # NoMarket
    BY <1>0, <1>8, NewRowType DEF OrderFills, GateStates
  <2> HIDE DEF new
  <2>3. row' = [row EXCEPT ![entries] = new]
    BY <1>8 DEF OrderFills, new
  <2>4. Placed' = Placed \cup {entries}
    BY <1>0, <2>1, <2>2, <2>3 DEF Placed
  <2> QED
    BY <1>0, <2>1, <2>4
<1>9. CASE Track
  BY <1>2, <1>9 DEF Track, Leave, table, bounds, Placed
<1>10. ASSUME NEW e \in Orders, Mark(e) \/ Close(e) \/ Drop(e) PROVE Numbered'
  <2>1. tracked' \subseteq tracked /\ UNCHANGED <<row, gate, entries>>
    BY <1>10 DEF Mark, Close, WhileWritten, Drop, table, bounds
  <2> QED
    BY <2>1 DEF Placed
<1>11. CASE Tick
  BY <1>1, <1>11 DEF Tick, memory, table
<1>12. CASE Crash
  BY <1>1, <1>2, <1>12 DEF Crash, table
<1>13. CASE Restart
  <2>1. gate'.pc = "idle" /\ UNCHANGED <<row, entries>>
    BY <1>0, <1>13 DEF Restart, GateBusy, table, bounds
  <2> QED
    BY <2>1 DEF Placed
<1>14. CASE UNCHANGED vars
  BY <1>1, <1>14 DEF vars, memory, table, bounds
<1>15. CASE StoreExecutes
  <2> DEFINE asked == queue[executed + 1]
  <2>1. gate'.pc = gate.pc /\ UNCHANGED <<tracked, entries>>
    BY <1>0, <1>15 DEF StoreExecutes, bounds, GateStates
  <2>2. CASE asked.order = 0
    BY <1>1, <1>15, <2>1, <2>2 DEF StoreExecutes
  <2>3. CASE asked.order # 0
    <3>1. /\ asked.order \in Orders
          /\ row' = [row EXCEPT ![asked.order].open = FALSE,
                                ![asked.order].pnl = asked.pnl,
                                ![asked.order].day = asked.day]
      BY <1>15, <2>3, NextAsked DEF StoreExecutes
    <3> HIDE DEF asked
    <3>3. /\ \A e \in Orders : row'[e].mkt = row[e].mkt
          /\ \A e \in Orders \ {asked.order} : row'[e] = row[e]
      BY <1>0, <3>1
    <3>4. Placed' = Placed
      BY <3>3 DEF Placed
    <3> QED
      BY <2>1, <3>4
  <2> QED
    BY <2>2, <2>3
<1> QED
  BY <1>3, <1>4, <1>5, <1>6, <1>7, <1>8, <1>9, <1>10, <1>11, <1>12, <1>13, <1>14, <1>15
  DEF Next, GateStep

LEMMA BookStep ==
  ASSUME TypeInv, [Next]_vars
  PROVE  BookOK'
<1> USE DEF TypeInv
<1>0. /\ row \in [Orders -> Rows] /\ tracked \subseteq Placed
      /\ {e \in Orders : row[e].open} \subseteq Placed
      /\ mark \in [Orders -> Int] /\ Outcomes \subseteq Int
      /\ now \in Nat /\ now' \in Nat /\ now' >= now
  BY BoundsStep, NowGrows, GateAssumption DEF BookOK, BoundsOK
<1>1. ASSUME UNCHANGED <<row, tracked, mark, opened, lastEntry>> PROVE BookOK'
  BY <1>0, <1>1 DEF BookOK, Placed
<1>2. CASE Halt \/ Resume \/ Toggle
  BY <1>1, <1>2 DEF Halt, Resume, Toggle, Operate, table
<1>3. ASSUME NEW m \in Markets, Begin(m) PROVE BookOK'
  BY <1>1, <1>3 DEF Begin, table
<1>4. CASE CheckLoss \/ CheckMarket \/ GuardRejects \/ SendOrder \/ OrderFails
  BY <1>1, <1>4 DEF CheckLoss, CheckMarket, GuardRejects, SendOrder, OrderFails, table
<1>5. CASE OrderFills
  <2> DEFINE new == [NoRow EXCEPT !.mkt = gate.mkt, !.mode = gate.mode, !.open = TRUE]
  <2>1. /\ gate.mkt \in Markets /\ gate.sent \in 0 .. now /\ gate.mode \in Modes
        /\ entries \in Orders \ Placed
    BY <1>5 DEF OrderFills, GateOK, GateStates, GateBusy, Numbered
  <2>2. new \in Rows /\ new.mkt # NoMarket
    BY <2>1, NewRowType
  <2> HIDE DEF new
  <2>3. /\ row' = [row EXCEPT ![entries] = new]
        /\ opened' = [opened EXCEPT ![gate.mkt] = gate.sent]
        /\ UNCHANGED <<tracked, mark, lastEntry, now>>
    BY <1>5 DEF OrderFills, bounds, new
  <2>4. row' \in [Orders -> Rows] /\ tracked' \subseteq Placed'
        /\ {e \in Orders : row'[e].open} \subseteq Placed'
    BY <1>0, <2>1, <2>2, <2>3 DEF Placed
  <2>5. opened' \in [Markets -> 0 .. now'] /\ lastEntry' \in [Markets -> 0 .. now']
    BY <2>1, <2>3 DEF BookOK
  <2> QED
    BY <1>0, <2>3, <2>4, <2>5 DEF BookOK
<1>6. CASE Track
  <2>1. gate.mkt \in Markets /\ entries \in Placed /\ UNCHANGED <<row, mark, opened, now>>
    BY <1>6 DEF Track, GateBusy, Numbered, table, bounds
  <2>2. lastEntry' \in [Markets -> 0 .. now'] /\ tracked' \subseteq Placed'
    BY <1>0, <1>6, <2>1 DEF Track, BookOK, Placed
  <2> QED
    BY <1>0, <2>1, <2>2 DEF BookOK, Placed
<1>7. ASSUME NEW e \in Orders, Mark(e) PROVE BookOK'
  <2>1. mark' \in [Orders -> Int]
    BY <1>0, <1>7 DEF Mark
  <2> QED
    BY <1>0, <1>7, <2>1 DEF Mark, table, bounds, BookOK, Placed
<1>8. ASSUME NEW e \in Orders, Close(e) PROVE BookOK'
  BY <1>1, <1>8 DEF Close, WhileWritten, table
<1>9. ASSUME NEW e \in Orders, Drop(e) PROVE BookOK'
  <2>1. mark' \in [Orders -> Int]
    BY <1>0, <1>9 DEF Drop
  <2> QED
    BY <1>0, <1>9, <2>1 DEF Drop, table, bounds, BookOK, Placed
<1>10. CASE StoreExecutes
  <2> DEFINE asked == queue[executed + 1]
  <2>1. UNCHANGED <<tracked, mark, opened, lastEntry, now>>
    BY <1>10 DEF StoreExecutes, bounds
  <2>2. CASE asked.order = 0
    BY <1>1, <1>10, <2>1, <2>2 DEF StoreExecutes
  <2>3. CASE asked.order # 0
    <3>1. /\ asked.order \in Orders /\ asked.pnl \in Int /\ asked.day \in Nat
          /\ row' = [row EXCEPT ![asked.order].open = FALSE,
                                ![asked.order].pnl = asked.pnl,
                                ![asked.order].day = asked.day]
      BY <1>10, <2>3, NextAsked DEF StoreExecutes, Asked
    <3> HIDE DEF asked
    <3> DEFINE new == [row[asked.order] EXCEPT !.open = FALSE, !.pnl = asked.pnl,
                                               !.day = asked.day]
    <3>3. row[asked.order] \in Rows
      BY <1>0, <3>1
    <3>4. new \in Rows /\ new.mkt = row[asked.order].mkt /\ ~new.open
      BY <3>1, <3>3 DEF Rows
    <3>5. row' = [row EXCEPT ![asked.order] = new]
      BY <1>0, <3>1, <3>3 DEF Rows
    <3> HIDE DEF new
    <3>2. /\ row' \in [Orders -> Rows]
          /\ \A e \in Orders : row'[e].mkt = row[e].mkt /\ (row'[e].open => row[e].open)
      BY <1>0, <3>1, <3>4, <3>5
    <3> QED
      BY <1>0, <2>1, <3>2 DEF BookOK, Placed
  <2> QED
    BY <2>2, <2>3
<1>11. CASE Tick
  <2>1. opened' \in [Markets -> 0 .. now'] /\ lastEntry' \in [Markets -> 0 .. now']
    BY <1>0, <1>11 DEF Tick, memory, table, BookOK
  <2> QED
    BY <1>0, <1>11, <2>1 DEF Tick, memory, table, BookOK, Placed
<1>12. CASE Crash
  BY <1>1, <1>12 DEF Crash, table
<1>13. CASE Restart
  <2>1. lastEntry' \in [Markets -> 0 .. now'] /\ mark' \in [Orders -> Int]
    BY <1>0, <1>13 DEF Restart, Restored, table, bounds, BookOK
  <2> QED
    BY <1>0, <1>13, <2>1 DEF Restart, table, bounds, BookOK, Placed
<1>14. CASE UNCHANGED vars
  BY <1>1, <1>14 DEF vars, memory, table
<1> QED
  BY <1>2, <1>3, <1>4, <1>5, <1>6, <1>7, <1>8, <1>9, <1>10, <1>11, <1>12, <1>13, <1>14
  DEF Next, GateStep

LEMMA StoreStep ==
  ASSUME TypeInv, [Next]_vars
  PROVE  StoreOK'
<1> USE DEF TypeInv, StoreOK
<1>1. ASSUME UNCHANGED <<queue, executed>> PROVE StoreOK'
  BY <1>1
<1>2. ASSUME NEW e \in {0} \cup Orders, NEW pnl \in Int, Ask(e, pnl, Today), UNCHANGED executed
      PROVE  StoreOK'
  <2> DEFINE asked == [order |-> e, pnl |-> pnl, day |-> Today]
  <2>1. asked \in Asked
    BY TodayType DEF Asked, BoundsOK
  <2> HIDE DEF asked
  <2>2. queue' = Append(queue, asked)
    BY <1>2 DEF Ask, asked
  <2>3. queue' \in Seq(Asked) /\ Len(queue') = Len(queue) + 1
    BY <2>1, <2>2, AppendProperties
  <2> QED
    BY <1>2, <2>3, LenProperties
<1>3. ASSUME NEW e, Answered(e) PROVE StoreOK'
  <2>1. queue # <<>> /\ queue' = Tail(queue) /\ executed' = executed - 1 /\ executed > 0
    BY <1>3 DEF Answered
  <2>2. queue' \in Seq(Asked) /\ Len(queue') = Len(queue) - 1
    BY <2>1, HeadTailProperties
  <2> QED
    BY <2>1, <2>2, LenProperties
<1>4. CASE Halt \/ Resume \/ Toggle
  BY <1>1, <1>4 DEF Halt, Resume, Toggle, Operate, store
<1>5. ASSUME NEW m \in Markets, Begin(m) PROVE StoreOK'
  BY <1>1, <1>2, <1>5 DEF Begin
<1>6. CASE CheckLoss \/ CheckMarket
  BY <1>3, <1>6 DEF CheckLoss, CheckMarket
<1>7. CASE GuardRejects \/ SendOrder \/ OrderFails \/ OrderFills \/ Track
  BY <1>1, <1>7 DEF GuardRejects, SendOrder, OrderFails, OrderFills, Track, store
<1>8. ASSUME NEW e \in Orders, Mark(e) PROVE StoreOK'
  BY <1>1, <1>8 DEF Mark, store
<1>9. ASSUME NEW e \in Orders, Close(e) PROVE StoreOK'
  BY <1>2, <1>9, GateAssumption DEF Close
<1>10. ASSUME NEW e \in Orders, Drop(e) PROVE StoreOK'
  BY <1>3, <1>10 DEF Drop
<1>11. CASE StoreExecutes
  BY <1>11, LenProperties DEF StoreExecutes
<1>12. CASE Tick \/ Restart
  BY <1>1, <1>12 DEF Tick, Restart, store
<1>13. CASE Crash
  BY <1>13, EmptySeq DEF Crash
<1>14. CASE UNCHANGED vars
  BY <1>1, <1>14 DEF vars, store
<1> QED
  BY <1>4, <1>5, <1>6, <1>7, <1>8, <1>9, <1>10, <1>11, <1>12, <1>13, <1>14 DEF Next, GateStep

LEMMA TypeStep == TypeInv /\ [Next]_vars => TypeInv'
  BY FlagsStep, GateTypeStep, BoundsStep, NumberedStep, BookStep, StoreStep DEF TypeInv

(* Every variable keeps its type; a daily halt is dated; and what is       *)
(* tracked has an open row.                                                *)
THEOREM GateTypeCorrect == Spec => []TypeOK
<1>1. Spec => []TypeInv
  BY TypeInit, TypeStep, PTL DEF Spec
<1> QED
  BY <1>1, TypeInvImplies, PTL
-----------------------------------------------------------------------------
(***************************************************************************)
(* A halt: the one order that may still be sent is that of the headline    *)
(* past its first check, and a headline sends one.                         *)
(***************************************************************************)
HaltInv ==
  /\ passed \in {0, 1}
  /\ runtime.halted /\ passed = 1 => gate.pc \notin {"reading", "pricing"}

LEMMA HaltInvInit == Init => HaltInv
  BY DEF Init, HaltInv, Idle

LEMMA HaltInvStep ==
  ASSUME TypeInv, HaltInv, [Next]_vars
  PROVE  HaltInv'
<1> USE DEF HaltInv
<1>0. Idle.pc = "idle" /\ runtime \in RuntimeStates
  BY DEF Idle, TypeInv, FlagsOK
<1>1. ASSUME NEW rt, Become(rt), rt.halted => runtime.halted, gate' = gate
      PROVE  HaltInv'
  BY <1>1 DEF Become
<1>2. ASSUME NEW rt, Become(rt), gate'.pc = "idle" \/ ~rt.halted
      PROVE  HaltInv'
  BY <1>2 DEF Become
<1>3. ASSUME UNCHANGED <<runtime, passed>>, gate'.pc \notin {"reading", "pricing"} \/ gate' = gate
      PROVE  HaltInv'
  BY <1>3
<1>4. ASSUME Leave PROVE gate'.pc = "idle"
  BY <1>0, <1>4 DEF Leave
<1>5. CASE Halt
  <2> DEFINE rt == [Cleared(runtime) EXCEPT !.halted = TRUE]
  <2>1. Become(rt) /\ gate' = gate
    BY <1>5 DEF Halt, Operate
  <2>2. CASE runtime.halted
    BY <1>1, <2>1, <2>2
  <2>3. CASE ~runtime.halted
    BY <2>1, <2>3 DEF Become
  <2> QED
    BY <2>2, <2>3
<1>6. CASE Resume
  BY <1>0, <1>2, <1>6, ClearedType DEF Resume, Operate
<1>7. CASE Toggle
  <2>1. PICK mode \in Modes : Become([runtime EXCEPT !.mode = mode])
    BY <1>7 DEF Toggle, Operate
  <2>2. gate' = gate
    BY <1>7 DEF Toggle, Operate
  <2>3. [runtime EXCEPT !.mode = mode].halted = runtime.halted
    BY <1>0 DEF RuntimeStates
  <2> QED
    BY <1>1, <2>1, <2>2, <2>3
<1>8. ASSUME NEW m \in Markets, Begin(m) PROVE HaltInv'
  <2>1. CASE Leave
    BY <1>2, <1>4, <1>8, <2>1 DEF Begin
  <2>2. CASE ~Blocks(runtime')
    BY <1>2, <1>8, <2>2 DEF Begin, Become, Blocks
  <2> QED
    BY <1>8, <2>1, <2>2 DEF Begin
<1>9. CASE CheckLoss
  BY <1>2, <1>4, <1>9 DEF CheckLoss
<1>10. CASE CheckMarket
  BY <1>10 DEF CheckMarket
<1>11. CASE GuardRejects \/ OrderFails \/ Track
  BY <1>3, <1>4, <1>11 DEF GuardRejects, OrderFails, Track
<1>12. CASE SendOrder
  <2>1. gate'.pc = "placing"
    BY <1>12 DEF SendOrder, TypeInv, GateOK, GateStates
  <2>2. gate.pc = "pricing" /\ runtime' = runtime
        /\ passed' = IF runtime.halted THEN passed + 1 ELSE passed
    BY <1>12 DEF SendOrder
  <2> QED
    BY <2>1, <2>2
<1>13. CASE OrderFills
  <2>1. gate'.pc = "tracking"
    BY <1>13 DEF OrderFills, At, TypeInv, GateOK, GateStates
  <2> QED
    BY <1>3, <1>13, <2>1 DEF OrderFills
<1>14. ASSUME NEW e \in Orders, Mark(e) \/ Close(e) \/ Drop(e) PROVE HaltInv'
  BY <1>3, <1>14 DEF Mark, Close, Drop
<1>15. CASE Tick
  BY <1>3, <1>15 DEF Tick, memory
<1>16. CASE Crash
  BY <1>0, <1>3, <1>16 DEF Crash
<1>17. CASE Restart
  BY <1>17 DEF Restart, TypeInv, GateBusy
<1>18. CASE UNCHANGED vars
  BY <1>3, <1>18 DEF vars, memory
<1>19. CASE StoreExecutes
  <2>1. gate'.pc = gate.pc /\ UNCHANGED <<runtime, passed>>
    BY <1>19 DEF StoreExecutes, TypeInv, GateOK, GateStates
  <2> QED
    BY <2>1
<1> QED
  BY <1>5, <1>6, <1>7, <1>8, <1>9, <1>10, <1>11, <1>12, <1>13, <1>14, <1>15, <1>16,
     <1>17, <1>18, <1>19
  DEF Next, GateStep

(* However many headlines, operators and crashes: between a halt and its   *)
(* end at most one order is sent.                                          *)
THEOREM HaltStops == Spec => []HaltLetsOneThrough
<1>1. TypeInv /\ HaltInv /\ [Next]_vars => TypeInv' /\ HaltInv'
  BY TypeStep, HaltInvStep
<1>2. HaltInv => HaltLetsOneThrough
  BY DEF HaltInv, HaltLetsOneThrough
<1> QED
  BY TypeInit, HaltInvInit, <1>1, <1>2, PTL DEF Spec
-----------------------------------------------------------------------------
(***************************************************************************)
(* The file holds what memory holds, unless a crash tore it: what a        *)
(* restart reads back is what was decided.                                 *)
(***************************************************************************)
DiskInv == disk = runtime

LEMMA DiskInvStep ==
  ASSUME TornWrites = FALSE, TypeInv, DiskInv, [Next]_vars
  PROVE  DiskInv'
<1> USE DEF DiskInv
<1>1. ASSUME NEW rt, Become(rt) PROVE DiskInv'
  BY <1>1 DEF Become
<1>2. ASSUME UNCHANGED <<runtime, disk>> PROVE DiskInv'
  BY <1>2
<1>3. CASE Halt \/ Resume \/ Toggle
  BY <1>1, <1>3 DEF Halt, Resume, Toggle, Operate
<1>4. ASSUME NEW m \in Markets, Begin(m) PROVE DiskInv'
  BY <1>1, <1>4 DEF Begin
<1>5. CASE CheckLoss
  BY <1>1, <1>5 DEF CheckLoss
<1>6. CASE \/ CheckMarket \/ GuardRejects \/ SendOrder \/ OrderFails \/ OrderFills \/ Track
           \/ StoreExecutes
  BY <1>2, <1>6 DEF CheckMarket, GuardRejects, SendOrder, OrderFails, OrderFills, Track,
                    StoreExecutes
<1>7. ASSUME NEW e \in Orders, Mark(e) \/ Close(e) \/ Drop(e) PROVE DiskInv'
  BY <1>2, <1>7 DEF Mark, Close, Drop
<1>8. CASE Tick
  BY <1>2, <1>8 DEF Tick, memory
<1>9. CASE Crash
  BY <1>2, <1>9 DEF Crash
<1>10. CASE Restart
  <2>1. disk # Torn
    BY DefaultsType DEF TypeInv, FlagsOK
  <2> QED
    BY <1>10, <2>1 DEF Restart, Loaded
<1>11. CASE UNCHANGED vars
  BY <1>2, <1>11 DEF vars, memory
<1> QED
  BY <1>3, <1>4, <1>5, <1>6, <1>7, <1>8, <1>9, <1>10, <1>11 DEF Next, GateStep

(* What a step does to the flags: nothing, an operator's command, the end  *)
(* of a day's halt, or a day's halt.                                       *)
LEMMA FlagChanges ==
  ASSUME TornWrites = FALSE, TypeInv, DiskInv, [Next]_vars
  PROVE  \/ runtime' = runtime
         \/ Resume
         \/ Toggle /\ \E mode \in Modes : runtime' = [runtime EXCEPT !.mode = mode]
         \/ runtime' = [Cleared(runtime) EXCEPT !.halted = TRUE]
         \/ runtime' = AutoResumed(runtime)
         \/ runtime' = HaltDaily(runtime)
<1>1. CASE Halt
  BY <1>1 DEF Halt, Operate, Become
<1>2. CASE Toggle
  BY <1>2 DEF Toggle, Operate, Become
<1>3. ASSUME NEW m \in Markets, Begin(m) PROVE runtime' = AutoResumed(runtime)
  BY <1>3 DEF Begin, Become
<1>4. CASE CheckLoss
  BY <1>4 DEF CheckLoss, Become
<1>5. CASE \/ CheckMarket \/ GuardRejects \/ SendOrder \/ OrderFails \/ OrderFills \/ Track
           \/ StoreExecutes
  BY <1>5 DEF CheckMarket, GuardRejects, SendOrder, OrderFails, OrderFills, Track, StoreExecutes
<1>6. ASSUME NEW e \in Orders, Mark(e) \/ Close(e) \/ Drop(e) PROVE runtime' = runtime
  BY <1>6 DEF Mark, Close, Drop
<1>7. CASE Tick
  BY <1>7 DEF Tick, memory
<1>8. CASE Crash
  BY <1>8 DEF Crash
<1>9. CASE Restart
  <2>1. disk # Torn
    BY DefaultsType DEF TypeInv, FlagsOK, DiskInv
  <2> QED
    BY <1>9, <2>1 DEF Restart, Loaded, DiskInv
<1>10. CASE UNCHANGED vars
  BY <1>10 DEF vars, memory
<1> QED
  BY <1>1, <1>2, <1>3, <1>4, <1>5, <1>6, <1>7, <1>8, <1>9, <1>10 DEF Next, GateStep

LEMMA OperatorStep ==
  ASSUME TornWrites = FALSE, TypeInv, DiskInv, [Next]_vars
  PROVE  /\ ManualHalt => ManualHalt' \/ Resume
         /\ runtime.mode # runtime'.mode => Toggle
<1> USE DEF ManualHalt
<1>1. /\ runtime \in RuntimeStates /\ (runtime.daily => runtime.halted /\ runtime.day # 0)
      /\ now \in Nat
  BY DEF TypeInv, FlagsOK, BoundsOK
<1>2. CASE runtime' = runtime
  BY <1>2
<1>3. CASE Resume
  BY <1>1, <1>3, ClearedType DEF Resume, Operate, Become
<1>4. CASE Toggle /\ \E mode \in Modes : runtime' = [runtime EXCEPT !.mode = mode]
  BY <1>1, <1>4 DEF RuntimeStates
<1>5. CASE runtime' = [Cleared(runtime) EXCEPT !.halted = TRUE]
  BY <1>1, <1>5, ClearedType DEF RuntimeStates
<1>6. CASE runtime' = AutoResumed(runtime)
  BY <1>1, <1>6, AutoResumedType
<1>7. CASE runtime' = HaltDaily(runtime)
  BY <1>1, <1>7, HaltDailyType
<1> QED
  BY <1>2, <1>3, <1>4, <1>5, <1>6, <1>7, FlagChanges

LEMMA DailyStep ==
  ASSUME TornWrites = FALSE, TypeInv, DiskInv, [Next]_vars,
         runtime.halted, runtime.daily, runtime.day = Today
  PROVE  runtime'.halted \/ Resume \/ Today' # Today
<1>1. /\ runtime \in RuntimeStates /\ (runtime.daily => runtime.halted /\ runtime.day # 0)
      /\ now \in Nat
  BY DEF TypeInv, FlagsOK, BoundsOK
<1>2. CASE Toggle /\ \E mode \in Modes : runtime' = [runtime EXCEPT !.mode = mode]
  BY <1>1, <1>2 DEF RuntimeStates
<1>3. CASE runtime' = [Cleared(runtime) EXCEPT !.halted = TRUE]
  BY <1>1, <1>3, ClearedType DEF RuntimeStates
<1>4. CASE runtime' = AutoResumed(runtime)
  BY <1>1, <1>4, AutoResumedType
<1>5. CASE runtime' = HaltDaily(runtime)
  BY <1>1, <1>5, HaltDailyType
<1> QED
  BY <1>2, <1>3, <1>4, <1>5, FlagChanges

(* Through crashes and restarts, daily halts and their ends, only the      *)
(* operator ends a manual halt or changes the mode, if no crash tears the  *)
(* state file.                                                             *)
THEOREM OperatorAlone == ASSUME TornWrites = FALSE PROVE Spec => OperatorDecides
<1>1. Init => TypeInv /\ DiskInv
  BY TypeInit DEF Init, DiskInv
<1>2. TypeInv /\ DiskInv /\ [Next]_vars => TypeInv' /\ DiskInv'
  BY TypeStep, DiskInvStep
<1>3. TypeInv /\ DiskInv /\ [Next]_vars
        => [/\ ManualHalt => ManualHalt' \/ Resume
            /\ runtime.mode # runtime'.mode => Toggle]_vars
  BY OperatorStep
<1> QED
  BY <1>1, <1>2, <1>3, PTL DEF Spec, OperatorDecides

(* A daily-loss halt outlives the process, and ends with its day or by the *)
(* operator, if no crash tears the state file.                             *)
THEOREM DailyHaltStands == ASSUME TornWrites = FALSE PROVE Spec => DailyHaltLasts
<1>1. Init => TypeInv /\ DiskInv
  BY TypeInit DEF Init, DiskInv
<1>2. TypeInv /\ DiskInv /\ [Next]_vars => TypeInv' /\ DiskInv'
  BY TypeStep, DiskInvStep
<1>3. TypeInv /\ DiskInv /\ [Next]_vars
        => [runtime.halted /\ runtime.daily /\ runtime.day = Today
              => runtime'.halted \/ Resume \/ Today' # Today]_vars
  BY DailyStep
<1> QED
  BY <1>1, <1>2, <1>3, PTL DEF Spec, DailyHaltLasts
-----------------------------------------------------------------------------
(***************************************************************************)
(* The cooldown: while the process runs, memory knows every entry of the   *)
(* last Cooldown ticks, but that of the headline about to note its own.    *)
(***************************************************************************)
LongAgo(m) == opened[m] = 0 \/ now - opened[m] >= Cooldown
Noted(m)   == LongAgo(m) \/ lastEntry[m] >= opened[m]

CoolInv ==
  /\ up => \A m \in Markets : Noted(m) \/ (gate.pc = "tracking" /\ gate.mkt = m)
  /\ gate.pc = "pricing" => LongAgo(gate.mkt)

LEMMA CoolInvStep ==
  ASSUME TypeInv, CoolInv, [Next]_vars
  PROVE  CoolInv'
<1> USE DEF CoolInv
<1>0. /\ now \in Nat /\ now > 0 /\ Cooldown \in Nat
      /\ opened \in [Markets -> 0 .. now] /\ lastEntry \in [Markets -> 0 .. now]
      /\ gate.pc # "idle" => gate.mkt \in Markets /\ up
      /\ Idle.pc = "idle"
  BY GateAssumption DEF TypeInv, BoundsOK, BookOK, GateBusy, Idle
<1>1. ASSUME UNCHANGED <<up, now, opened, lastEntry>>,
             gate.pc # "tracking", gate'.pc \notin {"pricing", "tracking"}
      PROVE  CoolInv'
  BY <1>1 DEF Noted, LongAgo
<1>2. ASSUME UNCHANGED <<up, now, opened, lastEntry, gate>> PROVE CoolInv'
  BY <1>2 DEF Noted, LongAgo
<1>3. ASSUME Leave PROVE gate'.pc = "idle"
  BY <1>0, <1>3 DEF Leave
<1>4. CASE Halt \/ Resume \/ Toggle
  BY <1>2, <1>4 DEF Halt, Resume, Toggle, Operate, table, bounds
<1>5. ASSUME NEW m \in Markets, Begin(m) PROVE CoolInv'
  <2>1. gate = Idle /\ UNCHANGED <<up, now, opened, lastEntry>>
    BY <1>5 DEF Begin, table, bounds
  <2>2. CASE Leave
    BY <1>0, <1>1, <1>3, <2>1, <2>2
  <2>3. CASE gate' = [Idle EXCEPT !.pc = "reading", !.mkt = m, !.mode = runtime.mode,
                                  !.since = Today]
    <3>1. gate'.pc = "reading"
      BY <2>3 DEF Idle
    <3> QED
      BY <1>0, <1>1, <2>1, <3>1
  <2> QED
    BY <1>5, <2>2, <2>3 DEF Begin
<1>6. CASE CheckLoss \/ GuardRejects \/ OrderFails
  BY <1>1, <1>3, <1>6 DEF CheckLoss, GuardRejects, OrderFails, table, bounds
<1>7. CASE CheckMarket
  <2>1. gate.pc = "reading" /\ UNCHANGED <<up, now, opened, lastEntry>>
    BY <1>7 DEF CheckMarket, table, bounds
  <2>2. CASE gate' = Idle
    BY <1>0, <1>1, <2>1, <2>2
  <2>3. CASE ~CoolingDown(gate.mkt)
             /\ gate' = [Idle EXCEPT !.pc = "pricing", !.mkt = gate.mkt, !.mode = gate.mode]
    <3>1. gate'.pc = "pricing" /\ gate'.mkt = gate.mkt
      BY <2>3 DEF Idle
    <3>2. LongAgo(gate.mkt)
      BY <1>0, <2>1, <2>3 DEF Noted, LongAgo, CoolingDown
    <3> QED
      BY <2>1, <3>1, <3>2 DEF Noted, LongAgo
  <2> QED
    BY <1>7, <2>2, <2>3 DEF CheckMarket
<1>8. CASE SendOrder
  <2>1. gate'.pc = "placing" /\ gate.pc = "pricing"
    BY <1>8 DEF SendOrder, TypeInv, GateOK, GateStates
  <2> QED
    BY <1>1, <1>8, <2>1 DEF SendOrder, table
<1>9. CASE OrderFills
  <2>1. gate'.pc = "tracking" /\ gate'.mkt = gate.mkt /\ gate.pc = "placing"
    BY <1>9 DEF OrderFills, At, TypeInv, GateOK, GateStates
  <2>2. /\ UNCHANGED <<up, now, lastEntry>>
        /\ \A m \in Markets \ {gate.mkt} : opened'[m] = opened[m]
    BY <1>0, <1>9 DEF OrderFills, bounds
  <2> QED
    BY <2>1, <2>2 DEF Noted, LongAgo
<1>10. CASE Track
  <2>1. gate'.pc = "idle" /\ gate.mkt \in Markets
    BY <1>0, <1>3, <1>10 DEF Track
  <2>2. /\ UNCHANGED <<up, now, opened>>
        /\ lastEntry'[gate.mkt] = now
        /\ \A m \in Markets \ {gate.mkt} : lastEntry'[m] = lastEntry[m]
    BY <1>0, <1>10, <2>1 DEF Track, table, bounds
  <2>3. opened[gate.mkt] <= now
    BY <1>0, <2>1
  <2> QED
    BY <2>1, <2>2, <2>3 DEF Noted, LongAgo
<1>11. ASSUME NEW e \in Orders, Mark(e) \/ Close(e) \/ Drop(e) PROVE CoolInv'
  BY <1>2, <1>11 DEF Mark, Close, Drop, table, bounds
<1>12. CASE Tick
  <2>1. now' = now + 1 /\ UNCHANGED <<up, opened, lastEntry, gate>>
    BY <1>12 DEF Tick, memory, table
  <2>2. ASSUME NEW m \in Markets, LongAgo(m) PROVE LongAgo(m)'
    BY <1>0, <2>1, <2>2 DEF LongAgo
  <2>3. ASSUME NEW m \in Markets, Noted(m) PROVE Noted(m)'
    BY <2>1, <2>2, <2>3 DEF Noted
  <2>4. gate.pc = "pricing" => LongAgo(gate.mkt)'
    BY <1>0, <2>1 DEF LongAgo
  <2> QED
    BY <2>1, <2>3, <2>4
<1>13. CASE Crash
  BY <1>0, <1>13 DEF Crash
<1>14. CASE Restart
  <2>1. gate'.pc = "idle" /\ UNCHANGED <<now, opened>>
    BY <1>0, <1>14 DEF Restart, table, bounds, TypeInv, GateOK, GateStates
  <2>2. ASSUME NEW m \in Markets PROVE Noted(m)'
    <3>1. lastEntry'[m] = IF opened[m] >= now - Cooldown THEN opened[m] ELSE 0
      BY <1>14 DEF Restart, Restored
    <3> QED
      BY <1>0, <2>1, <3>1 DEF Noted, LongAgo
  <2> QED
    BY <2>1, <2>2
<1>15. CASE UNCHANGED vars
  BY <1>2, <1>15 DEF vars, memory, table, bounds
<1>16. CASE StoreExecutes
  <2>1. /\ UNCHANGED <<up, now, opened, lastEntry>>
        /\ gate'.pc = gate.pc /\ gate'.mkt = gate.mkt
    BY <1>16 DEF StoreExecutes, bounds, TypeInv, GateOK, GateStates
  <2> QED
    BY <2>1 DEF Noted, LongAgo
<1> QED
  BY <1>4, <1>5, <1>6, <1>7, <1>8, <1>9, <1>10, <1>11, <1>12, <1>13, <1>14, <1>15, <1>16
  DEF Next, GateStep

(* No market is entered twice within a cooldown, also when the process     *)
(* died between the row of an entry and its note, and whatever happened    *)
(* between the check and the order.                                        *)
THEOREM CooldownKept == Spec => CooldownHolds
<1>1. Init => TypeInv /\ CoolInv
  <2> SUFFICES ASSUME Init PROVE CoolInv
    BY TypeInit
  <2>1. gate.pc = "idle" /\ \A m \in Markets : opened[m] = 0
    BY DEF Init, Idle
  <2> QED
    BY <2>1 DEF CoolInv, Noted, LongAgo
<1>2. TypeInv /\ CoolInv /\ [Next]_vars => TypeInv' /\ CoolInv'
  BY TypeStep, CoolInvStep
<1>3. TypeInv /\ CoolInv /\ [Next]_vars
        => [SendOrder => \/ opened[gate.mkt] = 0
                         \/ now - opened[gate.mkt] >= Cooldown]_vars
  BY DEF SendOrder, CoolInv, LongAgo
<1> QED
  BY <1>1, <1>2, <1>3, PTL DEF Spec, CooldownHolds
-----------------------------------------------------------------------------
(***************************************************************************)
(* The loss: what is asked of the store and not yet taken up by its caller *)
(* decides in which term of the sum a position is.                         *)
(***************************************************************************)
Positions == 1 .. Len(queue)

Single == \A i, j \in Positions : queue[i].order = queue[j].order => i = j

Dated ==
  /\ \A i \in Positions : queue[i].day <= Today
  /\ \A i, j \in Positions : i <= j => queue[i].day <= queue[j].day

(* A close asked for is of a tracked position, whose row is closed when    *)
(* the store has done it.                                                  *)
Written ==
  \A i \in Positions : queue[i].order # 0 =>
    /\ queue[i].order \in tracked
    /\ row[queue[i].order].open <=> i > executed
    /\ i <= executed => row[queue[i].order].day = queue[i].day

(* Its answer lacks, of what is closed now, what was closed after it.      *)
ClosedAfter(i) == {queue[j].order : j \in {k \in Positions : i < k /\ k <= executed}}

Querying ==
  \A i \in Positions : queue[i].order = 0 =>
    /\ gate.pc = "reading"
    /\ gate.since = queue[i].day
    /\ i <= executed
         => gate.answer = ClosedSince(gate.mode, gate.since) \ ClosedAfter(i)

(* What the process tracks is open, but for a close it has not taken up;   *)
(* what is open it tracks, but for the order about to be tracked.          *)
Known ==
  /\ \A e \in tracked :
       row[e].open \/ \E i \in Positions : i <= executed /\ queue[i].order = e
  /\ \A e \in Orders :
       row[e].open => e \in tracked \/ (gate.pc = "tracking" /\ e = entries)
  /\ gate.pc = "tracking" => row[entries].open

QueueInv ==
  /\ Single /\ Dated /\ Written /\ Querying
  /\ up => Known
  /\ up \/ queue = <<>>

LEMMA DaysType ==
  ASSUME TypeInv
  PROVE  \A i \in Positions : queue[i].day \in Nat
<1>1. ASSUME NEW i \in 1 .. Len(queue) PROVE queue[i] \in Asked
  BY DEF TypeInv, StoreOK
<1> QED
  BY <1>1 DEF Asked, Positions

LEMMA AppendAt ==
  ASSUME TypeInv, NEW e \in {0} \cup Orders, NEW pnl \in Int, NEW day \in Nat, Ask(e, pnl, day)
  PROVE  /\ Len(queue) \in Nat
         /\ Len(queue') = Len(queue) + 1
         /\ \A i \in 1 .. Len(queue) : queue'[i] = queue[i]
         /\ queue'[Len(queue) + 1] = [order |-> e, pnl |-> pnl, day |-> day]
<1>1. queue \in Seq(Asked) /\ [order |-> e, pnl |-> pnl, day |-> day] \in Asked
  BY DEF TypeInv, StoreOK, Asked
<1> QED
  BY <1>1, AppendProperties DEF Ask

LEMMA TailAt ==
  ASSUME TypeInv, NEW e, Answered(e)
  PROVE  /\ Len(queue) \in Nat \ {0} /\ executed \in 1 .. Len(queue)
         /\ queue[1].order = e
         /\ Len(queue') = Len(queue) - 1 /\ executed' = executed - 1
         /\ \A i \in 1 .. Len(queue') : queue'[i] = queue[i + 1]
<1>1. queue \in Seq(Asked) /\ executed \in 0 .. Len(queue) /\ executed > 0
  BY DEF TypeInv, StoreOK, Answered
<1>2. Len(queue) \in Nat \ {0} /\ queue # <<>>
  BY <1>1, LenProperties, EmptySeq
<1> QED
  BY <1>1, <1>2, HeadTailProperties DEF Answered

LEMMA DivBounds ==
  ASSUME NEW a \in Nat, NEW l \in Nat, l > 0
  PROVE  a \div l \in Nat /\ l * (a \div l) <= a /\ a < l * (a \div l) + l
  OBVIOUS

LEMMA TimesGrows ==
  ASSUME NEW l \in Nat, NEW p \in Nat, NEW q \in Nat, l > 0, p >= q + 1
  PROVE  l * p >= l * q + l
<1>1. PICK d \in Nat : p = q + 1 + d
  <2>1. p - q - 1 \in Nat /\ p = q + 1 + (p - q - 1)
    OBVIOUS
  <2> QED
    BY <2>1
<1>2. l * p = l * q + l + l * d
  BY <1>1
<1>3. l * d >= 0
  OBVIOUS
<1> QED
  BY <1>2, <1>3

LEMMA DivGrows ==
  ASSUME NEW a \in Nat, NEW b \in Nat, NEW l \in Nat, l > 0, a <= b
  PROVE  a \div l <= b \div l
<1> DEFINE p == a \div l
           q == b \div l
<1>1. p \in Nat /\ q \in Nat /\ l * p <= a /\ b < l * q + l
  BY DivBounds
<1>2. ASSUME p >= q + 1 PROVE FALSE
  <2>1. l * p >= l * q + l
    BY <1>1, <1>2, TimesGrows
  <2>2. l * p \in Int /\ l * q \in Int
    BY <1>1
  <2> HIDE DEF p, q
  <2> QED
    BY <1>1, <2>1, <2>2
<1> HIDE DEF p, q
<1>3. p <= q
  BY <1>1, <1>2
<1> QED
  BY <1>3 DEF p, q

LEMMA TodayGrows ==
  ASSUME TypeInv, [Next]_vars
  PROVE  Today \in Nat /\ Today' \in Nat /\ Today' >= Today
<1>1. now \in Nat /\ now' \in Nat /\ now' >= now
  BY BoundsStep, NowGrows DEF TypeInv, BoundsOK
<1>2. DayLength \in Nat /\ DayLength > 0
  BY GateAssumption
<1>3. now \div DayLength <= now' \div DayLength
  BY <1>1, <1>2, DivGrows
<1>4. now \div DayLength \in Nat /\ now' \div DayLength \in Nat
  BY <1>1, <1>2, DivBounds
<1> QED
  BY <1>3, <1>4 DEF Today

(* A step of neither the store nor a caller of it, in a gate that is not   *)
(* reading or is left alone.                                               *)
LEMMA QuietStep ==
  ASSUME TypeInv, QueueInv, [Next]_vars,
         UNCHANGED <<up, queue, executed, row, tracked>>,
         gate' = gate \/ (gate.pc \notin {"reading", "tracking"} /\ gate'.pc # "tracking"),
         gate.pc = "tracking" => entries' = entries
  PROVE  QueueInv'
<1>1. Single' /\ Written' /\ (up \/ queue = <<>>)'
  BY DEF QueueInv, Single, Written, Positions
<1>2. Dated'
  <2>1. \A i \in Positions : queue[i].day \in Nat
    BY DaysType
  <2> QED
    BY <2>1, TodayGrows DEF QueueInv, Dated, Positions
<1>3. Querying'
  <2>1. ASSUME NEW i \in Positions', queue'[i].order = 0
        PROVE  gate' = gate /\ i \in Positions /\ queue[i].order = 0
    BY <2>1 DEF QueueInv, Querying, Positions
  <2>2. ASSUME NEW i \in Positions, gate' = gate
        PROVE  /\ ClosedSince(gate.mode, gate.since)' = ClosedSince(gate.mode, gate.since)
               /\ ClosedAfter(i)' = ClosedAfter(i)
    BY <2>2 DEF ClosedSince, Placed, ClosedAfter, Positions
  <2> QED
    BY <2>1, <2>2 DEF QueueInv, Querying
<1>4. up' => Known'
  <2>1. gate'.pc = "tracking" => gate.pc = "tracking" /\ gate' = gate /\ entries' = entries
    OBVIOUS
  <2> QED
    BY <2>1 DEF QueueInv, Known, Positions
<1> QED
  BY <1>1, <1>2, <1>3, <1>4 DEF QueueInv

(* A request is queued behind the others.                                  *)
LEMMA AskedStep ==
  ASSUME TypeInv, QueueInv, [Next]_vars, up,
         UNCHANGED <<up, executed, row, tracked, entries>>,
         NEW e \in {0} \cup Orders, NEW pnl \in Int, Ask(e, pnl, Today),
         \A i \in Positions : queue[i].order # e,
         e # 0 => gate' = gate /\ e \in tracked /\ row[e].open,
         e = 0 => gate.pc = "idle" /\ gate'.pc = "reading" /\ gate'.since = Today,
         Today' = Today
  PROVE  QueueInv'
<1> DEFINE n == Len(queue)
<1>1. /\ n \in Nat /\ Len(queue') = n + 1
      /\ \A i \in 1 .. n : queue'[i] = queue[i]
      /\ queue'[n + 1] = [order |-> e, pnl |-> pnl, day |-> Today]
      /\ executed \in 0 .. n /\ Today \in Nat
  <2>1. Today \in Nat
    BY TodayGrows
  <2> QED
    BY <2>1, AppendAt DEF TypeInv, StoreOK
<1> HIDE DEF n
<1>2. /\ Positions = 1 .. n /\ Positions' = 1 .. (n + 1)
      /\ \A i \in Positions' : i \in Positions \/ i = n + 1
  BY <1>1 DEF Positions, n
<1>3. /\ queue'[n + 1].order = e /\ queue'[n + 1].day = Today
      /\ \A i \in Positions : queue'[i] = queue[i]
  BY <1>1, <1>2
<1>4. Single'
  BY <1>1, <1>2, <1>3 DEF QueueInv, Single
<1>5. Dated'
  <2>1. \A i \in Positions : queue[i].day \in Nat
    BY DaysType
  <2> QED
    BY <1>1, <1>2, <1>3, <2>1 DEF QueueInv, Dated
<1>6. Written'
  BY <1>1, <1>2, <1>3 DEF QueueInv, Written
<1>7. Querying'
  <2>1. ASSUME NEW i \in Positions PROVE ClosedAfter(i)' = ClosedAfter(i)
    BY <1>1, <1>2, <1>3 DEF ClosedAfter
  <2>2. CASE e # 0
    <3>1. ClosedSince(gate.mode, gate.since)' = ClosedSince(gate.mode, gate.since)
      BY <2>2 DEF ClosedSince, Placed
    <3> QED
      BY <1>1, <1>2, <1>3, <2>1, <2>2, <3>1 DEF QueueInv, Querying
  <2>3. CASE e = 0
    BY <1>1, <1>2, <1>3, <2>3 DEF QueueInv, Querying
  <2> QED
    BY <2>2, <2>3
<1>8. Known'
  <2>1. gate'.pc = gate.pc \/ gate.pc # "tracking"
    OBVIOUS
  <2> QED
    BY <1>1, <1>2, <1>3, <2>1 DEF QueueInv, Known
<1> QED
  BY <1>4, <1>5, <1>6, <1>7, <1>8 DEF QueueInv

(* A caller takes up what was done first.                                  *)
LEMMA TakenUpStep ==
  ASSUME TypeInv, QueueInv, [Next]_vars, up,
         UNCHANGED <<up, row, entries>>,
         NEW e \in {0} \cup Orders, Answered(e), tracked' = tracked \ {e},
         gate' = gate \/ (e = 0 /\ gate'.pc \in {"idle", "pricing"})
  PROVE  QueueInv'
<1> DEFINE n == Len(queue)
<1>1. /\ n \in Nat \ {0} /\ Len(queue') = n - 1
      /\ queue[1].order = e
      /\ \A i \in 1 .. Len(queue') : queue'[i] = queue[i + 1]
      /\ executed \in 1 .. n /\ executed' = executed - 1
  BY TailAt
<1> HIDE DEF n
<1>2. /\ Positions = 1 .. n /\ Positions' = 1 .. (n - 1)
      /\ \A i \in Positions' : i + 1 \in Positions /\ queue'[i] = queue[i + 1]
      /\ \A i \in Positions : i # 1 => i - 1 \in Positions' /\ queue'[i - 1] = queue[i]
      /\ 1 \in Positions
  BY <1>1 DEF Positions, n
<1>0. ASSUME NEW i \in Positions'
      PROVE  i \in Nat /\ i + 1 # 1 /\ i + 1 \in Positions /\ queue'[i] = queue[i + 1]
  BY <1>1, <1>2
<1>3. ASSUME NEW i \in Positions' PROVE queue'[i].order # e
  <2>1. queue[i + 1].order # queue[1].order
    BY <1>0, <1>2 DEF QueueInv, Single
  <2> QED
    BY <1>0, <1>1, <2>1
<1>4. Single'
  <2> SUFFICES ASSUME NEW i \in Positions', NEW j \in Positions',
                      queue'[i].order = queue'[j].order
               PROVE  i = j
    BY DEF Single
  <2>1. i + 1 = j + 1
    BY <1>0 DEF QueueInv, Single
  <2> QED
    BY <1>0, <2>1
<1>5. Dated'
  <2>1. \A i \in Positions : queue[i].day \in Nat
    BY DaysType
  <2>2. ASSUME NEW i \in Positions' PROVE queue'[i].day <= Today'
    <3>1. queue[i + 1].day <= Today /\ queue[i + 1].day \in Nat
      BY <1>0, <2>1 DEF QueueInv, Dated
    <3> QED
      BY <1>0, <3>1, TodayGrows
  <2>3. ASSUME NEW i \in Positions', NEW j \in Positions', i <= j
        PROVE  queue'[i].day <= queue'[j].day
    <3>1. i + 1 <= j + 1 /\ i + 1 \in Positions /\ j + 1 \in Positions
      BY <1>0, <2>3
    <3>2. queue[i + 1].day <= queue[j + 1].day
      BY <3>1 DEF QueueInv, Dated
    <3> QED
      BY <1>0, <3>2
  <2> QED
    BY <2>2, <2>3 DEF Dated
<1>6. Written'
  <2> SUFFICES ASSUME NEW i \in Positions', queue'[i].order # 0
               PROVE  /\ queue'[i].order \in tracked'
                      /\ row[queue'[i].order].open <=> i > executed'
                      /\ i <= executed' => row[queue'[i].order].day = queue'[i].day
    BY DEF Written
  <2>1. i > executed' <=> i + 1 > executed
    BY <1>0, <1>1
  <2>2. i <= executed' <=> i + 1 <= executed
    BY <1>0, <1>1
  <2> QED
    BY <1>0, <1>3, <2>1, <2>2 DEF QueueInv, Written
<1>7. Querying'
  <2> SUFFICES ASSUME NEW i \in Positions', queue'[i].order = 0
               PROVE  /\ gate'.pc = "reading" /\ gate'.since = queue'[i].day
                      /\ i <= executed'
                           => gate'.answer = (ClosedSince(gate.mode, gate.since)
                                                \ ClosedAfter(i))'
    BY DEF Querying
  <2>1. e # 0 /\ gate' = gate
    BY <1>3
  <2>2. i + 1 \in Positions /\ queue[i + 1].order = 0 /\ queue'[i] = queue[i + 1]
    BY <1>2
  <2>3. ClosedAfter(i)' = ClosedAfter(i + 1)
    <3>1. ASSUME NEW j \in Positions', i < j, j <= executed'
          PROVE  queue'[j].order \in ClosedAfter(i + 1)
      <4>1. j + 1 \in Positions /\ queue'[j] = queue[j + 1] /\ i + 1 < j + 1 /\ j + 1 <= executed
        BY <1>0, <1>1, <3>1
      <4> QED
        BY <4>1 DEF ClosedAfter
    <3>2. ASSUME NEW j \in Positions, i + 1 < j, j <= executed
          PROVE  queue[j].order \in ClosedAfter(i)'
      <4>1. j - 1 \in Positions' /\ queue'[j - 1] = queue[j] /\ i < j - 1 /\ j - 1 <= executed'
        <5>1. i \in Nat /\ j \in Nat /\ j # 1
          BY <1>1, <1>2, <3>2
        <5>2. j - 1 \in Positions' /\ queue'[j - 1] = queue[j]
          BY <1>2, <3>2, <5>1
        <5>3. i < j - 1 /\ j - 1 <= executed'
          BY <1>1, <3>2, <5>1
        <5> QED
          BY <5>2, <5>3
      <4> QED
        BY <4>1 DEF ClosedAfter
    <3> QED
      BY <3>1, <3>2 DEF ClosedAfter
  <2>4. ClosedSince(gate.mode, gate.since)' = ClosedSince(gate.mode, gate.since)
    BY <2>1 DEF ClosedSince, Placed
  <2>5. i <= executed' => i + 1 <= executed
    BY <1>1, <1>2
  <2> QED
    BY <2>1, <2>2, <2>3, <2>4, <2>5 DEF QueueInv, Querying
<1>8. Known'
  <2>1. ASSUME NEW f \in tracked', ~row[f].open
        PROVE  \E i \in Positions' : i <= executed' /\ queue'[i].order = f
    <3>1. PICK i \in Positions : i <= executed /\ queue[i].order = f
      BY <2>1 DEF QueueInv, Known
    <3>2. i # 1
      BY <1>1, <3>1
    <3>3. i - 1 \in Positions' /\ queue'[i - 1] = queue[i] /\ i - 1 <= executed'
      <4>1. i - 1 \in Positions' /\ queue'[i - 1] = queue[i]
        BY <1>2, <3>2
      <4>2. i \in Nat
        BY <1>1, <1>2
      <4>3. i - 1 <= executed'
        BY <1>1, <3>1, <4>2
      <4> QED
        BY <4>1, <4>3
    <3> QED
      BY <3>1, <3>3
  <2>2. ASSUME NEW f \in Orders, row[f].open
        PROVE  f \in tracked' \/ (gate'.pc = "tracking" /\ f = entries')
    <3>1. f # e
      <4>1. queue[1].order # 0 => ~row[queue[1].order].open
        BY <1>1, <1>2 DEF QueueInv, Written
      <4>2. f # 0
        BY DEF Orders
      <4> QED
        BY <1>1, <2>2, <4>1, <4>2
    <3>2. e = 0 => gate.pc # "tracking"
      BY <1>1, <1>2 DEF QueueInv, Querying
    <3> QED
      BY <2>2, <3>1, <3>2 DEF QueueInv, Known
  <2>3. gate'.pc = "tracking" => row[entries].open
    BY DEF QueueInv, Known
  <2> QED
    BY <2>1, <2>2, <2>3 DEF Known
<1> QED
  BY <1>4, <1>5, <1>6, <1>7, <1>8 DEF QueueInv

(* The store writes a close, or answers the query with what is closed now. *)
LEMMA DoneStep ==
  ASSUME TypeInv, QueueInv, [Next]_vars, StoreExecutes
  PROVE  QueueInv'
<1>0. PICK k : k = executed + 1
  OBVIOUS
<1>1. /\ k \in Positions /\ k \in Nat /\ executed' = k /\ executed \in Nat /\ k > executed
      /\ queue[k] \in Asked
      /\ queue[k].order # 0 => queue[k].order \in Orders
      /\ UNCHANGED <<up, tracked, queue, now, entries>> /\ up
      /\ \A i \in Positions : i \in Nat
  BY <1>0, NextAsked DEF StoreExecutes, Positions, TypeInv, StoreOK, bounds
<1>2. \A i \in Positions : (i <= executed' <=> i <= executed \/ i = k)
  BY <1>0, <1>1
<1>3. Positions' = Positions
  BY <1>1 DEF Positions
<1>4. Single' /\ Dated'
  BY <1>1, <1>3 DEF QueueInv, Single, Dated, Today
<1>5. /\ row \in [Orders -> Rows] /\ gate \in GateStates(Stages, now)
      /\ tracked \subseteq Orders
  BY DEF TypeInv, BookOK, GateOK, Placed
<1>6. CASE queue[k].order = 0
  <2>1. /\ row' = row
        /\ gate' = [gate EXCEPT !.answer = ClosedSince(gate.mode, queue[k].day)]
    BY <1>0, <1>6 DEF StoreExecutes
  <2>2. /\ gate'.pc = gate.pc /\ gate'.mode = gate.mode /\ gate'.since = gate.since
        /\ gate'.answer = ClosedSince(gate.mode, queue[k].day)
    BY <1>5, <2>1 DEF GateStates
  <2>3. \A i \in Positions : queue[i].order = 0 => i = k
    BY <1>1, <1>6 DEF QueueInv, Single
  <2>4. Written'
    BY <1>1, <1>2, <1>3, <1>6, <2>1 DEF QueueInv, Written
  <2>5. Querying'
    <3>1. ClosedAfter(k)' = {}
      <4>1. ASSUME NEW j \in Positions PROVE ~(k < j /\ j <= executed')
        BY <1>1
      <4> QED
        BY <1>3, <4>1 DEF ClosedAfter
    <3>2. ClosedSince(gate.mode, gate.since)' = ClosedSince(gate.mode, gate.since)
      BY <2>1, <2>2 DEF ClosedSince, Placed
    <3>3. gate.pc = "reading" /\ gate.since = queue[k].day
      BY <1>1, <1>6 DEF QueueInv, Querying
    <3> QED
      BY <1>1, <1>3, <2>2, <2>3, <3>1, <3>2, <3>3 DEF Querying
  <2>6. Known'
    BY <1>1, <1>2, <1>3, <2>1, <2>2 DEF QueueInv, Known
  <2> QED
    BY <1>1, <1>4, <2>4, <2>5, <2>6 DEF QueueInv
<1>7. CASE queue[k].order # 0
  <2>0. PICK e : e = queue[k].order
    OBVIOUS
  <2>1. /\ gate' = gate
        /\ row' = [row EXCEPT ![e].open = FALSE, ![e].pnl = queue[k].pnl,
                              ![e].day = queue[k].day]
    BY <1>0, <1>7, <2>0 DEF StoreExecutes
  <2>2. /\ ~row'[e].open /\ row'[e].day = queue[k].day
        /\ row'[e].mkt = row[e].mkt /\ row'[e].mode = row[e].mode
        /\ \A f \in Orders \ {e} : row'[f] = row[f]
    <3>1. e \in Orders /\ row \in [Orders -> Rows]
      BY <1>1, <1>5, <1>7, <2>0
    <3>2. /\ row'[e] = [row[e] EXCEPT !.open = FALSE, !.pnl = queue[k].pnl, !.day = queue[k].day]
          /\ \A f \in Orders \ {e} : row'[f] = row[f]
      BY <2>1, <3>1
    <3> QED
      BY <3>1, <3>2 DEF Rows
  <2>3. e \in tracked /\ row[e].open /\ e \in Orders /\ e \in Placed
    BY <1>1, <1>7, <2>0 DEF QueueInv, Written, TypeInv, BookOK
  <2>4. \A i \in Positions : queue[i].order = e => i = k
    BY <1>1, <2>0 DEF QueueInv, Single
  <2>5. Written'
    <3> SUFFICES ASSUME NEW i \in Positions, queue[i].order # 0
                 PROVE  /\ queue[i].order \in tracked
                        /\ row'[queue[i].order].open <=> i > executed'
                        /\ i <= executed' => row'[queue[i].order].day = queue[i].day
      BY <1>1, <1>3 DEF Written
    <3>1. CASE i = k
      BY <1>1, <2>0, <2>2, <2>3, <3>1
    <3>2. CASE i # k
      <4>1. queue[i].order # e /\ queue[i].order \in tracked
        BY <2>4, <3>2 DEF QueueInv, Written
      <4>2. row'[queue[i].order] = row[queue[i].order]
        BY <1>5, <2>2, <4>1
      <4>3. (i <= executed' <=> i <= executed) /\ (i > executed' <=> i > executed)
        <5>1. i \in Nat /\ k \in Nat /\ executed \in Nat /\ executed' = k /\ k = executed + 1
          BY <1>0, <1>1
        <5> QED
          BY <3>2, <5>1
      <4> QED
        BY <4>1, <4>2, <4>3 DEF QueueInv, Written
    <3> QED
      BY <3>1, <3>2
  <2>6. Querying'
    <3> SUFFICES ASSUME NEW i \in Positions, queue[i].order = 0, i <= executed'
                 PROVE  (gate.answer = ClosedSince(gate.mode, gate.since) \ ClosedAfter(i))'
      BY <1>1, <1>3, <2>1 DEF QueueInv, Querying
    <3>1. i # k /\ i <= executed /\ i < k
      <4>1. i # k
        BY <1>7
      <4>2. i \in Nat /\ k \in Nat /\ executed \in Nat /\ executed' = k /\ k = executed + 1
        BY <1>0, <1>1
      <4>3. i <= k
        BY <4>2
      <4> QED
        BY <4>1, <4>2, <4>3
    <3>2. gate.answer = ClosedSince(gate.mode, gate.since) \ ClosedAfter(i)
      BY <3>1 DEF QueueInv, Querying
    <3>3. ClosedAfter(i)' = ClosedAfter(i) \cup {e}
      <4>1. \A j \in Positions : i < j /\ j <= executed' <=> (i < j /\ j <= executed) \/ j = k
        BY <1>1, <1>2, <3>1
      <4> QED
        BY <1>1, <1>3, <2>0, <4>1 DEF ClosedAfter
    <3>4. e \notin ClosedSince(gate.mode, gate.since)
      BY <2>3 DEF ClosedSince
    <3>5. \A f \in Orders \ {e} : f \in ClosedSince(gate.mode, gate.since)'
                                    <=> f \in ClosedSince(gate.mode, gate.since)
      BY <2>1, <2>2 DEF ClosedSince, Placed
    <3>6. /\ ClosedSince(gate.mode, gate.since) \subseteq Orders
          /\ ClosedSince(gate.mode, gate.since)' \subseteq Orders
      BY DEF ClosedSince, Placed
    <3> QED
      BY <2>1, <3>2, <3>3, <3>4, <3>5, <3>6
  <2>7. Known'
    <3>1. ASSUME NEW f \in tracked'
          PROVE  row'[f].open \/ \E i \in Positions' : i <= executed' /\ queue'[i].order = f
      <4>1. CASE f = e
        BY <1>1, <1>3, <2>0, <4>1
      <4>2. CASE f # e
        BY <1>1, <1>2, <1>3, <1>5, <2>2, <4>2 DEF QueueInv, Known
      <4> QED
        BY <4>1, <4>2
    <3>2. ASSUME NEW f \in Orders, row'[f].open
          PROVE  f \in tracked' \/ (gate'.pc = "tracking" /\ f = entries')
      BY <1>1, <2>1, <2>2, <3>2 DEF QueueInv, Known
    <3>3. gate'.pc = "tracking" => row'[entries'].open
      <4>1. gate.pc = "tracking" => entries \in Orders \ tracked
        BY DEF TypeInv, Numbered, Placed
      <4> QED
        BY <1>1, <2>1, <2>2, <2>3, <4>1 DEF QueueInv, Known
    <3> QED
      BY <3>1, <3>2, <3>3 DEF Known
  <2> QED
    BY <1>1, <1>4, <2>5, <2>6, <2>7 DEF QueueInv
<1> QED
  BY <1>6, <1>7

LEMMA QueueInvStep ==
  ASSUME TypeInv, QueueInv, [Next]_vars
  PROVE  QueueInv'
<1>0. /\ gate.pc # "idle" => up
      /\ Idle.pc = "idle" /\ 0 \notin Orders
      /\ tracked \subseteq Orders
      /\ gate.pc # "reading" => \A i \in Positions : queue[i].order # 0
  BY DEF TypeInv, GateBusy, BookOK, Idle, Orders, Placed, QueueInv, Querying
<1>1. CASE Halt \/ Resume \/ Toggle
  BY <1>1, QuietStep DEF Halt, Resume, Toggle, Operate, table, store, bounds
<1>2. ASSUME NEW m \in Markets, Begin(m) PROVE QueueInv'
  <2>1. /\ up /\ gate.pc = "idle" /\ Today' = Today
        /\ UNCHANGED <<up, executed, row, tracked, entries>>
    BY <1>0, <1>2 DEF Begin, table, bounds, Today
  <2>2. CASE Leave /\ UNCHANGED queue
    <3>1. gate'.pc = "idle"
      BY <1>0, <2>2 DEF Leave
    <3> QED
      BY <2>1, <2>2, <3>1, QuietStep
  <2>3. CASE /\ gate' = [Idle EXCEPT !.pc = "reading", !.mkt = m, !.mode = runtime.mode,
                                     !.since = Today]
             /\ Ask(0, 0, Today)
    <3>1. gate'.pc = "reading" /\ gate'.since = Today
      BY <2>3 DEF Idle
    <3> QED
      BY <1>0, <2>1, <2>3, <3>1, AskedStep
  <2> QED
    BY <1>2, <2>2, <2>3 DEF Begin
<1>3. CASE CheckLoss
  <2>1. /\ Answered(0) /\ gate' = Idle /\ up /\ tracked' = tracked \ {0}
        /\ UNCHANGED <<up, row, entries>>
    BY <1>0, <1>3 DEF CheckLoss, Leave, table, bounds
  <2> QED
    BY <1>0, <2>1, TakenUpStep
<1>4. CASE CheckMarket
  <2>1. /\ Answered(0) /\ up /\ tracked' = tracked \ {0}
        /\ UNCHANGED <<up, row, entries>>
    BY <1>0, <1>4 DEF CheckMarket, table, bounds
  <2>2. gate'.pc \in {"idle", "pricing"}
    BY <1>4 DEF CheckMarket, Idle
  <2> QED
    BY <2>1, <2>2, TakenUpStep
<1>5. CASE GuardRejects \/ OrderFails \/ SendOrder
  <2>1. gate'.pc \in {"idle", "placing"}
    BY <1>0, <1>5 DEF GuardRejects, OrderFails, SendOrder, Leave, TypeInv, GateOK, GateStates
  <2> QED
    BY <1>5, <2>1, QuietStep DEF GuardRejects, OrderFails, SendOrder, table, store, bounds
<1>6. CASE OrderFills
  <2>1. /\ gate.pc = "placing" /\ gate'.pc = "tracking" /\ up
        /\ UNCHANGED <<up, queue, executed, tracked, entries, now>>
        /\ \A e \in Orders \ {entries} : row'[e] = row[e]
        /\ entries \in Orders \ Placed
        /\ row'[entries].open
    <3>1. gate \in GateStates(Stages, now) /\ row \in [Orders -> Rows]
      BY DEF TypeInv, GateOK, BookOK
    <3>2. entries \in Orders \ Placed
      BY <1>6 DEF OrderFills, TypeInv, Numbered
    <3>3. gate'.pc = "tracking"
      BY <1>6, <3>1 DEF OrderFills, At, GateStates
    <3>4. row' = [row EXCEPT ![entries] =
                    [NoRow EXCEPT !.mkt = gate.mkt, !.mode = gate.mode, !.open = TRUE]]
      BY <1>6 DEF OrderFills
    <3>5. row'[entries].open
      BY <3>1, <3>2, <3>4 DEF NoRow
    <3> QED
      BY <1>0, <1>6, <3>1, <3>2, <3>3, <3>4, <3>5 DEF OrderFills, store, bounds
  <2>2. \A e \in tracked : row'[e] = row[e]
    BY <1>0, <2>1 DEF TypeInv, BookOK
  <2>3. Single' /\ Dated' /\ Written'
    BY <2>1, <2>2 DEF QueueInv, Single, Dated, Written, Positions, Today
  <2>4. Querying'
    BY <1>0, <2>1 DEF Querying, Positions
  <2>5. Known'
    BY <2>1, <2>2 DEF QueueInv, Known, Positions
  <2> QED
    BY <2>1, <2>3, <2>4, <2>5 DEF QueueInv
<1>7. CASE Track
  <2>1. /\ gate.pc = "tracking" /\ gate'.pc = "idle" /\ up
        /\ UNCHANGED <<up, queue, executed, row, entries, now>>
        /\ tracked' = tracked \cup {entries}
        /\ entries \in Placed \ tracked
    BY <1>0, <1>7 DEF Track, Leave, table, store, bounds, TypeInv, Numbered
  <2>2. row[entries].open
    BY <2>1 DEF QueueInv, Known
  <2>3. Single' /\ Dated' /\ Written'
    BY <2>1 DEF QueueInv, Single, Dated, Written, Positions, Today
  <2>4. Querying'
    BY <1>0, <2>1 DEF Querying, Positions
  <2>5. Known'
    BY <2>1, <2>2 DEF QueueInv, Known, Positions
  <2> QED
    BY <2>1, <2>3, <2>4, <2>5 DEF QueueInv
<1>8. ASSUME NEW e \in Orders PROVE Mark(e) => QueueInv'
  BY QuietStep DEF Mark, table, store, bounds
<1>9. ASSUME NEW e \in Orders, Close(e) PROVE QueueInv'
  <2>1. PICK pnl \in Outcomes : Ask(e, pnl, Today)
    BY <1>9 DEF Close
  <2>2. pnl \in Int
    BY GateAssumption
  <2>3. /\ up /\ e \in tracked /\ gate' = gate /\ Today' = Today /\ e # 0
        /\ UNCHANGED <<up, executed, row, tracked, entries>>
        /\ \A i \in Positions : queue[i].order # e
    BY <1>0, <1>9 DEF Close, WhileWritten, Waiting, Positions, table, bounds, Today, TypeInv, StoreOK
  <2>4. row[e].open
    BY <2>3 DEF QueueInv, Known
  <2> QED
    BY <2>1, <2>2, <2>3, <2>4, AskedStep
<1>10. ASSUME NEW e \in Orders, Drop(e) PROVE QueueInv'
  BY <1>10, TakenUpStep DEF Drop, table, bounds
<1>11. CASE StoreExecutes
  BY <1>11, DoneStep
<1>12. CASE Tick
  BY <1>12, QuietStep DEF Tick, memory, table, store
<1>13. CASE Crash
  <2>1. queue' = <<>> /\ ~up' /\ Positions' = {}
    BY <1>13 DEF Crash, Positions
  <2> QED
    BY <2>1 DEF QueueInv, Single, Dated, Written, Querying
<1>14. CASE Restart
  <2>1. queue = <<>> /\ queue' = <<>> /\ UNCHANGED row
        /\ tracked' = {e \in Orders : row[e].open} /\ Positions' = {}
    BY <1>14 DEF Restart, QueueInv, Positions, table, store
  <2>2. gate'.pc # "tracking"
    BY <1>14 DEF Restart, TypeInv, GateBusy
  <2> QED
    BY <2>1, <2>2 DEF QueueInv, Single, Dated, Written, Querying, Known
<1>15. CASE UNCHANGED vars
  BY <1>15, QuietStep DEF vars, memory, table, store, bounds
<1> QED
  BY <1>1, <1>2, <1>3, <1>4, <1>5, <1>6, <1>7, <1>8, <1>9, <1>10, <1>11, <1>12, <1>13,
     <1>14, <1>15
  DEF Next, GateStep

(* The query is at the head when it is taken up: what was closed after it  *)
(* is what its caller still tracks.                                        *)
LEMMA CheckCounts ==
  ASSUME TypeInv, QueueInv, CheckLoss \/ CheckMarket
  PROVE  /\ gate.answer \cup InMode(gate.mode) = LossDue(gate.mode, gate.since)
         /\ gate.answer \cap InMode(gate.mode) = {}
<1>1. /\ gate.pc = "reading" /\ up
      /\ queue[1].order = 0 /\ 1 \in Positions /\ executed >= 1 /\ executed \in Nat
      /\ \A i \in Positions : i \in Nat /\ i >= 1
      /\ 0 \notin Orders
  BY TailAt DEF CheckLoss, CheckMarket, TypeInv, GateBusy, Positions, Orders
<1>2. gate.answer = ClosedSince(gate.mode, gate.since) \ ClosedAfter(1)
  BY <1>1 DEF QueueInv, Querying
<1>3. gate.since = queue[1].day
  BY <1>1 DEF QueueInv, Querying
<1>4. ClosedAfter(1) = {e \in tracked : ~row[e].open}
  <2>1. ASSUME NEW i \in Positions, 1 < i, i <= executed
        PROVE  queue[i].order \in tracked /\ ~row[queue[i].order].open
    <3>1. queue[i].order # 0
      BY <1>1, <2>1 DEF QueueInv, Single
    <3> QED
      BY <1>1, <2>1, <3>1 DEF QueueInv, Written
  <2>2. ASSUME NEW e \in tracked, ~row[e].open PROVE e \in ClosedAfter(1)
    <3>1. PICK i \in Positions : i <= executed /\ queue[i].order = e
      BY <1>1, <2>2 DEF QueueInv, Known
    <3>2. e # 0
      BY <1>1 DEF TypeInv, BookOK, Placed
    <3> QED
      BY <1>1, <3>1, <3>2 DEF ClosedAfter
  <2> QED
    BY <2>1, <2>2 DEF ClosedAfter
<1>5. ASSUME NEW e \in InMode(gate.mode), ~row[e].open
      PROVE  e \in ClosedSince(gate.mode, gate.since)
  <2>1. e \in tracked /\ row[e].mode = gate.mode /\ e \in Placed
    BY DEF InMode, TypeInv, BookOK
  <2>2. PICK i \in Positions : i <= executed /\ queue[i].order = e
    BY <1>1, <1>5, <2>1 DEF QueueInv, Known
  <2>3. e # 0 /\ row[e].day = queue[i].day
    BY <1>1, <2>1, <2>2 DEF QueueInv, Written, Placed
  <2>4. queue[1].day <= queue[i].day /\ queue[1].day \in Nat /\ queue[i].day \in Nat
    BY <1>1, DaysType DEF QueueInv, Dated
  <2> QED
    BY <1>3, <1>5, <2>1, <2>3, <2>4 DEF ClosedSince
<1>6. ASSUME NEW e \in Placed, row[e].open PROVE e \in tracked
  BY <1>1, <1>6 DEF QueueInv, Known, Placed
<1>7. tracked \subseteq Placed
  BY DEF TypeInv, BookOK
<1>8. ClosedSince(gate.mode, gate.since) \subseteq
        {e \in Placed : row[e].mode = gate.mode /\ ~row[e].open}
  BY DEF ClosedSince
<1> QED
  BY <1>2, <1>4, <1>5, <1>6, <1>7, <1>8 DEF LossDue, InMode

LEMMA QueueInvInit == Init => QueueInv
<1> SUFFICES ASSUME Init PROVE QueueInv
  OBVIOUS
<1>1. Positions = {} /\ queue = <<>> /\ up /\ tracked = {}
  BY DEF Init, Positions
<1>2. gate.pc = "idle" /\ \A e \in Orders : ~row[e].open
  BY NoRowType DEF Init, Idle
<1> QED
  BY <1>1, <1>2 DEF QueueInv, Single, Dated, Written, Querying, Known

(* Whenever the gate compares the sum with the limit, every position of    *)
(* its mode that is open or was closed since the start of the day is in    *)
(* exactly one of its two terms: whatever closes at once with the reading, *)
(* over midnights, crashes and changes of the mode.                        *)
THEOREM LossesCountedOnce == Spec => CountedOnce
<1>1. TypeInv /\ QueueInv /\ [Next]_vars => TypeInv' /\ QueueInv'
  BY TypeStep, QueueInvStep
<1>2. TypeInv /\ QueueInv /\ [Next]_vars
        => [CheckLoss \/ CheckMarket
              => /\ gate.answer \cup InMode(gate.mode) = LossDue(gate.mode, gate.since)
                 /\ gate.answer \cap InMode(gate.mode) = {}]_vars
  BY CheckCounts
<1> QED
  BY TypeInit, QueueInvInit, <1>1, <1>2, PTL DEF Spec, CountedOnce
=============================================================================
