------------------------- MODULE PositionBookProofs -------------------------
(***************************************************************************)
(* Types and safety of PositionBook, for every number of positions,        *)
(* markets, callers, crashes and other faults: the types and references    *)
(* (TypeCorrect), the markets, the cap and the table (BookSafe and what    *)
(* follows from it), the exposure budget (ExposureBound); then the book    *)
(* against the exchange (BookMatches, ReconcilesFlat) and against the      *)
(* abstract table (KeepsTheLedger).                                        *)
(***************************************************************************)
EXTENDS PositionBook, FiniteSetTheorems, WellFoundedInduction, TLAPS

(***************************************************************************)
(* Types.  TypeOK is not inductive alone: a task names a position          *)
(* (trader.id, closer[c].id, monitor.id), and the type of what it then     *)
(* reads depends on that name being one of a position that exists.  Refs   *)
(* says so for every task, for the registry and for the table.             *)
(***************************************************************************)
(* The trade section has built its Position.                               *)
Entering == {"sent", "replied", "verify", "placing", "placed", "persisted"}

Used(id) == /\ id \in Ids
            /\ pos[id].status # "unused"
            /\ pos[id].mkt \in Markets

TraderRefs  == /\ trader.pc # "idle" => trader.mkt \in Markets
               /\ trader.pc \in Entering => Used(trader.id)
CloserRefs  == \A c \in Closers : closer[c].pc # "idle" => Used(closer[c].id)
MonitorRefs == /\ \A id \in monitor.left : Used(id)
               /\ monitor.pc = "price" => Used(monitor.id)
BookRefs    == \A id \in open : Used(id)
RowRefs     == \A id \in Ids : row[id].status # "unused" =>
                 Used(id) /\ row[id].mkt = pos[id].mkt

Refs  == TraderRefs /\ CloserRefs /\ MonitorRefs /\ BookRefs /\ RowRefs
Typed == TypeOK /\ Refs

(* A step that forgets no position and moves none to another market.       *)
Stable == \A id \in Ids : Used(id) => Used(id)' /\ pos'[id].mkt = pos[id].mkt
-----------------------------------------------------------------------------
(* References survive a stable step as long as nothing new is referred to. *)
LEMMA StableRefs ==
  ASSUME Refs, Stable
  PROVE  /\ trader' = trader => TraderRefs'
         /\ closer' = closer => CloserRefs'
         /\ monitor' = monitor => MonitorRefs'
         /\ open' \subseteq open => BookRefs'
         /\ row' = row => RowRefs'
<1>1. trader' = trader => TraderRefs'     BY DEF Stable, Refs, TraderRefs, Used
<1>2. closer' = closer => CloserRefs'     BY DEF Stable, Refs, CloserRefs, Used
<1>3. monitor' = monitor => MonitorRefs'  BY DEF Stable, Refs, MonitorRefs, Used
<1>4. open' \subseteq open => BookRefs'   BY DEF Stable, Refs, BookRefs, Used
<1>5. row' = row => RowRefs'              BY DEF Stable, Refs, RowRefs, Used
<1> QED BY <1>1, <1>2, <1>3, <1>4, <1>5

LEMMA UnchangedStable == pos' = pos => Stable
  BY DEF Stable, Used

LEMMA CallersAreClosers == "monitor" \in Closers /\ "trader" \in Closers
  BY DEF Closers

LEMMA FaultCount ==
  ASSUME WorldOK, NEW f, Fault(f) \/ NoFault PROVE faults' \in Nat
  BY DEF WorldOK, Fault, NoFault

LEMMA UpsertTyped ==
  ASSUME Typed, Stable, NEW id \in Ids, NEW record \in Position, Used(id),
         record.mkt = pos[id].mkt,
         UpsertOk(id, record) \/ UpsertRaises
  PROVE  row' \in [Ids -> Position] /\ faults' \in Nat /\ RowRefs'
<1>1. faults' \in Nat
  BY FaultCount DEF Typed, TypeOK, UpsertOk, UpsertRaises
<1>2. row' \in [Ids -> Position]
  BY DEF Typed, TypeOK, WorldOK, UpsertOk, UpsertRaises
<1>3. RowRefs'
  BY DEF Stable, Typed, Refs, RowRefs, TypeOK, WorldOK, UpsertOk, UpsertRaises, Used
<1> QED BY <1>1, <1>2, <1>3

(* A step of one closer to a state that is idle or names a used position.  *)
LEMMA CloserMoves ==
  ASSUME Typed, Stable, NEW c \in Closers, NEW r \in CloserState,
         closer' = [closer EXCEPT ![c] = r],
         r.pc # "idle" => Used(r.id)
  PROVE  closer' \in [Closers -> CloserState] /\ CloserRefs'
  BY DEF Typed, Refs, CloserRefs, TypeOK, CloserState, Stable, Used

LEMMA CloserAdvances ==
  ASSUME Typed, Stable, NEW c \in Closers, closer[c].pc # "idle",
         NEW pc \in {"sent", "replied", "booked", "record", "saved", "unsaved"},
         closer' = [closer EXCEPT ![c].pc = pc]
  PROVE  closer' \in [Closers -> CloserState] /\ CloserRefs'
  BY DEF Typed, Refs, CloserRefs, TypeOK, CloserState, Stable, Used

LEMMA IdleIsACloserState == CloserIdle \in CloserState /\ CloserIdle.pc = "idle"
  BY DEF CloserIdle, CloserState

LEMMA ReleaseTyped ==
  ASSUME Typed, Stable, NEW c \in Closers, Release(c)
  PROVE  /\ closing' \in SUBSET Ids
         /\ closer' \in [Closers -> CloserState] /\ CloserRefs'
<1>1. closing' \in SUBSET Ids
  BY DEF Release, Typed, TypeOK, MemoryOK
<1>2. closer' \in [Closers -> CloserState] /\ CloserRefs'
  BY CloserMoves, IdleIsACloserState DEF Release
<1> QED BY <1>1, <1>2

LEMMA BeginCloseTyped ==
  ASSUME Typed, Stable, NEW c \in Closers, NEW id, Used(id), BeginClose(c, id)
  PROVE  /\ closing' \in SUBSET Ids
         /\ closer' \in [Closers -> CloserState] /\ CloserRefs'
<1> DEFINE r == [pc |-> IF Live(id) THEN "sent" ELSE "record",
                 id |-> id, fill |-> 0]
<1>1. r \in CloserState /\ r.id = id
  BY DEF Used, CloserState
<1>2. closer' = [closer EXCEPT ![c] = r]
  BY DEF BeginClose
<1>3. closing' \in SUBSET Ids
  BY DEF BeginClose, Typed, TypeOK, MemoryOK, Used
<1> HIDE DEF r
<1> QED BY <1>1, <1>2, <1>3, CloserMoves

LEMMA AbortTyped ==
  ASSUME Typed, Stable, NEW c, AbortPass(c)
  PROVE  monitor' \in MonitorState /\ MonitorRefs'
  BY StableRefs DEF AbortPass, MonitorIdle, MonitorRefs, Typed, TypeOK, MonitorState

LEMMA DropTyped ==
  ASSUME Typed, Stable, NEW id, Drop(id)
  PROVE  open' \in SUBSET Ids /\ misses' \in [Ids -> 0 .. 2] /\ BookRefs'
<1>1. 0 \in 0 .. 2
  OBVIOUS
<1>2. open' \in SUBSET Ids /\ misses' \in [Ids -> 0 .. 2]
  BY <1>1 DEF Drop, Typed, TypeOK, MemoryOK
<1>3. BookRefs'
  BY StableRefs DEF Drop, Typed
<1> QED BY <1>2, <1>3
-----------------------------------------------------------------------------
LEMMA InitTyped == Init => Typed
<1> SUFFICES ASSUME Init PROVE Typed OBVIOUS
<1>1. TypeOK
  BY ConstantsAssumption
     DEF Init, TypeOK, MemoryOK, WorldOK, TraderState, CloserState, MonitorState,
         Position, Unused, TraderIdle, CloserIdle, MonitorIdle
<1>2. Refs
  BY DEF Init, Refs, TraderRefs, CloserRefs, MonitorRefs, BookRefs, RowRefs,
         TraderIdle, CloserIdle, MonitorIdle, Entering, Unused
<1> QED BY <1>1, <1>2 DEF Typed

LEMMA RequestTyped == ASSUME Typed, Request PROVE Typed'
<1>1. ASSUME NEW m \in Markets, StartTrade(m) PROVE Typed'
  <2>1. trader' \in TraderState /\ TraderRefs'
    BY <1>1 DEF StartTrade, TraderIdle, TraderState, TraderRefs, Entering
  <2> QED
    BY <1>1, <2>1, StableRefs, UnchangedStable
       DEF StartTrade, Typed, TypeOK, MemoryOK, WorldOK, Refs, memory, exchange
<1>2. ASSUME NEW id \in Ids, ContraryClose(id) PROVE Typed'
  <2>1. Stable /\ Used(id)
    BY <1>2, UnchangedStable DEF ContraryClose, ForceClose, Typed, Refs, BookRefs
  <2>2. /\ closing' \in SUBSET Ids
        /\ closer' \in [Closers -> CloserState] /\ CloserRefs'
    BY <1>2, <2>1, BeginCloseTyped, CallersAreClosers DEF ContraryClose, ForceClose
  <2> QED
    BY <1>2, <2>1, <2>2, StableRefs
       DEF ContraryClose, Typed, TypeOK, MemoryOK, WorldOK, Refs, exchange
<1>3. ASSUME NEW id \in Ids, NEW u \in Users, UserClose(u, id) PROVE Typed'
  <2>1. Stable /\ Used(id) /\ u \in Closers
    BY <1>3, UnchangedStable
       DEF UserClose, ForceClose, Typed, Refs, BookRefs, Closers
  <2>2. /\ closing' \in SUBSET Ids
        /\ closer' \in [Closers -> CloserState] /\ CloserRefs'
    BY <1>3, <2>1, BeginCloseTyped DEF UserClose, ForceClose
  <2> QED
    BY <1>3, <2>1, <2>2, StableRefs
       DEF UserClose, Typed, TypeOK, MemoryOK, WorldOK, Refs, exchange
<1> QED BY <1>1, <1>2, <1>3 DEF Request

LEMMA TraderStepTyped == ASSUME Typed, TraderStep PROVE Typed'
<1>1. CASE PassCaps
  <2>1. trader' \in TraderState /\ TraderRefs'
    BY <1>1 DEF PassCaps, Typed, TypeOK, TraderState, Refs, TraderRefs, Entering
  <2> QED
    BY <1>1, <2>1, StableRefs, UnchangedStable
       DEF PassCaps, Typed, TypeOK, MemoryOK, WorldOK, Refs, memory, exchange
<1>2. CASE RejectTrade
  <2>1. trader' \in TraderState /\ TraderRefs'
    BY <1>2 DEF RejectTrade, TraderIdle, TraderState, TraderRefs, Entering
  <2> QED
    BY <1>2, <2>1, StableRefs, UnchangedStable
       DEF RejectTrade, Typed, TypeOK, MemoryOK, WorldOK, Refs, memory, exchange
<1>3. ASSUME NEW id \in Ids, NEW lots \in 1 .. MaxLots, NEW mode \in Modes,
             SendOrder(id, lots, mode)
      PROVE  Typed'
  <2>1. lots \in Nat /\ mode \in {"paper", "live"}
    BY ConstantsAssumption
  <2>2. pos' \in [Ids -> Position]
    BY <1>3, <2>1
       DEF SendOrder, Typed, TypeOK, MemoryOK, TraderState, Position, Unused
  <2>3. trader' \in TraderState
    BY <1>3, <2>1 DEF SendOrder, Typed, TypeOK, TraderState
  <2>4. Stable
    BY <1>3 DEF SendOrder, Typed, TypeOK, MemoryOK, Used, Stable
  <2>5. TraderRefs'
    BY <1>3 DEF SendOrder, Typed, Refs, TraderRefs, TypeOK, MemoryOK, TraderState,
                Used, Unused
  <2> QED
    BY <1>3, <2>2, <2>3, <2>4, <2>5, StableRefs
       DEF SendOrder, Typed, TypeOK, MemoryOK, WorldOK, Refs, exchange
<1>4. CASE ExecuteOpen
  <2>1. PICK fill \in 0 .. trader.lots :
          /\ \E f : Fault(f) \/ NoFault
          /\ \/ trader' = [trader EXCEPT !.pc = "replied", !.lots = fill]
             \/ trader' = [trader EXCEPT !.pc = "verify"]
          /\ exch' = [exch EXCEPT ![trader.mkt] = @ + fill]
    BY <1>4 DEF ExecuteOpen
  <2>2. fill \in Nat /\ faults' \in Nat
    BY <2>1, FaultCount DEF Typed, TypeOK, TraderState
  <2>3. trader.pc = "sent" /\ trader.mkt \in Markets
    BY <1>4 DEF ExecuteOpen, Typed, Refs, TraderRefs
  <2>4. trader' \in TraderState /\ TraderRefs'
    BY <1>4, <2>1, <2>2, <2>3
       DEF ExecuteOpen, Typed, TypeOK, TraderState, Refs, TraderRefs, Entering, Used,
           memory
  <2>5. exch' \in [Markets -> Nat]
    BY <2>1, <2>2, <2>3 DEF Typed, TypeOK, WorldOK
  <2> QED
    BY <1>4, <2>2, <2>4, <2>5, StableRefs, UnchangedStable
       DEF ExecuteOpen, Typed, TypeOK, MemoryOK, WorldOK, Refs, memory
<1>5. CASE OpenReply
  <2>1. trader.pc = "replied" /\ Used(trader.id)
    BY <1>5 DEF OpenReply, Typed, Refs, TraderRefs, Entering
  <2>2. trader' \in TraderState
    BY <1>5 DEF OpenReply, TraderIdle, Typed, TypeOK, TraderState
  <2>3. pos' \in [Ids -> Position] /\ Stable
    BY <1>5, <2>1
       DEF OpenReply, Typed, TypeOK, MemoryOK, TraderState, Position, Used, Stable
  <2>4. TraderRefs'
    BY <1>5, <2>1, <2>3
       DEF OpenReply, TraderIdle, Typed, TypeOK, TraderState, Refs, TraderRefs,
           Entering, Stable, Used
  <2> QED
    BY <1>5, <2>2, <2>3, <2>4, StableRefs
       DEF OpenReply, Typed, TypeOK, MemoryOK, WorldOK, Refs, exchange
<1>6. CASE VerifyOrder
  <2>1. trader.pc = "verify" /\ Used(trader.id) /\ trader.mkt \in Markets
    BY <1>6 DEF VerifyOrder, Typed, Refs, TraderRefs, Entering
  <2>2. exch[trader.mkt] \in Nat /\ faults' \in Nat
    BY <1>6, <2>1, FaultCount DEF VerifyOrder, Typed, TypeOK, WorldOK
  <2>3. PICK held \in Nat :
          \/ /\ trader' = [trader EXCEPT !.pc = "placing", !.lots = held]
             /\ pos' = [pos EXCEPT ![trader.id].size = held]
          \/ /\ trader' = TraderIdle
             /\ pos' = pos
    BY <1>6, <2>2 DEF VerifyOrder
  <2>4. trader' \in TraderState
    <3>1. /\ [trader EXCEPT !.pc = "placing", !.lots = held] \in TraderState
          /\ TraderIdle \in TraderState
      BY DEF TraderIdle, Typed, TypeOK, TraderState
    <3> QED BY <2>3, <3>1
  <2>5. pos' \in [Ids -> Position] /\ Stable
    BY <2>1, <2>3 DEF Typed, TypeOK, MemoryOK, Position, Used, Stable
  <2>6. TraderRefs'
    <3>1. CASE trader' = TraderIdle
      BY <3>1 DEF TraderIdle, TraderRefs, Entering
    <3>2. CASE trader' = [trader EXCEPT !.pc = "placing", !.lots = held]
      BY <2>1, <2>5, <3>2 DEF Typed, TypeOK, TraderState, TraderRefs, Stable, Used
    <3> QED BY <2>3, <3>1, <3>2
  <2> QED
    BY <1>6, <2>2, <2>4, <2>5, <2>6, StableRefs
       DEF VerifyOrder, Typed, TypeOK, MemoryOK, WorldOK, Refs, exchange
<1>7. CASE PlaceStop
  <2>1. trader.pc = "placing" /\ Used(trader.id) /\ faults' \in Nat
    BY <1>7, FaultCount DEF PlaceStop, Typed, TypeOK, Refs, TraderRefs, Entering
  <2>2. pos' \in [Ids -> Position] /\ Stable
    <3>1. pos \in [Ids -> Position] /\ trader.id \in Ids
      BY <2>1 DEF Typed, TypeOK, MemoryOK, Used
    <3>2. CASE pos' = pos
      BY <3>1, <3>2, UnchangedStable
    <3>3. CASE pos' = [pos EXCEPT ![trader.id].stop = TRUE]
      <4>1. pos' \in [Ids -> Position]
        BY <3>1, <3>3 DEF Position
      <4>2. Stable
        BY <3>1, <3>3 DEF Stable, Used
      <4> QED BY <4>1, <4>2
    <3> QED BY <1>7, <3>2, <3>3 DEF PlaceStop
  <2>3. resting' \in [Markets -> SUBSET Ids]
    BY <1>7, <2>1 DEF PlaceStop, Typed, TypeOK, WorldOK, Used
  <2>4. trader' \in TraderState /\ TraderRefs'
    BY <1>7, <2>1, <2>2
       DEF PlaceStop, Typed, TypeOK, TraderState, Refs, TraderRefs, Entering, Stable,
           Used
  <2> QED
    BY <1>7, <2>1, <2>2, <2>3, <2>4, StableRefs
       DEF PlaceStop, Typed, TypeOK, MemoryOK, WorldOK, Refs
<1>8. CASE PersistOpen
  <2>1. trader.pc = "placed" /\ Used(trader.id) /\ Stable
    BY <1>8, UnchangedStable
       DEF PersistOpen, memory, Typed, Refs, TraderRefs, Entering
  <2>2. pos[trader.id] \in Position
    BY <2>1 DEF Typed, TypeOK, MemoryOK, Used
  <2>3. row' \in [Ids -> Position] /\ faults' \in Nat /\ RowRefs'
    <3>1. UpsertOk(trader.id, pos[trader.id]) \/ UpsertRaises
      BY <1>8 DEF PersistOpen
    <3> QED BY <2>1, <2>2, <3>1, UpsertTyped DEF Used
  <2>4. trader' \in TraderState /\ TraderRefs'
    BY <1>8, <2>1
       DEF PersistOpen, Typed, TypeOK, TraderState, Refs, TraderRefs, Entering, Stable,
           Used
  <2> QED
    BY <1>8, <2>1, <2>3, <2>4, StableRefs
       DEF PersistOpen, Typed, TypeOK, MemoryOK, WorldOK, Refs, memory, exchange
<1>9. CASE Track
  <2>1. trader.pc = "persisted" /\ Used(trader.id) /\ Stable
    BY <1>9, UnchangedStable DEF Track, Typed, Refs, TraderRefs, Entering
  <2>2. open' \in SUBSET Ids /\ BookRefs'
    BY <1>9, <2>1 DEF Track, Typed, TypeOK, MemoryOK, Refs, BookRefs, Stable, Used
  <2>3. trader' \in TraderState /\ TraderRefs'
    BY <1>9 DEF Track, TraderIdle, TraderState, TraderRefs, Entering
  <2> QED
    BY <1>9, <2>1, <2>2, <2>3, StableRefs
       DEF Track, Typed, TypeOK, MemoryOK, WorldOK, Refs, exchange
<1> QED
  BY <1>1, <1>2, <1>3, <1>4, <1>5, <1>6, <1>7, <1>8, <1>9 DEF TraderStep

(* _record_close's assignments and write, by any caller.                   *)
LEMMA MarkRecordedTyped ==
  ASSUME Typed, NEW id, Used(id), MarkRecorded(id)
  PROVE  /\ Stable
         /\ pos' \in [Ids -> Position]
         /\ row' \in [Ids -> Position] /\ faults' \in Nat /\ RowRefs'
<1>1. pos[id] \in Position /\ id \in Ids
  BY DEF Typed, TypeOK, MemoryOK, Used
<1>2. pos[id].realized + pos[id].size \in Nat
  BY <1>1 DEF Position
<1>3. /\ Recorded(id) \in Position
      /\ Recorded(id).mkt = pos[id].mkt
      /\ Recorded(id).status = "closed"
  BY <1>1, <1>2 DEF Recorded, Position
<1>4. pos' \in [Ids -> Position] /\ Stable
  BY <1>1, <1>3 DEF MarkRecorded, Typed, TypeOK, MemoryOK, Stable, Used
<1> QED BY <1>1, <1>3, <1>4, UpsertTyped DEF MarkRecorded

LEMMA CloserStepTyped == ASSUME Typed, NEW c \in Closers, CloserStep(c) PROVE Typed'
<1> DEFINE id == closer[c].id
           k  == closer[c].fill
<1>0. closer[c] \in CloserState /\ k \in Nat
  BY DEF Typed, TypeOK, CloserState
<1>1. CASE ExecuteClose(c)
  <2>1. closer[c].pc = "sent" /\ Used(id) /\ Stable
    BY <1>1, UnchangedStable DEF ExecuteClose, memory, Typed, Refs, CloserRefs
  <2> DEFINE m == pos[id].mkt
             held == exch[m]
  <2>2. held \in Nat /\ m \in Markets
    BY <2>1 DEF Typed, TypeOK, WorldOK, Used
  <2>3. PICK sold \in 0 .. held, fill \in 0 .. held :
          /\ \E f : Fault(f) \/ NoFault
          /\ exch' = [exch EXCEPT ![m] = held - sold]
          /\ resting' = IF sold = held THEN [resting EXCEPT ![m] = {}] ELSE resting
          /\ closer' = [closer EXCEPT ![c].pc = "replied", ![c].fill = fill]
    BY <1>1 DEF ExecuteClose
  <2>4. held - sold \in Nat /\ fill \in Nat /\ faults' \in Nat
    BY <2>2, <2>3, FaultCount DEF Typed, TypeOK
  <2>5. exch' \in [Markets -> Nat] /\ resting' \in [Markets -> SUBSET Ids]
    BY <2>2, <2>3, <2>4 DEF Typed, TypeOK, WorldOK
  <2>6. closer' \in [Closers -> CloserState] /\ CloserRefs'
    <3> DEFINE r == [closer[c] EXCEPT !.pc = "replied", !.fill = fill]
    <3>1. r \in CloserState /\ r.id = id /\ closer' = [closer EXCEPT ![c] = r]
      BY <1>0, <2>3, <2>4 DEF CloserState
    <3> HIDE DEF r
    <3> QED BY <2>1, <3>1, CloserMoves
  <2> QED
    BY <1>1, <2>1, <2>4, <2>5, <2>6, StableRefs
       DEF ExecuteClose, Typed, TypeOK, MemoryOK, WorldOK, Refs, memory
<1>2. CASE CloseUnfilled(c)
  <2>1. Stable BY <1>2, UnchangedStable DEF CloseUnfilled
  <2> QED
    BY <1>2, <2>1, ReleaseTyped, StableRefs
       DEF CloseUnfilled, Typed, TypeOK, MemoryOK, WorldOK, Refs, exchange
<1>3. CASE ClosePartial(c)
  <2>1. Used(id) /\ pos[id] \in Position /\ closer[c].pc = "replied"
    BY <1>3 DEF ClosePartial, Typed, Refs, CloserRefs, Used, TypeOK, MemoryOK
  <2>2. pos[id].size - k \in Nat /\ pos[id].realized + k \in Nat
    BY <1>0, <1>3, <2>1 DEF ClosePartial, Position
  <2>3. /\ Sliced(id, k) \in Position
        /\ Sliced(id, k).mkt = pos[id].mkt
        /\ Sliced(id, k).status = pos[id].status
    BY <2>1, <2>2 DEF Sliced, Position
  <2>4. pos' \in [Ids -> Position] /\ Stable
    BY <1>3, <2>1, <2>3 DEF ClosePartial, Typed, TypeOK, MemoryOK, Stable, Used
  <2>5. row' \in [Ids -> Position] /\ faults' \in Nat /\ RowRefs'
    <3>1. UpsertOk(id, Sliced(id, k)) \/ UpsertRaises
      BY <1>3 DEF ClosePartial
    <3> QED BY <2>1, <2>3, <2>4, <3>1, UpsertTyped DEF Used
  <2>6. closer' \in [Closers -> CloserState] /\ CloserRefs'
    BY <1>3, <2>1, <2>4, CloserAdvances DEF ClosePartial
  <2> QED
    BY <1>3, <2>4, <2>5, <2>6, StableRefs
       DEF ClosePartial, Typed, TypeOK, MemoryOK, WorldOK, Refs, exchange
<1>4. CASE CloseFilled(c)
  <2>1. /\ Used(id) /\ pos \in [Ids -> Position] /\ id \in Ids
        /\ closer[c].pc = "replied"
    BY <1>4 DEF CloseFilled, Typed, Refs, CloserRefs, Used, TypeOK, MemoryOK
  <2>2. pos' = [pos EXCEPT ![id].stop = FALSE]
    BY <1>4 DEF CloseFilled
  <2>3. pos' \in [Ids -> Position]
    BY <2>1, <2>2 DEF Position
  <2>4. Stable
    BY <2>1, <2>2 DEF Stable, Used
  <2>5. resting' \in [Markets -> SUBSET Ids]
    BY <1>4, <2>1 DEF CloseFilled, Typed, TypeOK, WorldOK, Used
  <2>6. closer' \in [Closers -> CloserState] /\ CloserRefs'
    BY <1>4, <2>1, <2>4, CloserAdvances DEF CloseFilled
  <2> QED
    BY <1>4, <2>3, <2>4, <2>5, <2>6, StableRefs
       DEF CloseFilled, Typed, TypeOK, MemoryOK, WorldOK, Refs
<1>5. CASE RecordClose(c)
  <2>1. closer[c].pc = "record" /\ Used(id)
    BY <1>5 DEF RecordClose, Typed, Refs, CloserRefs
  <2>2. /\ Stable
        /\ pos' \in [Ids -> Position]
        /\ row' \in [Ids -> Position] /\ faults' \in Nat /\ RowRefs'
    <3>1. CASE pos[id].status = "closed"
      BY <1>5, <3>1, UnchangedStable, StableRefs
         DEF RecordClose, Typed, TypeOK, MemoryOK, WorldOK
    <3>2. CASE pos[id].status # "closed"
      BY <1>5, <2>1, <3>2, MarkRecordedTyped DEF RecordClose
    <3> QED BY <3>1, <3>2
  <2>3. closer' \in [Closers -> CloserState] /\ CloserRefs'
    <3>1. PICK pc \in {"saved", "unsaved"} : closer' = [closer EXCEPT ![c].pc = pc]
      BY <1>5 DEF RecordClose, UpsertOutcome
    <3> QED BY <2>1, <2>2, <3>1, CloserAdvances
  <2> QED
    BY <1>5, <2>2, <2>3, StableRefs
       DEF RecordClose, Typed, TypeOK, MemoryOK, WorldOK, Refs, exchange
<1>6. CASE PaperPriceRaises(c)
  <2>1. Stable /\ faults' \in Nat
    BY <1>6, UnchangedStable, FaultCount DEF PaperPriceRaises, Typed, TypeOK
  <2> QED
    BY <1>6, <2>1, ReleaseTyped, AbortTyped, StableRefs
       DEF PaperPriceRaises, Typed, TypeOK, MemoryOK, WorldOK, Refs, exchange
<1>7. CASE FinishClose(c)
  <2>1. Stable BY <1>7, UnchangedStable DEF FinishClose
  <2> QED
    BY <1>7, <2>1, ReleaseTyped, DropTyped, StableRefs
       DEF FinishClose, Typed, TypeOK, MemoryOK, WorldOK, Refs, exchange
<1>8. CASE CloseRaises(c)
  <2>1. Stable BY <1>8, UnchangedStable DEF CloseRaises
  <2> QED
    BY <1>8, <2>1, ReleaseTyped, AbortTyped, StableRefs
       DEF CloseRaises, Typed, TypeOK, MemoryOK, WorldOK, Refs, exchange
<1>9. CASE FinishPartial(c)
  <2>1. Stable BY <1>9, UnchangedStable DEF FinishPartial
  <2> QED
    BY <1>9, <2>1, ReleaseTyped, StableRefs
       DEF FinishPartial, Typed, TypeOK, MemoryOK, WorldOK, Refs, exchange
<1> QED
  BY <1>1, <1>2, <1>3, <1>4, <1>5, <1>6, <1>7, <1>8, <1>9 DEF CloserStep

(* A step of the monitor task alone.                                       *)
LEMMA MonitorMoves ==
  ASSUME Typed, Stable,
         NEW pc \in {"idle", "fetched", "reconcile", "scan"},
         NEW left \in SUBSET (monitor.left \cup open),
         monitor' \in MonitorState, monitor'.pc = pc, monitor'.left = left
  PROVE  MonitorRefs'
  BY DEF Typed, Refs, MonitorRefs, BookRefs, Stable, Used

LEMMA MonitorStepTyped == ASSUME Typed, MonitorStep PROVE Typed'
<1>0. monitor \in MonitorState /\ monitor.left \in SUBSET Ids /\ open \in SUBSET Ids
  BY DEF Typed, TypeOK, MemoryOK, MonitorState
<1>1. CASE FetchStates
  <2>1. Stable /\ faults' \in Nat
    BY <1>1, UnchangedStable, FaultCount DEF FetchStates, memory, Typed, TypeOK
  <2>2. /\ monitor' \in MonitorState
        /\ monitor'.pc \in {"reconcile", "fetched"}
        /\ monitor'.left \in {{}, LiveOpen}
    <3> DEFINE answer(known, seen, glitched) ==
          [monitor EXCEPT !.pc = "fetched", !.left = LiveOpen, !.known = known,
                          !.seen = seen, !.glitched = glitched]
    <3>1. LiveOpen \in SUBSET Ids /\ {mk \in Markets : exch[mk] > 0} \in SUBSET Markets
      BY <1>0 DEF LiveOpen
    <3>2. ASSUME NEW known \in BOOLEAN, NEW seen \in SUBSET Markets,
                 NEW glitched \in BOOLEAN, monitor' = answer(known, seen, glitched)
          PROVE  /\ monitor' \in MonitorState
                 /\ monitor'.pc = "fetched" /\ monitor'.left = LiveOpen
      BY <1>0, <3>1, <3>2 DEF MonitorState
    <3>3. CASE monitor' = [monitor EXCEPT !.pc = "reconcile", !.left = {},
                                          !.known = FALSE, !.seen = {}]
      BY <1>0, <3>3 DEF MonitorState
    <3>4. CASE monitor' = answer(TRUE, {mk \in Markets : exch[mk] > 0}, FALSE)
      BY <3>1, <3>2, <3>4
    <3>5. CASE monitor' = answer(TRUE, {}, TRUE)
      BY <3>2, <3>5
    <3>6. CASE monitor' = answer(FALSE, {}, FALSE)
      BY <3>2, <3>6
    <3> QED BY <1>1, <3>3, <3>4, <3>5, <3>6 DEF FetchStates
  <2>3. monitor'.left \in SUBSET open
    BY <2>2 DEF LiveOpen
  <2>4. MonitorRefs'
    BY <2>1, <2>2, <2>3, MonitorMoves
  <2> QED
    BY <1>1, <2>1, <2>2, <2>4, StableRefs
       DEF FetchStates, Typed, TypeOK, MemoryOK, WorldOK, Refs, memory, exchange
<1>2. CASE StartReconcile
  <2>1. Stable BY <1>2, UnchangedStable DEF StartReconcile, memory
  <2>2. /\ monitor' \in MonitorState /\ monitor'.pc = "reconcile"
        /\ monitor'.left = monitor.left \cap open
    BY <1>0, <1>2 DEF StartReconcile, MonitorState
  <2>3. MonitorRefs'
    BY <2>1, <2>2, MonitorMoves
  <2> QED
    BY <1>2, <2>1, <2>2, <2>3, StableRefs
       DEF StartReconcile, Typed, TypeOK, MemoryOK, WorldOK, Refs, memory, exchange
<1>3. ASSUME NEW id \in Ids, ReconcileSkip(id) PROVE Typed'
  <2>1. Stable BY <1>3, UnchangedStable DEF ReconcileSkip, memory
  <2>2. /\ monitor' \in MonitorState /\ monitor'.pc = "reconcile"
        /\ monitor'.left = monitor.left \ {id}
    BY <1>0, <1>3 DEF ReconcileSkip, MonitorAt, MonitorState
  <2>3. MonitorRefs'
    BY <2>1, <2>2, MonitorMoves
  <2> QED
    BY <1>3, <2>1, <2>2, <2>3, StableRefs
       DEF ReconcileSkip, Typed, TypeOK, MemoryOK, WorldOK, Refs, memory, exchange
<1>4. ASSUME NEW id \in Ids, ReconcilePresent(id) \/ ReconcileMiss(id) PROVE Typed'
  <2>1. Stable BY <1>4, UnchangedStable DEF ReconcilePresent, ReconcileMiss
  <2>2. /\ monitor' \in MonitorState /\ monitor'.pc = "reconcile"
        /\ monitor'.left = monitor.left \ {id}
    BY <1>0, <1>4 DEF ReconcilePresent, ReconcileMiss, MonitorAt, MonitorState
  <2>3. MonitorRefs'
    BY <2>1, <2>2, MonitorMoves
  <2>4. misses[id] + 1 < Debounce => misses[id] + 1 \in 0 .. 2
    BY DEF Typed, TypeOK, MemoryOK, Debounce
  <2>5. 0 \in 0 .. 2 OBVIOUS
  <2>6. misses' \in [Ids -> 0 .. 2]
    BY <1>4, <2>4, <2>5 DEF ReconcilePresent, ReconcileMiss, Typed, TypeOK, MemoryOK
  <2> QED
    BY <1>4, <2>1, <2>2, <2>3, <2>6, StableRefs
       DEF ReconcilePresent, ReconcileMiss, Typed, TypeOK, MemoryOK, WorldOK, Refs,
           exchange
<1>5. ASSUME NEW id \in Ids, ReconcileGone(id) PROVE Typed'
  <2>1. Used(id) BY <1>5 DEF ReconcileGone, Typed, Refs, MonitorRefs
  <2>2. /\ Stable
        /\ pos' \in [Ids -> Position]
        /\ row' \in [Ids -> Position] /\ faults' \in Nat /\ RowRefs'
    <3>1. CASE pos[id].status = "closed"
      BY <1>5, <3>1, UnchangedStable, StableRefs
         DEF ReconcileGone, Typed, TypeOK, MemoryOK, WorldOK
    <3>2. CASE pos[id].status # "closed"
      BY <1>5, <2>1, <3>2, MarkRecordedTyped DEF ReconcileGone
    <3> QED BY <3>1, <3>2
  <2>3. closer' \in [Closers -> CloserState] /\ CloserRefs'
    <3>1. PICK pc \in {"marked", "unmarked"} :
            closer' = [closer EXCEPT !["monitor"] = [pc |-> pc, id |-> id, fill |-> 0]]
      BY <1>5 DEF ReconcileGone, UpsertOutcome
    <3> DEFINE r == [pc |-> pc, id |-> id, fill |-> 0]
    <3>2. r \in CloserState /\ r.id = id
      BY DEF CloserState
    <3>3. Used(id)' BY <2>1, <2>2 DEF Stable, Used
    <3>4. closer' = [closer EXCEPT !["monitor"] = r] BY <3>1
    <3> HIDE DEF r
    <3>5. Used(r.id) BY <2>1, <3>2
    <3> QED BY <2>2, <3>2, <3>4, <3>5, CloserMoves, CallersAreClosers
  <2>4. /\ monitor' \in MonitorState /\ monitor'.pc = "reconcile"
        /\ monitor'.left = monitor.left \ {id}
    BY <1>0, <1>5 DEF ReconcileGone, MonitorAt, MonitorState
  <2>5. MonitorRefs'
    BY <2>2, <2>4, MonitorMoves
  <2>6. 2 \in 0 .. 2 OBVIOUS
  <2>7. misses' \in [Ids -> 0 .. 2]
    BY <1>5, <2>6 DEF ReconcileGone, Typed, TypeOK, MemoryOK
  <2> QED
    BY <1>5, <2>2, <2>3, <2>4, <2>5, <2>7, StableRefs
       DEF ReconcileGone, Typed, TypeOK, MemoryOK, WorldOK, Refs, exchange
<1>6. ASSUME NEW id \in Ids, ScanSkip(id) PROVE Typed'
  <2>1. Stable BY <1>6, UnchangedStable DEF ScanSkip, memory
  <2>2. /\ monitor' \in MonitorState /\ monitor'.pc = "scan"
        /\ monitor'.left = monitor.left \ {id}
    BY <1>0, <1>6 DEF ScanSkip, MonitorAt, MonitorState
  <2>3. MonitorRefs'
    BY <2>1, <2>2, MonitorMoves
  <2> QED
    BY <1>6, <2>1, <2>2, <2>3, StableRefs
       DEF ScanSkip, Typed, TypeOK, MemoryOK, WorldOK, Refs, memory, exchange
<1>7. ASSUME NEW id \in Ids, ScanAsk(id) PROVE Typed'
  <2>1. Stable BY <1>7, UnchangedStable DEF ScanAsk, memory
  <2>2. /\ monitor' \in MonitorState /\ monitor'.id = id
        /\ monitor'.left = monitor.left \ {id}
    BY <1>0, <1>7 DEF ScanAsk, MonitorState
  <2>3. MonitorRefs'
    BY <1>7, <2>1, <2>2 DEF ScanAsk, Typed, Refs, MonitorRefs, Stable, Used
  <2> QED
    BY <1>7, <2>1, <2>2, <2>3, StableRefs
       DEF ScanAsk, Typed, TypeOK, MemoryOK, WorldOK, Refs, memory, exchange
<1>8. CASE FinishMark
  <2>1. Stable BY <1>8, UnchangedStable DEF FinishMark
  <2>2. /\ open' \in SUBSET Ids /\ misses' \in [Ids -> 0 .. 2] /\ BookRefs'
    BY <1>8, <2>1, DropTyped, StableRefs DEF FinishMark, Typed, TypeOK, MemoryOK
  <2>3. closer' \in [Closers -> CloserState] /\ CloserRefs'
    BY <1>8, <2>1, CloserMoves, CallersAreClosers, IdleIsACloserState DEF FinishMark
  <2> QED
    BY <1>8, <2>1, <2>2, <2>3, StableRefs
       DEF FinishMark, Typed, TypeOK, MemoryOK, WorldOK, Refs, exchange
<1>9. CASE StartScan
  <2>1. Stable BY <1>9, UnchangedStable DEF StartScan, memory
  <2>2. /\ monitor' \in MonitorState /\ monitor'.pc = "scan" /\ monitor'.left = open
    BY <1>0, <1>9 DEF StartScan, MonitorState
  <2>3. MonitorRefs'
    BY <2>1, <2>2, MonitorMoves
  <2> QED
    BY <1>9, <2>1, <2>2, <2>3, StableRefs
       DEF StartScan, Typed, TypeOK, MemoryOK, WorldOK, Refs, memory, exchange
<1>10. CASE ScanExit
  <2>1. Stable /\ Used(monitor.id)
    BY <1>10, UnchangedStable DEF ScanExit, MonitorAt, Typed, Refs, MonitorRefs
  <2>2. /\ monitor' \in MonitorState /\ monitor'.pc = "scan"
        /\ monitor'.left = monitor.left
    BY <1>0, <1>10 DEF ScanExit, MonitorState
  <2>3. MonitorRefs'
    BY <2>1, <2>2, MonitorMoves
  <2>4. /\ closing' \in SUBSET Ids
        /\ closer' \in [Closers -> CloserState] /\ CloserRefs'
    BY <1>10, <2>1, BeginCloseTyped, CallersAreClosers DEF ScanExit
  <2> QED
    BY <1>10, <2>1, <2>2, <2>3, <2>4, StableRefs
       DEF ScanExit, Typed, TypeOK, MemoryOK, WorldOK, Refs, exchange
<1>11. CASE ScanKeep
  <2>1. Stable /\ Used(monitor.id)
    BY <1>11, UnchangedStable DEF ScanKeep, memory, MonitorAt, Typed, Refs, MonitorRefs
  <2>2. /\ monitor' \in MonitorState /\ monitor'.pc = "scan"
        /\ monitor'.left = monitor.left
    BY <1>0, <1>11 DEF ScanKeep, MonitorState
  <2>3. MonitorRefs'
    BY <2>1, <2>2, MonitorMoves
  <2>4. row' \in [Ids -> Position] /\ faults' \in Nat /\ RowRefs'
    <3>1. pos[monitor.id] \in Position
      BY <2>1 DEF Typed, TypeOK, MemoryOK, Used
    <3>2. CASE UpsertOk(monitor.id, pos[monitor.id]) \/ UpsertRaises
      BY <2>1, <3>1, <3>2, UpsertTyped DEF Used
    <3>3. CASE UNCHANGED row /\ NoFault
      BY <2>1, <3>3, FaultCount, StableRefs DEF Typed, TypeOK, WorldOK
    <3> QED BY <1>11, <3>2, <3>3 DEF ScanKeep
  <2> QED
    BY <1>11, <2>1, <2>2, <2>3, <2>4, StableRefs
       DEF ScanKeep, Typed, TypeOK, MemoryOK, WorldOK, Refs, memory, exchange
<1>12. CASE ScanRaises
  <2>1. Stable /\ faults' \in Nat
    BY <1>12, UnchangedStable, FaultCount DEF ScanRaises, memory, Typed, TypeOK
  <2> QED
    BY <1>12, <2>1, AbortTyped, StableRefs
       DEF ScanRaises, Typed, TypeOK, MemoryOK, WorldOK, Refs, memory, exchange
<1>13. CASE EndScan
  <2>1. Stable BY <1>13, UnchangedStable DEF EndScan, memory
  <2>2. monitor' \in MonitorState /\ monitor'.pc = "idle" /\ monitor'.left = {}
    BY <1>0, <1>13 DEF EndScan, MonitorIdle, MonitorState
  <2>3. MonitorRefs'
    BY <2>1, <2>2, MonitorMoves
  <2> QED
    BY <1>13, <2>1, <2>2, <2>3, StableRefs
       DEF EndScan, Typed, TypeOK, MemoryOK, WorldOK, Refs, memory, exchange
<1> QED
  BY <1>1, <1>2, <1>3, <1>4, <1>5, <1>6, <1>7, <1>8, <1>9, <1>10, <1>11, <1>12, <1>13
     DEF MonitorStep

LEMMA WorldTyped == ASSUME Typed, World PROVE Typed'
<1>1. ASSUME NEW id \in Ids, Expire(id) PROVE Typed'
  BY <1>1, StableRefs, UnchangedStable
     DEF Expire, Typed, TypeOK, MemoryOK, WorldOK, Refs, memory, exchange, tasks
<1>2. ASSUME NEW m \in Markets, ExchangeFlattens(m) PROVE Typed'
  BY <1>2, StableRefs, UnchangedStable
     DEF ExchangeFlattens, Typed, TypeOK, MemoryOK, WorldOK, Refs, memory, tasks
<1>3. CASE Crash
  <2>1. Stable /\ faults' \in Nat
    BY <1>3, UnchangedStable, FaultCount DEF Crash, Typed, TypeOK
  <2>2. 0 \in 0 .. 2 OBVIOUS
  <2>3. MemoryOK' /\ WorldOK'
    BY <1>3, <2>1, <2>2 DEF Crash, Typed, TypeOK, MemoryOK, WorldOK, exchange
  <2>4. /\ TraderIdle \in TraderState /\ CloserIdle \in CloserState
        /\ MonitorIdle \in MonitorState
    BY DEF TraderIdle, TraderState, CloserIdle, CloserState, MonitorIdle, MonitorState
  <2>5. TypeOK'
    BY <1>3, <2>3, <2>4 DEF Crash, TypeOK
  <2>6. TraderRefs' /\ CloserRefs' /\ MonitorRefs' /\ BookRefs'
    BY <1>3 DEF Crash, TraderRefs, CloserRefs, MonitorRefs, BookRefs, TraderIdle,
                CloserIdle, MonitorIdle, Entering
  <2> QED BY <1>3, <2>1, <2>5, <2>6, StableRefs DEF Crash, Typed, Refs
<1> QED BY <1>1, <1>2, <1>3 DEF World

LEMMA RestartTyped == ASSUME Typed, Restart PROVE Typed'
<1>1. OpenRows \in SUBSET Ids /\ \A id \in OpenRows : Used(id) /\ row[id].mkt = pos[id].mkt
  BY DEF OpenRows, Typed, Refs, RowRefs
<1>2. \A id \in Ids : pos'[id] = IF id \in OpenRows THEN row[id] ELSE pos[id]
  BY DEF Restart
<1>3. TypeOK'
  BY <1>1 DEF Restart, Typed, TypeOK, MemoryOK, WorldOK, memory, exchange, tasks
<1>4. Stable
  BY <1>1, <1>2 DEF OpenRows, Stable, Used
<1>5. BookRefs'
  BY <1>1, <1>4 DEF Restart, BookRefs, Stable
<1> QED BY <1>3, <1>4, <1>5, StableRefs DEF Restart, Typed, Refs, tasks

LEMMA NextTyped == ASSUME Typed, [Next]_vars PROVE Typed'
<1>1. CASE Request BY <1>1, RequestTyped
<1>2. CASE TraderStep BY <1>2, TraderStepTyped
<1>3. ASSUME NEW c \in Closers, CloserStep(c) PROVE Typed' BY <1>3, CloserStepTyped
<1>4. CASE MonitorStep BY <1>4, MonitorStepTyped
<1>5. CASE World BY <1>5, WorldTyped
<1>6. CASE Restart BY <1>6, RestartTyped
<1>7. CASE UNCHANGED vars
  BY <1>7, StableRefs, UnchangedStable
     DEF vars, memory, exchange, tasks, Typed, TypeOK, MemoryOK, WorldOK, Refs
<1> QED BY <1>1, <1>2, <1>3, <1>4, <1>5, <1>6, <1>7 DEF Next

(* Every reachable state is well typed and every task of the bot refers    *)
(* only to positions that exist on a real market.                          *)
THEOREM TypeCorrect == Spec => [](TypeOK /\ Refs)
<1>1. Init => Typed BY InitTyped
<1>2. Typed /\ [Next]_vars => Typed' BY NextTyped
<1> QED BY <1>1, <1>2, PTL DEF Spec, Typed
-----------------------------------------------------------------------------
(***************************************************************************)
(* Safety when every write succeeds.  A failed write is excluded because   *)
(* the code is then unsafe (executor.py:287): its zombie row comes back    *)
(* beside a newer position on the same market.                             *)
(*                                                                         *)
(* What the gate reads long before a position is tracked stays true only   *)
(* because nothing but the trade section adds to the book, and what a      *)
(* restart brings back is bounded only because the table never gets ahead  *)
(* of the book.  The inductive invariant therefore speaks of the union of  *)
(* the two (BookApart, Room), of the entry under way (EntryFree, EntryNew),*)
(* and of what other tasks may do to the table meanwhile (TasksOpen).      *)
(***************************************************************************)

Persisted(id) == trader.pc = "persisted" /\ id = trader.id

Agree(id) == /\ row[id].status = pos[id].status
             /\ row[id].size = pos[id].size
             /\ row[id].realized = pos[id].realized

(* The row of a tracked, closed or just persisted position is up to date.  *)
RowsAgree == \A id \in Ids :
  id \in open \/ pos[id].status = "closed" \/ Persisted(id) => Agree(id)

(* An open row belongs to a tracked or just persisted position.            *)
RowsTracked == up => \A id \in OpenRows : id \in open \/ Persisted(id)

(* No two positions of the book or the table are on one market.            *)
BookApart == \A a, b \in open \cup OpenRows : pos[a].mkt = pos[b].mkt => a = b

(* The book and the table together are within the cap.                     *)
Room == Cardinality(open \cup OpenRows) <= MaxOpen

(* Past the caps, the trade section's market and a slot stay free...       *)
EntryFree == trader.pc \in {"quote"} \cup Entering =>
               ~HasOpen(trader.mkt) /\ BelowCap

(* ... and its new position is known to nobody else.                       *)
EntryNew == trader.pc \in Entering =>
  /\ trader.id \notin open
  /\ pos[trader.id].mkt = trader.mkt
  /\ pos[trader.id].status = "open"
  /\ trader.pc # "persisted" => row[trader.id].status = "unused"

(* A task works on a position that is tracked, or that is closed already.  *)
OpenOrClosed(id) == id \in open \/ pos[id].status = "closed"
TasksOpen == /\ \A c \in Closers : closer[c].pc # "idle" => OpenOrClosed(closer[c].id)
             /\ \A id \in monitor.left : OpenOrClosed(id)
             /\ monitor.pc = "price" => OpenOrClosed(monitor.id)

(* Only a closed position is about to be dropped.                          *)
DropsClosed == \A c \in Closers :
  closer[c].pc \in {"saved", "marked"} => pos[closer[c].id].status = "closed"

DownIdle == ~up => open = {} /\ trader.pc = "idle"

BookInv  == RowsAgree /\ RowsTracked /\ BookApart /\ Room /\ DownIdle
EntryInv == EntryFree /\ EntryNew
TaskInv  == TasksOpen /\ DropsClosed
IInv     == BookInv /\ EntryInv /\ TaskInv

(* The assumption.                                                         *)
WritesSucceed == "db" \notin Faults

LEMMA UpsertSucceeds ==
  ASSUME WritesSucceed PROVE ~UpsertRaises
  BY DEF WritesSucceed, UpsertRaises, Fault

LEMMA OpenRowsAreIds ==
  ASSUME Typed PROVE open \cup OpenRows \in SUBSET Ids /\ open \in SUBSET Ids
  BY DEF Typed, TypeOK, MemoryOK, OpenRows

LEMMA FewerFit ==
  ASSUME Typed, NEW S \in SUBSET (open \cup OpenRows)
  PROVE  /\ Cardinality(S) \in Nat
         /\ Cardinality(S) <= Cardinality(open \cup OpenRows)
         /\ Cardinality(open \cup OpenRows) \in Nat
<1>1. IsFiniteSet(open \cup OpenRows)
  BY OpenRowsAreIds, ConstantsAssumption, FS_Subset
<1> QED BY <1>1, FS_Subset, FS_CardinalityType
-----------------------------------------------------------------------------
(* Steps that touch neither the book, the table nor the trade section.     *)
LEMMA QuietStep ==
  ASSUME IInv, UNCHANGED <<up, pos, open, row, trader>>
  PROVE  BookInv' /\ EntryInv'
<1>1. OpenRows' = OpenRows
  BY DEF OpenRows
<1>2. BookInv'
  BY <1>1 DEF IInv, BookInv, RowsAgree, RowsTracked, BookApart, Room, DownIdle, Agree,
              Persisted
<1>3. EntryInv'
  BY DEF IInv, EntryInv, EntryFree, EntryNew, HasOpen, BelowCap
<1> QED BY <1>2, <1>3

(* Nothing a task works on is left neither tracked nor closed.             *)
TasksKept == \A id \in Ids : Used(id) =>
  /\ OpenOrClosed(id) => OpenOrClosed(id)'
  /\ pos[id].status = "closed" => pos'[id].status = "closed"

LEMMA QuietTasksKept ==
  ASSUME UNCHANGED <<pos, open>> PROVE TasksKept
  BY DEF TasksKept, OpenOrClosed

LEMMA IdleTasks ==
  ASSUME IInv, Typed, TasksKept, closer' = closer,
         monitor'.left \subseteq monitor.left \cup open,
         monitor'.pc = "price" => monitor'.id \in monitor.left \cup open
                                \/ (monitor.pc = "price" /\ monitor'.id = monitor.id)
  PROVE  TaskInv'
<1>1. ASSUME NEW id, Used(id), OpenOrClosed(id) PROVE OpenOrClosed(id)'
  BY <1>1 DEF TasksKept, Used
<1>2. \A id \in monitor.left \cup open : Used(id) /\ OpenOrClosed(id)
  BY DEF IInv, TaskInv, TasksOpen, OpenOrClosed, Typed, Refs, MonitorRefs, BookRefs
<1>3. monitor.pc = "price" => Used(monitor.id) /\ OpenOrClosed(monitor.id)
  BY DEF IInv, TaskInv, TasksOpen, Typed, Refs, MonitorRefs
<1>4. \A c \in Closers : closer[c].pc # "idle" =>
        Used(closer[c].id) /\ OpenOrClosed(closer[c].id)
  BY DEF IInv, TaskInv, TasksOpen, Typed, Refs, CloserRefs
<1>5. TasksOpen'
  BY <1>1, <1>2, <1>3, <1>4 DEF TasksOpen
<1>6. DropsClosed'
  BY <1>4 DEF IInv, TaskInv, DropsClosed, TasksKept, Used
<1> QED BY <1>5, <1>6 DEF TaskInv

(* One closer moves; the monitor keeps what it has or forgets it.          *)
LEMMA CloserTasks ==
  ASSUME IInv, Typed, TasksKept, NEW c \in Closers, NEW r \in CloserState,
         closer' = [closer EXCEPT ![c] = r],
         r.pc # "idle" => Used(r.id) /\ OpenOrClosed(r.id)',
         r.pc \in {"saved", "marked"} => pos'[r.id].status = "closed",
         monitor'.left \subseteq monitor.left, monitor'.pc = "price" =>
           monitor.pc = "price" /\ monitor'.id = monitor.id
  PROVE  TaskInv'
<1>1. ASSUME NEW id, Used(id), OpenOrClosed(id) PROVE OpenOrClosed(id)'
  BY <1>1 DEF TasksKept, Used
<1>2. \A id \in monitor.left : Used(id) /\ OpenOrClosed(id)
  BY DEF IInv, TaskInv, TasksOpen, Typed, Refs, MonitorRefs
<1>3. monitor.pc = "price" => Used(monitor.id) /\ OpenOrClosed(monitor.id)
  BY DEF IInv, TaskInv, TasksOpen, Typed, Refs, MonitorRefs
<1>4. \A d \in Closers : closer[d].pc # "idle" =>
        Used(closer[d].id) /\ OpenOrClosed(closer[d].id)
  BY DEF IInv, TaskInv, TasksOpen, Typed, Refs, CloserRefs
<1>5. \A d \in Closers : closer'[d] = IF d = c THEN r ELSE closer[d]
  BY DEF Typed, TypeOK
<1>6. TasksOpen'
  BY <1>1, <1>2, <1>3, <1>4, <1>5 DEF TasksOpen
<1>7. DropsClosed'
  BY <1>4, <1>5 DEF IInv, TaskInv, DropsClosed, TasksKept, Used
<1> QED BY <1>6, <1>7 DEF TaskInv

LEMMA ReleaseTasks ==
  ASSUME IInv, Typed, TasksKept, NEW c \in Closers, Release(c),
         monitor' = monitor \/ AbortPass(c)
  PROVE  TaskInv'
<1>1. closer' = [closer EXCEPT ![c] = CloserIdle]
  BY DEF Release
<1>2. /\ monitor'.left \subseteq monitor.left
      /\ monitor'.pc = "price" => monitor.pc = "price" /\ monitor'.id = monitor.id
  BY DEF AbortPass, MonitorIdle
<1>3. CloserIdle.pc \notin {"saved", "marked"}
  BY IdleIsACloserState
<1> QED BY <1>1, <1>2, <1>3, CloserTasks, IdleIsACloserState
-----------------------------------------------------------------------------
(* A position some task works on is written, object and row at once.       *)
LEMMA WriteStep ==
  ASSUME IInv, Typed, NEW id, Used(id), OpenOrClosed(id), NEW r \in Position,
         r.mkt = pos[id].mkt, r.status \in {pos[id].status, "closed"},
         pos' = [pos EXCEPT ![id] = r], row' = [row EXCEPT ![id] = r],
         UNCHANGED <<up, open, trader>>
  PROVE  BookInv' /\ EntryInv' /\ TasksKept
<1>1. /\ pos \in [Ids -> Position] /\ row \in [Ids -> Position] /\ id \in Ids
      /\ pos'[id] = r /\ row'[id] = r
      /\ \A x \in Ids : x # id => pos'[x] = pos[x] /\ row'[x] = row[x]
  BY DEF Typed, TypeOK, MemoryOK, WorldOK, Used
<1>2. trader.pc \in Entering => trader.id \in Ids /\ id # trader.id
  BY DEF IInv, EntryInv, EntryNew, OpenOrClosed, Typed, Refs, TraderRefs, Used
<1>3. row[id].status = pos[id].status
  BY <1>1 DEF IInv, BookInv, RowsAgree, Agree, OpenOrClosed
<1>4. OpenRows' \subseteq OpenRows
  BY <1>1, <1>3 DEF OpenRows, Used
<1>5. RowsAgree'
  BY <1>1 DEF IInv, BookInv, RowsAgree, Agree, Persisted
<1>6. RowsTracked' /\ DownIdle'
  BY <1>4 DEF IInv, BookInv, RowsTracked, Persisted, DownIdle
<1>7. BookApart'
  <2>1. \A x \in open \cup OpenRows : x \in Ids /\ pos'[x].mkt = pos[x].mkt
    BY <1>1, OpenRowsAreIds
  <2> QED BY <1>4, <2>1 DEF IInv, BookInv, BookApart
<1>8. Room'
  <2>1. (open \cup OpenRows)' \in SUBSET (open \cup OpenRows)
    BY <1>4
  <2> QED BY <2>1, FewerFit, ConstantsAssumption DEF IInv, BookInv, Room
<1>9. EntryInv'
  <2>1. \A x \in open : x \in Ids /\ pos'[x].mkt = pos[x].mkt
    BY <1>1, OpenRowsAreIds
  <2>2. EntryFree'
    BY <2>1 DEF IInv, EntryInv, EntryFree, HasOpen, BelowCap
  <2>3. EntryNew'
    BY <1>1, <1>2 DEF IInv, EntryInv, EntryNew
  <2> QED BY <2>2, <2>3 DEF EntryInv
<1>10. TasksKept
  BY <1>1 DEF TasksKept, OpenOrClosed
<1> QED BY <1>5, <1>6, <1>7, <1>8, <1>9, <1>10 DEF BookInv

(* A closed position is dropped.                                           *)
LEMMA DropStep ==
  ASSUME IInv, Typed, NEW id, Used(id), pos[id].status = "closed", Drop(id),
         UNCHANGED <<up, pos, row, trader>>
  PROVE  BookInv' /\ EntryInv' /\ TasksKept
<1>1. open' = open \ {id} /\ OpenRows' = OpenRows /\ id \in Ids
  BY DEF Drop, OpenRows, Used
<1>2. id \notin OpenRows
  BY DEF IInv, BookInv, RowsAgree, Agree, OpenRows
<1>3. RowsAgree' /\ RowsTracked' /\ BookApart' /\ DownIdle'
  BY <1>1, <1>2 DEF IInv, BookInv, RowsAgree, Agree, RowsTracked, BookApart, DownIdle,
                    Persisted
<1>4. Room'
  <2>1. (open \cup OpenRows)' \in SUBSET (open \cup OpenRows)
    BY <1>1
  <2> QED BY <2>1, FewerFit, ConstantsAssumption DEF IInv, BookInv, Room
<1>5. EntryInv'
  <2>1. BelowCap => BelowCap'
    <3>1. IsFiniteSet(open) BY OpenRowsAreIds, ConstantsAssumption, FS_Subset
    <3>2. Cardinality(open') <= Cardinality(open) /\ Cardinality(open') \in Nat
          /\ Cardinality(open) \in Nat
      BY <1>1, <3>1, FS_Subset, FS_CardinalityType
    <3> QED BY <3>2, ConstantsAssumption DEF BelowCap
  <2>2. EntryFree'
    BY <1>1, <2>1 DEF IInv, EntryInv, EntryFree, HasOpen
  <2>3. EntryNew'
    BY <1>1 DEF IInv, EntryInv, EntryNew
  <2> QED BY <2>2, <2>3 DEF EntryInv
<1>6. TasksKept
  BY <1>1 DEF TasksKept, OpenOrClosed
<1> QED BY <1>3, <1>4, <1>5, <1>6 DEF BookInv
-----------------------------------------------------------------------------
(* The trade section gives up, or takes the lock: it promises nothing.     *)
LEMMA TraderWithdraws ==
  ASSUME IInv, up, trader.pc # "persisted", trader'.pc \in {"idle", "gate"},
         UNCHANGED <<up, pos, open, row>>
  PROVE  BookInv' /\ EntryInv'
<1>1. OpenRows' = OpenRows
  BY DEF OpenRows
<1>2. BookInv'
  BY <1>1 DEF IInv, BookInv, RowsAgree, RowsTracked, BookApart, Room, DownIdle, Agree,
              Persisted
<1>3. EntryInv'
  BY DEF EntryInv, EntryFree, EntryNew, Entering
<1> QED BY <1>2, <1>3

(* The entry proceeds: only its own position, not yet persisted, changes.  *)
LEMMA TraderProceeds ==
  ASSUME IInv, Typed, up, trader.pc \in Entering \ {"persisted"},
         trader'.pc \in Entering \ {"persisted"},
         UNCHANGED <<trader.id, trader.mkt>>,
         NEW r \in Position, r.mkt = pos[trader.id].mkt,
         r.status = pos[trader.id].status, pos' = [pos EXCEPT ![trader.id] = r],
         UNCHANGED <<up, open, row>>
  PROVE  BookInv' /\ EntryInv' /\ TasksKept
<1>1. /\ pos \in [Ids -> Position] /\ trader.id \in Ids
      /\ trader.id \notin open /\ pos[trader.id].status = "open"
      /\ row[trader.id].status = "unused" /\ pos[trader.id].mkt = trader.mkt
  BY DEF IInv, EntryInv, EntryNew, Typed, TypeOK, MemoryOK, Refs, TraderRefs, Used
<1>2. /\ OpenRows' = OpenRows /\ trader.id \notin OpenRows
      /\ \A x \in open \cup OpenRows : x \in Ids /\ pos'[x] = pos[x]
  BY <1>1, OpenRowsAreIds DEF OpenRows
<1>3. pos'[trader.id] = r /\ \A x \in Ids : x # trader.id => pos'[x] = pos[x]
  BY <1>1
<1>4. RowsAgree'
  BY <1>1, <1>3 DEF IInv, BookInv, RowsAgree, Agree, Persisted
<1>5. RowsTracked' /\ BookApart' /\ Room' /\ DownIdle'
  BY <1>2 DEF IInv, BookInv, RowsTracked, BookApart, Room, DownIdle, Persisted
<1>6. EntryInv'
  BY <1>1, <1>2, <1>3 DEF IInv, EntryInv, EntryFree, EntryNew, HasOpen, BelowCap
<1>7. TasksKept
  BY <1>1, <1>3 DEF TasksKept, OpenOrClosed
<1> QED BY <1>4, <1>5, <1>6, <1>7 DEF BookInv

(* After PassCaps and before Track one slot is free: the table may take it.*)
LEMMA RoomForEntry ==
  ASSUME IInv, Typed, up, trader.pc \in Entering \ {"persisted"}
  PROVE  /\ OpenRows \subseteq open
         /\ Cardinality(open \cup {trader.id}) <= MaxOpen
<1>1. OpenRows \subseteq open
  BY DEF IInv, BookInv, RowsTracked, Persisted
<1>2. IsFiniteSet(open) /\ trader.id \notin open
  BY OpenRowsAreIds, ConstantsAssumption, FS_Subset DEF IInv, EntryInv, EntryNew
<1>3. /\ Cardinality(open \cup {trader.id}) = Cardinality(open) + 1
      /\ Cardinality(open) \in Nat
  BY <1>2, FS_AddElement, FS_CardinalityType
<1>4. Cardinality(open) < MaxOpen
  BY DEF IInv, EntryInv, EntryFree, BelowCap
<1> QED BY <1>1, <1>3, <1>4, ConstantsAssumption

LEMMA TraderStepSafe ==
  ASSUME IInv, Typed, WritesSucceed, TraderStep PROVE IInv'
<1>1. CASE PassCaps
  <2>1. EntryInv'
    BY <1>1 DEF PassCaps, memory, EntryInv, EntryFree, EntryNew, HasOpen, BelowCap,
                Entering, Typed, TypeOK, TraderState
  <2>2. OpenRows' = OpenRows
    BY <1>1 DEF PassCaps, OpenRows
  <2>3. BookInv'
    BY <1>1, <2>2 DEF PassCaps, memory, IInv, BookInv, RowsAgree, RowsTracked,
                      BookApart, Room, DownIdle, Agree, Persisted
  <2>4. TaskInv'
    BY <1>1, IdleTasks, QuietTasksKept DEF PassCaps, memory
  <2> QED BY <2>1, <2>3, <2>4 DEF IInv
<1>2. CASE RejectTrade
  <2>1. BookInv' /\ EntryInv'
    BY <1>2, TraderWithdraws DEF RejectTrade, memory, TraderIdle
  <2>2. TaskInv'
    BY <1>2, IdleTasks, QuietTasksKept DEF RejectTrade, memory
  <2> QED BY <2>1, <2>2 DEF IInv
<1>3. ASSUME NEW id \in Ids, NEW lots \in 1 .. MaxLots, NEW mode \in Modes,
             SendOrder(id, lots, mode)
      PROVE  IInv'
  <2>1. /\ pos \in [Ids -> Position] /\ pos[id].status = "unused"
        /\ pos'[id].status = "open" /\ pos'[id].mkt = trader.mkt
        /\ \A x \in Ids : x # id => pos'[x] = pos[x]
    BY <1>3 DEF SendOrder, Typed, TypeOK, MemoryOK, Unused
  <2>2. /\ trader'.pc \in Entering \ {"persisted"}
        /\ trader'.id = id /\ trader'.mkt = trader.mkt
    BY <1>3 DEF SendOrder, Typed, TypeOK, TraderState, Entering
  <2>3. row[id].status = "unused" /\ id \notin open
    BY <2>1 DEF Typed, Refs, RowRefs, BookRefs, Used, TypeOK, WorldOK
  <2>4. /\ UNCHANGED <<up, open, row, closer, monitor>> /\ OpenRows' = OpenRows
        /\ trader.pc = "quote" /\ up
    BY <1>3 DEF SendOrder, OpenRows
  <2>5. \A x \in open \cup OpenRows : x \in Ids /\ x # id /\ pos'[x] = pos[x]
    BY <2>1, <2>3, OpenRowsAreIds DEF OpenRows
  <2>6. BookInv'
    BY <2>1, <2>2, <2>3, <2>4, <2>5
       DEF IInv, BookInv, RowsAgree, RowsTracked, BookApart, Room, DownIdle, Agree,
           Persisted
  <2>7. EntryInv'
    BY <2>1, <2>2, <2>3, <2>4, <2>5
       DEF IInv, EntryInv, EntryFree, EntryNew, HasOpen, BelowCap
  <2>8. TasksKept
    BY <2>1, <2>4 DEF TasksKept, OpenOrClosed, Used
  <2> QED BY <2>4, <2>6, <2>7, <2>8, IdleTasks DEF IInv
<1>4. CASE ExecuteOpen
  <2>1. /\ trader'.pc \in Entering \ {"persisted"}
        /\ UNCHANGED <<trader.id, trader.mkt>>
    BY <1>4 DEF ExecuteOpen, Typed, TypeOK, TraderState, Entering
  <2>2. /\ up /\ trader.pc \in Entering \ {"persisted"}
        /\ UNCHANGED <<up, pos, open, row, closer, monitor>>
    BY <1>4 DEF ExecuteOpen, memory, Entering
  <2>3. pos' = [pos EXCEPT ![trader.id] = pos[trader.id]] /\ pos[trader.id] \in Position
    BY <2>2 DEF Typed, TypeOK, MemoryOK, Refs, TraderRefs, Used
  <2> QED BY <2>1, <2>2, <2>3, TraderProceeds, IdleTasks DEF IInv
<1>5. CASE OpenReply
  <2>1. /\ up /\ trader.pc \in Entering \ {"persisted"} /\ trader.pc = "replied"
        /\ UNCHANGED <<up, open, row, closer, monitor>>
    BY <1>5 DEF OpenReply, Entering
  <2>2. CASE trader.lots = 0
    <3>1. trader' = TraderIdle /\ pos' = pos
      BY <1>5, <2>2 DEF OpenReply
    <3> QED
      BY <2>1, <3>1, TraderWithdraws, IdleTasks, QuietTasksKept DEF TraderIdle, IInv
  <2>3. CASE trader.lots # 0
    <3> DEFINE r == [pos[trader.id] EXCEPT !.size = trader.lots]
    <3>1. pos \in [Ids -> Position] /\ trader.id \in Ids /\ trader.lots \in Nat
      BY <2>1 DEF Typed, TypeOK, MemoryOK, TraderState, Refs, TraderRefs, Used
    <3>2. /\ r \in Position /\ r.mkt = pos[trader.id].mkt
          /\ r.status = pos[trader.id].status
      BY <3>1 DEF Position
    <3>3. pos' = [pos EXCEPT ![trader.id] = r]
      BY <1>5, <2>3, <3>1 DEF OpenReply
    <3>4. /\ trader'.pc \in Entering \ {"persisted"}
          /\ UNCHANGED <<trader.id, trader.mkt>>
      BY <1>5, <2>3 DEF OpenReply, Typed, TypeOK, TraderState, Entering
    <3> HIDE DEF r
    <3> QED BY <2>1, <3>2, <3>3, <3>4, TraderProceeds, IdleTasks DEF IInv
  <2> QED BY <2>2, <2>3
<1>6. CASE VerifyOrder
  <2>1. /\ up /\ trader.pc \in Entering \ {"persisted"} /\ trader.pc = "verify"
        /\ UNCHANGED <<up, open, row, closer, monitor>>
    BY <1>6 DEF VerifyOrder, Entering
  <2>2. CASE trader' = TraderIdle /\ UNCHANGED pos
    BY <2>1, <2>2, TraderWithdraws, IdleTasks, QuietTasksKept DEF TraderIdle, IInv
  <2>3. ASSUME trader' = [trader EXCEPT !.pc = "placing", !.lots = exch[trader.mkt]],
               pos' = [pos EXCEPT ![trader.id].size = exch[trader.mkt]]
        PROVE  IInv'
    <3> DEFINE r == [pos[trader.id] EXCEPT !.size = exch[trader.mkt]]
    <3>1. pos \in [Ids -> Position] /\ trader.id \in Ids /\ exch[trader.mkt] \in Nat
      BY <2>1 DEF Typed, TypeOK, MemoryOK, WorldOK, Refs, TraderRefs, Used
    <3>2. /\ r \in Position /\ r.mkt = pos[trader.id].mkt
          /\ r.status = pos[trader.id].status
      BY <3>1 DEF Position
    <3>3. pos' = [pos EXCEPT ![trader.id] = r]
      BY <2>3, <3>1
    <3>4. /\ trader'.pc \in Entering \ {"persisted"}
          /\ UNCHANGED <<trader.id, trader.mkt>>
      BY <2>3 DEF Typed, TypeOK, TraderState, Entering
    <3> HIDE DEF r
    <3> QED BY <2>1, <3>2, <3>3, <3>4, TraderProceeds, IdleTasks DEF IInv
  <2> QED BY <1>6, <2>2, <2>3 DEF VerifyOrder
<1>7. CASE PlaceStop
  <2>1. /\ up /\ trader.pc \in Entering \ {"persisted"} /\ trader.pc = "placing"
        /\ UNCHANGED <<up, open, row, closer, monitor>>
    BY <1>7 DEF PlaceStop, Entering
  <2>2. pos \in [Ids -> Position] /\ trader.id \in Ids
    BY <2>1 DEF Typed, TypeOK, MemoryOK, Refs, TraderRefs, Used
  <2>3. /\ trader'.pc \in Entering \ {"persisted"}
        /\ UNCHANGED <<trader.id, trader.mkt>>
    BY <1>7 DEF PlaceStop, Typed, TypeOK, TraderState, Entering
  <2>4. PICK r \in Position : /\ r.mkt = pos[trader.id].mkt
                              /\ r.status = pos[trader.id].status
                              /\ pos' = [pos EXCEPT ![trader.id] = r]
    <3>1. CASE pos' = pos
      BY <2>2, <3>1
    <3>2. CASE pos' = [pos EXCEPT ![trader.id].stop = TRUE]
      <4> DEFINE p == [pos[trader.id] EXCEPT !.stop = TRUE]
      <4>1. /\ p \in Position /\ p.mkt = pos[trader.id].mkt
            /\ p.status = pos[trader.id].status
        BY <2>2 DEF Position
      <4>2. pos' = [pos EXCEPT ![trader.id] = p]
        BY <2>2, <3>2
      <4> HIDE DEF p
      <4> QED BY <4>1, <4>2
    <3> QED BY <1>7, <3>1, <3>2 DEF PlaceStop
  <2> QED BY <2>1, <2>3, <2>4, TraderProceeds, IdleTasks DEF IInv
<1>8. CASE PersistOpen
  <2> DEFINE id == trader.id
  <2>1. /\ up /\ trader.pc \in Entering \ {"persisted"} /\ trader.pc = "placed"
        /\ UNCHANGED <<up, pos, open, closer, monitor>>
        /\ row' = [row EXCEPT ![id] = pos[id]]
    BY <1>8, UpsertSucceeds DEF PersistOpen, memory, Entering, UpsertOk
  <2>2. trader'.pc = "persisted" /\ trader'.id = id /\ trader'.mkt = trader.mkt
    BY <1>8 DEF PersistOpen, Typed, TypeOK, TraderState
  <2>3. id \in Ids /\ id \notin open /\ pos[id].mkt = trader.mkt /\ pos[id].status = "open"
    BY <2>1 DEF IInv, EntryInv, EntryNew, Typed, Refs, TraderRefs, Used
  <2>4. row'[id] = pos[id] /\ \A x \in Ids : x # id => row'[x] = row[x]
    BY <2>1, <2>3 DEF Typed, TypeOK, WorldOK
  <2>5. OpenRows' = OpenRows \cup {id}
    BY <2>3, <2>4 DEF OpenRows
  <2>6. OpenRows \subseteq open /\ Cardinality(open \cup {id}) <= MaxOpen
    BY <2>1, RoomForEntry
  <2>7. RowsAgree'
    BY <2>1, <2>2, <2>4 DEF IInv, BookInv, RowsAgree, Agree, Persisted, Entering
  <2>8. RowsTracked' /\ DownIdle'
    BY <2>1, <2>2, <2>5, <2>6 DEF IInv, BookInv, RowsTracked, Persisted, DownIdle
  <2>9. ~HasOpen(trader.mkt)
    BY <2>1 DEF IInv, EntryInv, EntryFree
  <2>10. BookApart'
    BY <2>1, <2>3, <2>5, <2>6, <2>9 DEF IInv, BookInv, BookApart, HasOpen
  <2>11. Room'
    <3>1. (open \cup OpenRows)' = open \cup {id}
      BY <2>1, <2>5, <2>6
    <3> QED BY <2>6, <3>1 DEF Room
  <2>12. EntryInv'
    BY <2>1, <2>2, <2>3 DEF IInv, EntryInv, EntryFree, EntryNew, HasOpen, BelowCap
  <2>13. TaskInv'
    BY <2>1, IdleTasks, QuietTasksKept
  <2> QED BY <2>7, <2>8, <2>10, <2>11, <2>12, <2>13 DEF IInv, BookInv
<1>9. CASE Track
  <2> DEFINE id == trader.id
  <2>1. /\ up /\ trader.pc = "persisted" /\ open' = open \cup {id}
        /\ trader'.pc = "idle" /\ UNCHANGED <<up, pos, row, closer, monitor>>
        /\ OpenRows' = OpenRows
    BY <1>9 DEF Track, TraderIdle, OpenRows
  <2>2. id \in Ids /\ id \notin open /\ pos[id].status = "open"
    BY <2>1 DEF IInv, EntryInv, EntryNew, Entering, Typed, Refs, TraderRefs, Used
  <2>3. Agree(id) /\ id \in OpenRows
    BY <2>1, <2>2 DEF IInv, BookInv, RowsAgree, Persisted, Agree, OpenRows
  <2>4. (open \cup OpenRows)' = open \cup OpenRows
    BY <2>1, <2>3
  <2>5. RowsAgree'
    BY <2>1, <2>3 DEF IInv, BookInv, RowsAgree, Persisted, Agree
  <2>6. RowsTracked' /\ BookApart' /\ Room' /\ DownIdle'
    BY <2>1, <2>4 DEF IInv, BookInv, RowsTracked, BookApart, Room, DownIdle, Persisted
  <2>7. EntryInv'
    BY <2>1 DEF EntryInv, EntryFree, EntryNew, Entering
  <2>8. TasksKept
    BY <2>1 DEF TasksKept, OpenOrClosed
  <2> QED BY <2>1, <2>5, <2>6, <2>7, <2>8, IdleTasks DEF IInv, BookInv
<1> QED
  BY <1>1, <1>2, <1>3, <1>4, <1>5, <1>6, <1>7, <1>8, <1>9 DEF TraderStep
-----------------------------------------------------------------------------
(* A request begins a close, or takes the trade lock.                      *)
LEMMA BeginCloseTasks ==
  ASSUME IInv, Typed, TasksKept, NEW c \in Closers, NEW id, Used(id),
         OpenOrClosed(id)', BeginClose(c, id),
         monitor'.left \subseteq monitor.left, monitor'.pc = "price" =>
           monitor.pc = "price" /\ monitor'.id = monitor.id
  PROVE  TaskInv'
<1> DEFINE r == [pc |-> IF Live(id) THEN "sent" ELSE "record",
                 id |-> id, fill |-> 0]
<1>1. /\ r \in CloserState /\ r.id = id
      /\ r.pc \notin {"saved", "marked"}
  BY DEF Used, CloserState
<1>2. closer' = [closer EXCEPT ![c] = r]
  BY DEF BeginClose
<1> HIDE DEF r
<1> QED BY <1>1, <1>2, CloserTasks

LEMMA ForceCloseSafe ==
  ASSUME IInv, Typed, NEW c \in Closers, NEW id, ForceClose(c, id),
         UNCHANGED <<up, pos, open, row, trader, monitor>>
  PROVE  IInv'
<1>1. id \in open /\ BeginClose(c, id)
  BY DEF ForceClose
<1>2. Used(id) /\ OpenOrClosed(id)'
  BY <1>1 DEF Typed, Refs, BookRefs, OpenOrClosed
<1>3. BookInv' /\ EntryInv'
  BY QuietStep
<1>4. TaskInv'
  BY <1>1, <1>2, BeginCloseTasks, QuietTasksKept
<1> QED BY <1>3, <1>4 DEF IInv

LEMMA RequestSafe ==
  ASSUME IInv, Typed, Request PROVE IInv'
<1>1. ASSUME NEW m \in Markets, StartTrade(m) PROVE IInv'
  <2>1. /\ up /\ trader.pc = "idle" /\ trader'.pc = "gate"
        /\ UNCHANGED <<up, pos, open, row, closer, monitor>>
    BY <1>1 DEF StartTrade, TraderFree, TraderIdle, memory
  <2>2. BookInv' /\ EntryInv'
    BY <2>1, TraderWithdraws
  <2>3. TaskInv'
    BY <2>1, IdleTasks, QuietTasksKept
  <2> QED BY <2>2, <2>3 DEF IInv
<1>2. ASSUME NEW id \in Ids, ContraryClose(id) PROVE IInv'
  BY <1>2, ForceCloseSafe, CallersAreClosers DEF ContraryClose
<1>3. ASSUME NEW id \in Ids, NEW u \in Users, UserClose(u, id) PROVE IInv'
  BY <1>3, ForceCloseSafe DEF UserClose, Closers
<1> QED BY <1>1, <1>2, <1>3 DEF Request
-----------------------------------------------------------------------------
(* A step that changes no more of a position than its stop.                *)
LEMMA StopStep ==
  ASSUME IInv, Typed,
         \A x \in Ids : /\ pos'[x].mkt = pos[x].mkt
                        /\ pos'[x].status = pos[x].status
                        /\ pos'[x].size = pos[x].size
                        /\ pos'[x].realized = pos[x].realized,
         UNCHANGED <<up, open, row, trader>>
  PROVE  BookInv' /\ EntryInv' /\ TasksKept
<1>1. OpenRows' = OpenRows /\ open \subseteq Ids /\ OpenRows \subseteq Ids
  BY OpenRowsAreIds DEF OpenRows
<1>2. BookInv'
  BY <1>1 DEF IInv, BookInv, RowsAgree, RowsTracked, BookApart, Room, DownIdle, Agree,
              Persisted
<1>3. trader.pc \in Entering => trader.id \in Ids
  BY DEF Typed, Refs, TraderRefs, Used
<1>4. EntryInv'
  BY <1>1, <1>3 DEF IInv, EntryInv, EntryFree, EntryNew, HasOpen, BelowCap
<1>5. TasksKept
  BY DEF TasksKept, OpenOrClosed
<1> QED BY <1>2, <1>4, <1>5

(* A close advances from one of its stages to another.                     *)
LEMMA CloserMovesOn ==
  ASSUME IInv, Typed, TasksKept, NEW c \in Closers, closer[c].pc # "idle",
         NEW r \in CloserState, r.id = closer[c].id,
         closer' = [closer EXCEPT ![c] = r],
         r.pc \in {"saved", "marked"} => pos'[r.id].status = "closed",
         UNCHANGED monitor
  PROVE  TaskInv'
<1>1. Used(r.id) /\ OpenOrClosed(r.id)
  BY DEF Typed, Refs, CloserRefs, IInv, TaskInv, TasksOpen
<1>2. OpenOrClosed(r.id)'
  BY <1>1 DEF TasksKept, Used
<1> QED BY <1>1, <1>2, CloserTasks

(* _record_close on a position some task works on.                         *)
LEMMA RecordedStep ==
  ASSUME IInv, Typed, WritesSucceed, NEW id, Used(id), OpenOrClosed(id),
         MarkRecorded(id), UNCHANGED <<up, open, trader>>
  PROVE  BookInv' /\ EntryInv' /\ TasksKept /\ pos'[id].status = "closed"
<1>1. pos \in [Ids -> Position] /\ id \in Ids
  BY DEF Typed, TypeOK, MemoryOK, Used
<1>2. pos[id].realized + pos[id].size \in Nat
  BY <1>1 DEF Position
<1>3. Recorded(id) \in Position
  BY <1>1, <1>2 DEF Recorded, Position
<1>4. Recorded(id).mkt = pos[id].mkt /\ Recorded(id).status = "closed"
  BY <1>1 DEF Recorded, Position
<1>5. pos' = [pos EXCEPT ![id] = Recorded(id)] /\ row' = [row EXCEPT ![id] = Recorded(id)]
  BY UpsertSucceeds DEF MarkRecorded, UpsertOk
<1>6. pos'[id].status = "closed"
  BY <1>1, <1>4, <1>5
<1>7. BookInv' /\ EntryInv' /\ TasksKept
  BY <1>3, <1>4, <1>5, WriteStep
<1> QED BY <1>6, <1>7
-----------------------------------------------------------------------------
LEMMA CloserStepSafe ==
  ASSUME IInv, Typed, WritesSucceed, NEW c \in Closers, CloserStep(c) PROVE IInv'
<1> DEFINE id == closer[c].id
<1>0. /\ closer \in [Closers -> CloserState] /\ pos \in [Ids -> Position]
      /\ closer[c] \in CloserState
      /\ closer[c].pc # "idle" => Used(id) /\ OpenOrClosed(id)
  BY DEF Typed, TypeOK, MemoryOK, Refs, CloserRefs, IInv, TaskInv, TasksOpen
<1>1. CASE ExecuteClose(c)
  <2>1. /\ UNCHANGED <<up, pos, open, row, trader, monitor>> /\ closer[c].pc # "idle"
    BY <1>1 DEF ExecuteClose, memory
  <2>2. PICK sold \in 0 .. exch[pos[id].mkt], fill \in 0 .. exch[pos[id].mkt] :
          closer' = [closer EXCEPT ![c].pc = "replied", ![c].fill = fill]
    BY <1>1 DEF ExecuteClose
  <2>3. fill \in Nat
    BY <1>0, <2>1 DEF Typed, TypeOK, WorldOK, Used
  <2> DEFINE r == [closer[c] EXCEPT !.pc = "replied", !.fill = fill]
  <2>4. /\ r \in CloserState /\ r.id = id /\ r.pc = "replied"
        /\ closer' = [closer EXCEPT ![c] = r]
    BY <1>0, <2>2, <2>3 DEF CloserState
  <2> HIDE DEF r
  <2>5. TaskInv'
    BY <2>1, <2>4, CloserMovesOn, QuietTasksKept
  <2> QED BY <2>1, <2>5, QuietStep DEF IInv
<1>2. CASE CloseUnfilled(c)
  BY <1>2, QuietStep, ReleaseTasks, QuietTasksKept DEF CloseUnfilled, IInv
<1>3. CASE ClosePartial(c)
  <2> DEFINE k == closer[c].fill
             s == Sliced(id, k)
             r == [closer[c] EXCEPT !.pc = "booked"]
  <2>1. /\ UNCHANGED <<up, open, trader, monitor>> /\ closer[c].pc # "idle"
        /\ 0 < k /\ k < pos[id].size
        /\ pos' = [pos EXCEPT ![id] = s]
    BY <1>3 DEF ClosePartial
  <2>2. row' = [row EXCEPT ![id] = s]
    BY <1>3, UpsertSucceeds DEF ClosePartial, UpsertOk
  <2>3. k \in Nat /\ pos[id] \in Position /\ pos[id].size \in Nat /\ pos[id].realized \in Nat
    BY <1>0, <2>1 DEF CloserState, Position, Used
  <2>4. pos[id].size - k \in Nat /\ pos[id].realized + k \in Nat
    BY <2>1, <2>3
  <2>5. s \in Position /\ s.mkt = pos[id].mkt /\ s.status = pos[id].status
    BY <2>3, <2>4 DEF Sliced, Position
  <2>6. r \in CloserState /\ r.id = id /\ r.pc = "booked"
    BY <1>0 DEF CloserState
  <2>7. closer' = [closer EXCEPT ![c] = r]
    BY <1>0, <1>3 DEF ClosePartial
  <2> HIDE DEF s, r
  <2>8. BookInv' /\ EntryInv' /\ TasksKept
    BY <1>0, <2>1, <2>2, <2>5, WriteStep
  <2>9. TaskInv'
    BY <2>1, <2>6, <2>7, <2>8, CloserMovesOn
  <2> QED BY <2>8, <2>9 DEF IInv
<1>4. CASE CloseFilled(c)
  <2> DEFINE r == [closer[c] EXCEPT !.pc = "record"]
  <2>1. /\ UNCHANGED <<up, open, row, trader, monitor>> /\ closer[c].pc # "idle"
        /\ pos' = [pos EXCEPT ![id].stop = FALSE]
    BY <1>4 DEF CloseFilled
  <2>2. /\ r \in CloserState /\ r.id = id /\ r.pc = "record"
        /\ closer' = [closer EXCEPT ![c] = r]
    BY <1>0, <1>4 DEF CloserState, CloseFilled
  <2>3. \A x \in Ids : /\ pos'[x].mkt = pos[x].mkt
                       /\ pos'[x].status = pos[x].status
                       /\ pos'[x].size = pos[x].size
                       /\ pos'[x].realized = pos[x].realized
    BY <1>0, <2>1 DEF Position
  <2> HIDE DEF r
  <2>4. BookInv' /\ EntryInv' /\ TasksKept
    BY <2>1, <2>3, StopStep
  <2>5. TaskInv'
    BY <2>1, <2>2, <2>4, CloserMovesOn
  <2> QED BY <2>4, <2>5 DEF IInv
<1>5. CASE RecordClose(c)
  <2>1. UNCHANGED <<up, open, trader, monitor>> /\ closer[c].pc # "idle"
    BY <1>5 DEF RecordClose
  <2>2. CASE pos[id].status = "closed"
    <3> DEFINE r == [closer[c] EXCEPT !.pc = "saved"]
    <3>1. UNCHANGED <<pos, row>> /\ closer' = [closer EXCEPT ![c] = r]
      BY <1>0, <1>5, <2>2 DEF RecordClose
    <3>2. r \in CloserState /\ r.id = id
      BY <1>0 DEF CloserState
    <3> HIDE DEF r
    <3>3. TaskInv'
      BY <2>1, <2>2, <3>1, <3>2, CloserMovesOn, QuietTasksKept
    <3> QED BY <2>1, <3>1, <3>3, QuietStep DEF IInv
  <2>3. CASE pos[id].status # "closed"
    <3> DEFINE r == [closer[c] EXCEPT !.pc = UpsertOutcome]
    <3>1. MarkRecorded(id) /\ closer' = [closer EXCEPT ![c] = r]
      BY <1>0, <1>5, <2>3 DEF RecordClose
    <3>2. r \in CloserState /\ r.id = id
      BY <1>0 DEF CloserState, UpsertOutcome
    <3> HIDE DEF r
    <3>3. BookInv' /\ EntryInv' /\ TasksKept /\ pos'[id].status = "closed"
      BY <1>0, <2>1, <3>1, RecordedStep
    <3>4. TaskInv'
      BY <2>1, <3>1, <3>2, <3>3, CloserMovesOn
    <3> QED BY <3>3, <3>4 DEF IInv
  <2> QED BY <2>2, <2>3
<1>6. CASE PaperPriceRaises(c)
  <2>1. UNCHANGED <<up, pos, open, row, trader>> /\ Release(c) /\ AbortPass(c)
    BY <1>6 DEF PaperPriceRaises
  <2> QED BY <2>1, QuietStep, ReleaseTasks, QuietTasksKept DEF IInv
<1>7. CASE FinishClose(c)
  <2>1. /\ UNCHANGED <<up, pos, row, trader, monitor>> /\ closer[c].pc = "saved"
        /\ Drop(id) /\ Release(c)
    BY <1>7 DEF FinishClose
  <2>2. Used(id) /\ pos[id].status = "closed"
    BY <1>0, <2>1 DEF IInv, TaskInv, DropsClosed
  <2>3. BookInv' /\ EntryInv' /\ TasksKept
    BY <2>1, <2>2, DropStep
  <2> QED BY <2>1, <2>3, ReleaseTasks DEF IInv
<1>8. CASE CloseRaises(c)
  <2>1. UNCHANGED <<up, pos, open, row, trader>> /\ Release(c) /\ AbortPass(c)
    BY <1>8 DEF CloseRaises
  <2> QED BY <2>1, QuietStep, ReleaseTasks, QuietTasksKept DEF IInv
<1>9. CASE FinishPartial(c)
  BY <1>9, QuietStep, ReleaseTasks, QuietTasksKept DEF FinishPartial, IInv
<1> QED
  BY <1>1, <1>2, <1>3, <1>4, <1>5, <1>6, <1>7, <1>8, <1>9 DEF CloserStep
-----------------------------------------------------------------------------
(* Most steps of the monitor only look.                                    *)
MonitorLooks ==
  \/ FetchStates
  \/ StartReconcile
  \/ \E id \in Ids : \/ ReconcileSkip(id)
                     \/ ReconcilePresent(id)
                     \/ ReconcileMiss(id)
                     \/ ScanSkip(id)
                     \/ ScanAsk(id)
  \/ StartScan
  \/ ScanRaises
  \/ EndScan

LEMMA MonitorLooksSafe ==
  ASSUME IInv, Typed, MonitorLooks PROVE IInv'
<1>1. UNCHANGED <<up, pos, open, row, trader, closer>>
  BY DEF MonitorLooks, FetchStates, StartReconcile, ReconcileSkip, ReconcilePresent,
         ReconcileMiss, ScanSkip, ScanAsk, StartScan, ScanRaises, EndScan, memory
<1>2. /\ monitor'.left \subseteq monitor.left \cup open
      /\ monitor'.pc = "price" => monitor'.id \in monitor.left \cup open
  <2>1. monitor \in MonitorState
    BY DEF Typed, TypeOK
  <2>2. CASE FetchStates
    BY <2>1, <2>2 DEF FetchStates, MonitorState, LiveOpen
  <2>3. CASE StartReconcile
    BY <2>1, <2>3 DEF StartReconcile, MonitorState
  <2>4. ASSUME NEW id \in Ids,
               ReconcileSkip(id) \/ ReconcilePresent(id) \/ ReconcileMiss(id)
        PROVE  monitor'.left \subseteq monitor.left /\ monitor'.pc = "reconcile"
    BY <2>1, <2>4 DEF ReconcileSkip, ReconcilePresent, ReconcileMiss, MonitorState,
                      MonitorAt
  <2>5. ASSUME NEW id \in Ids, ScanSkip(id)
        PROVE  monitor'.left \subseteq monitor.left /\ monitor'.pc = "scan"
    BY <2>1, <2>5 DEF ScanSkip, MonitorState, MonitorAt
  <2>6. ASSUME NEW id \in Ids, ScanAsk(id)
        PROVE  monitor'.left \subseteq monitor.left /\ monitor'.id \in monitor.left
    BY <2>1, <2>6 DEF ScanAsk, MonitorState
  <2>7. CASE StartScan
    BY <2>1, <2>7 DEF StartScan, MonitorState
  <2>8. CASE ScanRaises \/ EndScan
    BY <2>1, <2>8 DEF ScanRaises, EndScan, AbortPass, MonitorIdle
  <2> QED BY <2>2, <2>3, <2>4, <2>5, <2>6, <2>7, <2>8 DEF MonitorLooks
<1>3. TasksKept /\ closer' = closer
  BY <1>1, QuietTasksKept
<1>4. TaskInv'
  <2>1. monitor'.pc = "price" => monitor'.id \in monitor.left \cup open
                                \/ (monitor.pc = "price" /\ monitor'.id = monitor.id)
    BY <1>2
  <2> QED BY <1>2, <1>3, <2>1, IdleTasks
<1> QED BY <1>1, <1>4, QuietStep DEF IInv

LEMMA MonitorStepSafe ==
  ASSUME IInv, Typed, WritesSucceed, MonitorStep PROVE IInv'
<1> USE CallersAreClosers
<1>0. monitor \in MonitorState /\ closer \in [Closers -> CloserState]
  BY DEF Typed, TypeOK
<1>1. CASE MonitorLooks
  BY <1>1, MonitorLooksSafe
<1>2. ASSUME NEW id \in Ids, ReconcileGone(id) PROVE IInv'
  <2> DEFINE r == [pc |-> IF pos[id].status = "closed" \/ UpsertOutcome = "saved"
                          THEN "marked" ELSE "unmarked",
                   id |-> id, fill |-> 0]
  <2>1. /\ UNCHANGED <<up, open, trader>> /\ id \in monitor.left
        /\ monitor' = [monitor EXCEPT !.left = @ \ {id}]
        /\ monitor.pc = "reconcile"
    BY <1>2 DEF ReconcileGone, MonitorAt
  <2>2. Used(id) /\ OpenOrClosed(id)
    BY <2>1 DEF Typed, Refs, MonitorRefs, IInv, TaskInv, TasksOpen
  <2>3. r \in CloserState /\ r.id = id
    BY DEF CloserState
  <2>4. closer' = [closer EXCEPT !["monitor"] = r]
    BY <1>2 DEF ReconcileGone
  <2>5. monitor'.left \subseteq monitor.left /\ monitor'.pc = "reconcile"
    BY <1>0, <2>1 DEF MonitorState
  <2>6. BookInv' /\ EntryInv' /\ TasksKept /\ pos'[id].status = "closed"
    <3>1. CASE pos[id].status = "closed"
      <4>1. UNCHANGED <<pos, row>>
        BY <1>2, <3>1 DEF ReconcileGone
      <4> QED BY <2>1, <3>1, <4>1, QuietStep, QuietTasksKept
    <3>2. CASE pos[id].status # "closed"
      <4>1. MarkRecorded(id)
        BY <1>2, <3>2 DEF ReconcileGone
      <4> QED BY <2>1, <2>2, <4>1, RecordedStep
    <3> QED BY <3>1, <3>2
  <2> HIDE DEF r
  <2>7. OpenOrClosed(id)'
    BY <2>6 DEF OpenOrClosed
  <2>8. TaskInv'
    BY <2>2, <2>3, <2>4, <2>5, <2>6, <2>7, CloserTasks
  <2> QED BY <2>6, <2>8 DEF IInv
<1>3. CASE FinishMark
  <2> DEFINE id == closer["monitor"].id
  <2>1. /\ UNCHANGED <<up, pos, row, trader, monitor>>
        /\ closer["monitor"].pc \in {"marked", "unmarked"}
        /\ closer' = [closer EXCEPT !["monitor"] = CloserIdle]
    BY <1>3 DEF FinishMark
  <2>2. BookInv' /\ EntryInv' /\ TasksKept
    <3>1. CASE closer["monitor"].pc = "marked"
      <4>1. Used(id) /\ pos[id].status = "closed"
        BY <3>1 DEF Typed, Refs, CloserRefs, IInv, TaskInv, DropsClosed
      <4>2. Drop(id)
        BY <1>3, <3>1 DEF FinishMark
      <4> QED BY <2>1, <4>1, <4>2, DropStep
    <3>2. CASE closer["monitor"].pc # "marked"
      <4>1. UNCHANGED open
        BY <1>3, <3>2 DEF FinishMark
      <4> QED BY <2>1, <4>1, QuietStep, QuietTasksKept
    <3> QED BY <3>1, <3>2
  <2>3. CloserIdle.pc \notin {"saved", "marked"}
    BY IdleIsACloserState
  <2>4. TaskInv'
    BY <2>1, <2>2, <2>3, CloserTasks, IdleIsACloserState
  <2> QED BY <2>2, <2>4 DEF IInv
<1>4. CASE ScanExit
  <2>1. /\ UNCHANGED <<up, pos, open, row, trader>>
        /\ BeginClose("monitor", monitor.id) /\ monitor.pc = "price"
        /\ monitor' = [monitor EXCEPT !.pc = "scan", !.id = "none"]
    BY <1>4 DEF ScanExit, MonitorAt
  <2>2. PICK id : id = monitor.id
    OBVIOUS
  <2>3. Used(id) /\ OpenOrClosed(id)
    BY <2>1, <2>2 DEF Typed, Refs, MonitorRefs, IInv, TaskInv, TasksOpen
  <2>4. monitor'.left \subseteq monitor.left /\ monitor'.pc = "scan"
    BY <1>0, <2>1 DEF MonitorState
  <2>5. OpenOrClosed(id)'
    BY <2>1, <2>3 DEF OpenOrClosed
  <2>6. TaskInv'
    BY <2>1, <2>2, <2>3, <2>4, <2>5, BeginCloseTasks, QuietTasksKept
  <2> QED BY <2>1, <2>6, QuietStep DEF IInv
<1>5. CASE ScanKeep
  <2> DEFINE id == monitor.id
  <2>1. /\ UNCHANGED <<up, pos, open, trader, closer>> /\ monitor.pc = "price"
        /\ monitor' = [monitor EXCEPT !.pc = "scan", !.id = "none"]
        /\ row' = [row EXCEPT ![id] = pos[id]] \/ row' = row
    BY <1>5, UpsertSucceeds DEF ScanKeep, MonitorAt, UpsertOk, memory
  <2>2. Used(id) /\ OpenOrClosed(id)
    BY <2>1 DEF Typed, Refs, MonitorRefs, IInv, TaskInv, TasksOpen
  <2>3. monitor'.left \subseteq monitor.left /\ monitor'.pc = "scan"
    BY <1>0, <2>1 DEF MonitorState
  <2>4. BookInv' /\ EntryInv'
    <3>1. CASE row' = row
      BY <2>1, <3>1, QuietStep
    <3>2. CASE row' = [row EXCEPT ![id] = pos[id]]
      <4>1. pos[id] \in Position /\ pos' = [pos EXCEPT ![id] = pos[id]]
        BY <2>1, <2>2 DEF Typed, TypeOK, MemoryOK, Used
      <4> QED BY <2>1, <2>2, <3>2, <4>1, WriteStep
    <3> QED BY <2>1, <3>1, <3>2
  <2>5. TaskInv'
    BY <2>1, <2>3, IdleTasks, QuietTasksKept
  <2> QED BY <2>4, <2>5 DEF IInv
<1> QED
  BY <1>1, <1>2, <1>3, <1>4, <1>5 DEF MonitorStep, MonitorLooks
-----------------------------------------------------------------------------
LEMMA WorldSafe == ASSUME IInv, Typed, World PROVE IInv'
<1>1. CASE (\E id \in Ids : Expire(id)) \/ (\E m \in Markets : ExchangeFlattens(m))
  <2>1. UNCHANGED <<up, pos, open, row, trader, closer, monitor>>
    BY <1>1 DEF Expire, ExchangeFlattens, memory, tasks
  <2>2. TasksKept
    BY <2>1, QuietTasksKept
  <2>3. TaskInv'
    BY <2>1, <2>2, IdleTasks
  <2> QED BY <2>1, <2>3, QuietStep DEF IInv
<1>2. CASE Crash
  <2>1. /\ up' = FALSE /\ open' = {} /\ UNCHANGED <<pos, row>>
        /\ trader'.pc = "idle" /\ monitor'.left = {} /\ monitor'.pc = "idle"
        /\ \A c \in Closers : closer'[c].pc = "idle"
        /\ OpenRows' = OpenRows
    BY <1>2 DEF Crash, TraderIdle, CloserIdle, MonitorIdle, OpenRows
  <2>2. RowsAgree' /\ RowsTracked' /\ BookApart' /\ DownIdle'
    BY <2>1 DEF IInv, BookInv, RowsAgree, Agree, RowsTracked, BookApart, DownIdle,
                Persisted
  <2>3. Room'
    <3>1. (open \cup OpenRows)' \in SUBSET (open \cup OpenRows)
      BY <2>1
    <3> QED BY <3>1, FewerFit, ConstantsAssumption DEF IInv, BookInv, Room
  <2>4. EntryInv' /\ TaskInv'
    BY <2>1 DEF EntryInv, EntryFree, EntryNew, Entering, TaskInv, TasksOpen, DropsClosed
  <2> QED BY <2>2, <2>3, <2>4 DEF IInv, BookInv
<1> QED BY <1>1, <1>2 DEF World

(* What comes back is what the table holds: no more than the book held.    *)
LEMMA RestartSafe == ASSUME IInv, Typed, Restart PROVE IInv'
<1>1. /\ ~up /\ up' = TRUE /\ open' = OpenRows
      /\ UNCHANGED <<row, trader, closer, monitor>>
      /\ OpenRows' = OpenRows /\ OpenRows \in SUBSET Ids
      /\ \A x \in Ids : pos'[x] = IF x \in OpenRows THEN row[x] ELSE pos[x]
  BY DEF Restart, tasks, OpenRows
<1>2. open = {} /\ trader.pc = "idle"
  BY <1>1 DEF IInv, BookInv, DownIdle
<1>3. \A x \in Ids : pos[x].status = "closed" => x \notin OpenRows
  BY DEF IInv, BookInv, RowsAgree, Agree, OpenRows
<1>4. RowsAgree'
  BY <1>1, <1>2, <1>3 DEF IInv, BookInv, RowsAgree, Agree, Persisted, OpenRows
<1>5. BookApart'
  <2>1. \A x \in OpenRows : pos'[x].mkt = pos[x].mkt
    BY <1>1 DEF Typed, Refs, RowRefs, OpenRows
  <2> QED BY <1>1, <2>1 DEF IInv, BookInv, BookApart
<1>6. RowsTracked' /\ DownIdle'
  BY <1>1 DEF RowsTracked, DownIdle
<1>7. Room'
  BY <1>1, <1>2 DEF IInv, BookInv, Room
<1>8. EntryInv'
  BY <1>1, <1>2 DEF EntryInv, EntryFree, EntryNew, Entering
<1>9. TasksKept
  BY <1>1, <1>2, <1>3 DEF TasksKept, OpenOrClosed, Used
<1>10. TaskInv'
  BY <1>1, <1>9, IdleTasks
<1> QED BY <1>4, <1>5, <1>6, <1>7, <1>8, <1>10 DEF IInv, BookInv

LEMMA InitSafe == Init => IInv
<1> SUFFICES ASSUME Init PROVE IInv
  OBVIOUS
<1>1. /\ open = {} /\ up = TRUE
      /\ \A id \in Ids : pos[id].status = "unused" /\ row[id].status = "unused"
  BY DEF Init, Unused
<1>2. OpenRows = {}
  BY <1>1 DEF OpenRows
<1>3. /\ trader.pc = "idle" /\ monitor.left = {} /\ monitor.pc = "idle"
      /\ \A c \in Closers : closer[c].pc = "idle"
  BY DEF Init, TraderIdle, MonitorIdle, CloserIdle
<1>4. Cardinality(open \cup OpenRows) = 0
  BY <1>1, <1>2, FS_EmptySet
<1>5. Room
  BY <1>4, ConstantsAssumption DEF Room
<1>6. RowsAgree /\ RowsTracked /\ BookApart /\ DownIdle
  BY <1>1, <1>2, <1>3 DEF RowsAgree, RowsTracked, BookApart, DownIdle, Persisted
<1>7. EntryInv /\ TaskInv
  BY <1>3 DEF EntryInv, EntryFree, EntryNew, Entering, TaskInv, TasksOpen, DropsClosed
<1> QED BY <1>5, <1>6, <1>7 DEF IInv, BookInv

LEMMA NextSafe ==
  ASSUME IInv, Typed, WritesSucceed, [Next]_vars PROVE IInv'
<1>1. CASE Request BY <1>1, RequestSafe
<1>2. CASE TraderStep BY <1>2, TraderStepSafe
<1>3. ASSUME NEW c \in Closers, CloserStep(c) PROVE IInv' BY <1>3, CloserStepSafe
<1>4. CASE MonitorStep BY <1>4, MonitorStepSafe
<1>5. CASE World BY <1>5, WorldSafe
<1>6. CASE Restart BY <1>6, RestartSafe
<1>7. CASE UNCHANGED vars
  <2>1. UNCHANGED <<up, pos, open, row, trader, closer, monitor>>
    BY <1>7 DEF vars, memory, tasks
  <2>2. TasksKept
    BY <2>1, QuietTasksKept
  <2>3. TaskInv'
    BY <2>1, <2>2, IdleTasks
  <2> QED BY <2>1, <2>3, QuietStep DEF IInv
<1> QED BY <1>1, <1>2, <1>3, <1>4, <1>5, <1>6, <1>7 DEF Next

(* When every write succeeds the invariant above holds of every behaviour, *)
(* however many faults of the other kinds and crashes it contains.         *)
THEOREM BookSafe == ASSUME WritesSucceed PROVE Spec => []IInv
<1>1. Init => IInv BY InitSafe
<1>2. Typed /\ IInv /\ [Next]_vars => IInv' BY NextSafe
<1>3. Spec => []Typed BY TypeCorrect DEF Typed
<1> QED BY <1>1, <1>2, <1>3, PTL DEF Spec

(* Two tracked positions never share a market, though the gate reads       *)
(* has_open long before the manager's track is called.                     *)
THEOREM OneTracked == ASSUME WritesSucceed PROVE Spec => []OneTrackedPerMarket
<1>1. IInv => OneTrackedPerMarket
  BY DEF IInv, BookInv, BookApart, OneTrackedPerMarket
<1> QED BY <1>1, BookSafe, PTL

(* max_concurrent_positions holds at every moment, also right after a      *)
(* restart has tracked every open row again.                               *)
THEOREM CapHolds == ASSUME WritesSucceed PROVE Spec => []CapRespected
<1>1. Typed /\ IInv => CapRespected
  <2> SUFFICES ASSUME Typed, IInv PROVE CapRespected
    OBVIOUS
  <2>1. open \in SUBSET (open \cup OpenRows)
    OBVIOUS
  <2>2. /\ Cardinality(open) \in Nat /\ Cardinality(open \cup OpenRows) \in Nat
        /\ Cardinality(open) <= Cardinality(open \cup OpenRows)
    BY <2>1, FewerFit
  <2>3. Cardinality(open \cup OpenRows) <= MaxOpen
    BY DEF IInv, BookInv, Room
  <2> QED BY <2>2, <2>3, ConstantsAssumption DEF CapRespected
<1>2. Spec => []Typed BY TypeCorrect DEF Typed
<1> QED BY <1>1, <1>2, BookSafe, PTL

(* What a restart would restore is what memory holds (executor.open,       *)
(* _record_partial_close and _record_close against restore).               *)
THEOREM RowsMirror == ASSUME WritesSucceed PROVE Spec => []RowsMirrorBook
<1>1. Typed /\ IInv => RowsMirrorBook
  <2> SUFFICES ASSUME Typed, IInv, up PROVE
        /\ \A id \in open : pos[id].status = "open" =>
             /\ row[id].status = "open"
             /\ row[id].size = pos[id].size
             /\ row[id].realized = pos[id].realized
        /\ OpenRows \subseteq open \cup {trader.id}
    BY DEF RowsMirrorBook
  <2>1. \A id \in open : id \in Ids
    BY OpenRowsAreIds
  <2> QED BY <2>1 DEF IInv, BookInv, RowsAgree, Agree, RowsTracked, Persisted
<1>2. Spec => []Typed BY TypeCorrect DEF Typed
<1> QED BY <1>1, <1>2, BookSafe, PTL
-----------------------------------------------------------------------------
(***************************************************************************)
(* The exposure budget.  The exposure is a sum over the tracked positions, *)
(* and what is needed of sums over finite sets follows from one fact: a    *)
(* nonempty family of subsets of a finite set has a minimal member.        *)
(***************************************************************************)
LEMMA Least ==
  ASSUME NEW T, T \subseteq Nat, T # {}
  PROVE  \E x \in T : \A y \in T : x <= y
<1> DEFINE R == OpToRel(<, Nat)
<1>1. IsWellFoundedOn(R, Nat)
  BY NatLessThanWellFounded
<1> HIDE DEF R
<1>2. PICK x \in T : \A y \in T : ~(<<y, x>> \in R)
  BY <1>1, WFMin, Zenon
<1>3. R = {ss \in Nat \X Nat : ss[1] < ss[2]}
  BY DEF R, OpToRel
<1>4. \A y \in T : ~(y < x)
  BY <1>2, <1>3
<1> QED BY <1>4

LEMMA Minimal ==
  ASSUME NEW S, IsFiniteSet(S), NEW B, B \subseteq SUBSET S, B # {}
  PROVE  \E s \in B : \A t \in SUBSET s : t # s => t \notin B
<1> DEFINE T == {Cardinality(s) : s \in B}
<1>1. \A s \in B : IsFiniteSet(s) /\ Cardinality(s) \in Nat
  BY FS_Subset, FS_CardinalityType
<1>2. T \subseteq Nat /\ T # {}
  BY <1>1
<1>3. PICK n \in T : \A m \in T : n <= m
  BY <1>2, Least
<1>4. PICK s \in B : n = Cardinality(s)
  BY <1>3
<1>5. ASSUME NEW t \in SUBSET s, t # s, t \in B PROVE FALSE
  <2>1. Cardinality(t) < Cardinality(s)
    BY <1>1, <1>4, <1>5, FS_Subset
  <2>2. Cardinality(s) <= Cardinality(t)
    BY <1>3, <1>4, <1>5
  <2> QED BY <1>1, <1>4, <1>5, <2>1, <2>2
<1> QED BY <1>4, <1>5

Pick(s) == CHOOSE x \in s : TRUE

(* The sum, as MapThenFoldSet computes it: of all subsets of S.            *)
IsSums(f, p, S) ==
  f = [s \in SUBSET S |-> IF s = {} THEN 0 ELSE p[Pick(s)].size + f[s \ {Pick(s)}]]
Sums(p, S) == CHOOSE f : IsSums(f, p, S)

SizeOf(p, S) == Sums(p, S)[S]

LEMMA PickIn == ASSUME NEW s, s # {} PROVE Pick(s) \in s
  BY DEF Pick

LEMMA SumsExist ==
  ASSUME NEW S, IsFiniteSet(S), NEW p, \A x \in S : p[x].size \in Nat
  PROVE  \E f : IsSums(f, p, S)
<1> DEFINE D(n)  == {s \in SUBSET S : Cardinality(s) <= n}
           Next_(f, s) == IF s = {} THEN 0 ELSE p[Pick(s)].size + f[s \ {Pick(s)}]
           Good(n) == \E g : g = [s \in D(n) |-> Next_(g, s)]
           Bad   == {n \in Nat : ~Good(n)}
<1>1. \A s \in SUBSET S : IsFiniteSet(s) /\ Cardinality(s) \in Nat
  BY FS_Subset, FS_CardinalityType
<1>2. ASSUME NEW s \in SUBSET S, s # {}
      PROVE  /\ Pick(s) \in s /\ s \ {Pick(s)} \in SUBSET S
             /\ Cardinality(s \ {Pick(s)}) = Cardinality(s) - 1
             /\ Cardinality(s) # 0
  BY <1>1, <1>2, PickIn, FS_RemoveElement, FS_EmptySet
<1>3. ASSUME Bad # {} PROVE FALSE
  <2>1. PICK n \in Bad : \A m \in Bad : n <= m
    <3>1. Bad \subseteq Nat
      OBVIOUS
    <3> HIDE DEF Bad
    <3> QED BY <1>3, <3>1, Least
  <2>2. n \in Nat /\ ~Good(n)
    BY <2>1
  <2>3. CASE n = 0
    <3> DEFINE g == [s \in D(0) |-> 0]
    <3>1. ASSUME NEW s \in D(0), s # {} PROVE FALSE
      <4>1. Cardinality(s) \in Nat /\ Cardinality(s) <= 0 /\ Cardinality(s) # 0
        BY <1>1, <1>2, <3>1
      <4> QED BY <4>1
    <3>2. g = [s \in D(0) |-> Next_(g, s)]
      BY <3>1
    <3> QED BY <2>2, <2>3, <3>2
  <2>4. CASE n # 0
    <3>1. n - 1 \in Nat /\ n - 1 \notin Bad
      <4>1. n - 1 \in Nat /\ ~(n <= n - 1)
        BY <2>2, <2>4
      <4> HIDE DEF Bad
      <4> QED BY <2>1, <4>1
    <3>2. PICK g : g = [s \in D(n - 1) |-> Next_(g, s)]
      BY <3>1
    <3> DEFINE h == [s \in D(n) |-> Next_(g, s)]
    <3>3. ASSUME NEW s \in D(n), s # {}
          PROVE  s \ {Pick(s)} \in D(n - 1) /\ s \ {Pick(s)} \in D(n)
      <4>1. Cardinality(s \ {Pick(s)}) = Cardinality(s) - 1 /\ s \ {Pick(s)} \in SUBSET S
        BY <1>2, <3>3
      <4>2. Cardinality(s) \in Nat /\ Cardinality(s) <= n
        BY <1>1
      <4> QED BY <2>2, <4>1, <4>2
    <3>4. \A s \in D(n - 1) : h[s] = g[s]
      <4>1. ASSUME NEW s \in D(n - 1) PROVE s \in D(n)
        <5>1. Cardinality(s) \in Nat /\ Cardinality(s) <= n - 1
          BY <1>1
        <5> QED BY <2>2, <5>1
      <4>2. \A s \in D(n - 1) : g[s] = Next_(g, s)
        BY <3>2, Zenon
      <4> HIDE DEF D, Next_
      <4> QED BY <4>1, <4>2
    <3>5. \A s \in D(n) : Next_(h, s) = Next_(g, s)
      <4> HIDE DEF D, h
      <4> QED BY <3>3, <3>4
    <3>6. h = [s \in D(n) |-> Next_(h, s)]
      <4> HIDE DEF D, Next_
      <4> QED BY <3>5
    <3> HIDE DEF h, D, Next_
    <3> QED BY <2>2, <3>6
  <2> QED BY <2>3, <2>4
<1>4. Cardinality(S) \in Nat
  BY FS_CardinalityType
<1>5. D(Cardinality(S)) = SUBSET S
  BY <1>1, <1>4, FS_Subset
<1>6. Good(Cardinality(S))
  BY <1>3, <1>4
<1>7. PICK g : g = [s \in D(Cardinality(S)) |-> Next_(g, s)]
  BY <1>6
<1>8. g = [s \in SUBSET S |-> Next_(g, s)]
  <2> HIDE DEF D, Next_
  <2> QED BY <1>5, <1>7
<1>9. IsSums(g, p, S)
  BY <1>8, Zenon DEF IsSums
<1> QED BY <1>9

LEMMA SumsAre ==
  ASSUME NEW S, IsFiniteSet(S), NEW p, \A x \in S : p[x].size \in Nat
  PROVE  \A s \in SUBSET S : Sums(p, S)[s] =
           IF s = {} THEN 0 ELSE p[Pick(s)].size + Sums(p, S)[s \ {Pick(s)}]
<1> DEFINE G == Sums(p, S)
<1>1. IsSums(G, p, S)
  BY SumsExist, Zenon DEF Sums
<1> HIDE DEF G
<1>2. \A s \in SUBSET S : G[s] = IF s = {} THEN 0 ELSE p[Pick(s)].size + G[s \ {Pick(s)}]
  BY <1>1, Zenon DEF IsSums
<1> QED BY <1>2 DEF G

LEMMA ExposureIs == TotalExposure = SizeOf(pos, open)
BY Zenon DEF TotalExposure, MapThenSumSet, MapThenFoldSet, SizeOf, Sums, IsSums, Pick

LEMMA SumsNat ==
  ASSUME NEW S, IsFiniteSet(S), NEW p, \A x \in S : p[x].size \in Nat
  PROVE  \A s \in SUBSET S : Sums(p, S)[s] \in Nat
<1> DEFINE G == Sums(p, S)
           B == {s \in SUBSET S : G[s] \notin Nat}
<1>1. \A s \in SUBSET S : G[s] = IF s = {} THEN 0 ELSE p[Pick(s)].size + G[s \ {Pick(s)}]
  BY SumsAre
<1> HIDE DEF G
<1>2. ASSUME B # {} PROVE FALSE
  <2>1. B \subseteq SUBSET S
    OBVIOUS
  <2>2. PICK s \in B : \A t \in SUBSET s : t # s => t \notin B
    <3> HIDE DEF B
    <3> QED BY <1>2, <2>1, Minimal
  <2>3. CASE s = {}
    <3>1. s \in SUBSET S /\ G[s] \notin Nat
      BY <2>2
    <3>2. G[s] = 0
      BY <1>1, <2>3, <3>1, Zenon
    <3> QED BY <3>1, <3>2
  <2>4. CASE s # {}
    <3> DEFINE x == Pick(s)
    <3>1. x \in s
      BY <2>4, PickIn
    <3>2. G[s] = p[x].size + G[s \ {x}] /\ s \subseteq S /\ G[s] \notin Nat
      BY <1>1, <2>4
    <3> HIDE DEF x
    <3>3. s \ {x} \in SUBSET s /\ s \ {x} # s
      BY <3>1
    <3>4. G[s \ {x}] \in Nat
      BY <2>2, <3>2, <3>3
    <3> QED BY <3>1, <3>2, <3>4
  <2> QED BY <2>3, <2>4
<1> QED BY <1>2 DEF G

(* Any member may be taken out first.                                      *)
LEMMA SumsAny ==
  ASSUME NEW S, IsFiniteSet(S), NEW p, \A x \in S : p[x].size \in Nat
  PROVE  \A s \in SUBSET S : \A y \in s :
           Sums(p, S)[s] = p[y].size + Sums(p, S)[s \ {y}]
<1> DEFINE G == Sums(p, S)
           B == {s \in SUBSET S : \E y \in s : G[s] # p[y].size + G[s \ {y}]}
<1>1. \A s \in SUBSET S : G[s] = IF s = {} THEN 0 ELSE p[Pick(s)].size + G[s \ {Pick(s)}]
  BY SumsAre
<1>2. \A s \in SUBSET S : G[s] \in Nat
  BY SumsNat
<1> HIDE DEF G
<1>3. ASSUME B # {} PROVE FALSE
  <2>1. B \subseteq SUBSET S
    OBVIOUS
  <2>2. PICK s \in B : \A t \in SUBSET s : t # s => t \notin B
    <3> HIDE DEF B
    <3> QED BY <1>3, <2>1, Minimal
  <2>3. PICK y \in s : G[s] # p[y].size + G[s \ {y}]
    OBVIOUS
  <2> DEFINE x == Pick(s)
  <2>4. x \in s /\ s \subseteq S
    BY PickIn
  <2>5. G[s] = p[x].size + G[s \ {x}]
    BY <1>1, <2>4
  <2> HIDE DEF x
  <2>6. x # y
    BY <2>3, <2>5
  <2> DEFINE sx == s \ {x}
             sy == s \ {y}
             r  == s \ {x, y}
  <2>7. /\ sx \in SUBSET s /\ sx # s /\ y \in sx /\ sx \ {y} = r
        /\ sy \in SUBSET s /\ sy # s /\ x \in sy /\ sy \ {x} = r
        /\ r \subseteq S /\ sx \subseteq S /\ sy \subseteq S
    BY <2>4, <2>6
  <2>8. sx \notin B /\ sy \notin B
    <3> HIDE DEF B, sx, sy
    <3> QED BY <2>2, <2>7
  <2>9. \A t \in SUBSET S : t \notin B => \A z \in t : G[t] = p[z].size + G[t \ {z}]
    OBVIOUS
  <2>10. G[sx] = p[y].size + G[r] /\ G[sy] = p[x].size + G[r]
    <3> HIDE DEF B, sx, sy, r
    <3>1. sx \in SUBSET S /\ sy \in SUBSET S
      BY <2>7
    <3> QED BY <2>7, <2>8, <2>9, <3>1
  <2>11. G[r] \in Nat /\ p[x].size \in Nat /\ p[y].size \in Nat
    BY <1>2, <2>4, <2>7
  <2> HIDE DEF r
  <2> QED BY <2>3, <2>5, <2>10, <2>11
<1> QED BY <1>3 DEF G

(* Less of each is less in all.                                            *)
LEMMA SumsMonotonic ==
  ASSUME NEW S, IsFiniteSet(S), NEW p, \A x \in S : p[x].size \in Nat,
         NEW T, IsFiniteSet(T), NEW q, \A x \in T : q[x].size \in Nat,
         NEW R, R \subseteq S \cap T, \A x \in R : q[x].size <= p[x].size
  PROVE  \A s \in SUBSET R : Sums(q, T)[s] <= Sums(p, S)[s]
<1> DEFINE G == Sums(p, S)
           H == Sums(q, T)
           B == {s \in SUBSET R : ~(H[s] <= G[s])}
<1>0. IsFiniteSet(R)
  BY FS_Subset
<1>1. \A s \in SUBSET R : H[s] \in Nat /\ G[s] \in Nat
  <2>1. \A s \in SUBSET S : G[s] \in Nat
    BY SumsNat
  <2>2. \A s \in SUBSET T : H[s] \in Nat
    BY SumsNat
  <2> HIDE DEF G, H
  <2> QED BY <2>1, <2>2
<1>2. /\ \A s \in SUBSET R : G[s] = IF s = {} THEN 0 ELSE p[Pick(s)].size + G[s \ {Pick(s)}]
      /\ \A s \in SUBSET R : H[s] = IF s = {} THEN 0 ELSE q[Pick(s)].size + H[s \ {Pick(s)}]
  <2>1. \A s \in SUBSET S : G[s] = IF s = {} THEN 0 ELSE p[Pick(s)].size + G[s \ {Pick(s)}]
    BY SumsAre
  <2>2. \A s \in SUBSET T : H[s] = IF s = {} THEN 0 ELSE q[Pick(s)].size + H[s \ {Pick(s)}]
    BY SumsAre
  <2> HIDE DEF G, H
  <2> QED BY <2>1, <2>2
<1> HIDE DEF G, H
<1>3. ASSUME B # {} PROVE FALSE
  <2>1. B \subseteq SUBSET R
    OBVIOUS
  <2>2. PICK s \in B : \A t \in SUBSET s : t # s => t \notin B
    <3> HIDE DEF B
    <3> QED BY <1>0, <1>3, <2>1, Minimal
  <2>3. CASE s = {}
    <3>1. s \in SUBSET R /\ ~(H[s] <= G[s])
      BY <2>2
    <3>2. G[s] = 0 /\ H[s] = 0
      BY <1>2, <2>3, <3>1, Zenon
    <3> QED BY <3>1, <3>2
  <2>4. CASE s # {}
    <3> DEFINE x == Pick(s)
    <3>1. x \in s /\ s \subseteq R /\ ~(H[s] <= G[s])
      BY <2>4, PickIn
    <3>2. G[s] = p[x].size + G[s \ {x}] /\ H[s] = q[x].size + H[s \ {x}]
      BY <1>2, <2>4
    <3> HIDE DEF x
    <3>3. s \ {x} \in SUBSET s /\ s \ {x} # s /\ s \ {x} \in SUBSET R
      BY <3>1
    <3>4. H[s \ {x}] <= G[s \ {x}]
      BY <2>2, <3>3
    <3>5. H[s \ {x}] \in Nat /\ G[s \ {x}] \in Nat
      BY <1>1, <3>3
    <3>6. q[x].size \in Nat /\ p[x].size \in Nat /\ q[x].size <= p[x].size
      BY <3>1
    <3> QED BY <3>1, <3>2, <3>4, <3>5, <3>6
  <2> QED BY <2>3, <2>4
<1> QED BY <1>3 DEF G, H

LEMMA SumsOfParts ==
  ASSUME NEW S, IsFiniteSet(S), NEW p, \A x \in S : p[x].size \in Nat
  PROVE  \A s \in SUBSET S : Sums(p, S)[s] <= Sums(p, S)[S]
<1> DEFINE G == Sums(p, S)
           B == {s \in SUBSET S : \E t \in SUBSET s : ~(G[t] <= G[s])}
<1>1. \A s \in SUBSET S : G[s] \in Nat
  BY SumsNat
<1>2. \A s \in SUBSET S : \A y \in s : G[s] = p[y].size + G[s \ {y}]
  <2>1. ASSUME NEW s \in SUBSET S, NEW y \in s
        PROVE  Sums(p, S)[s] = p[y].size + Sums(p, S)[s \ {y}]
    BY SumsAny
  <2> QED BY <2>1
<1> HIDE DEF G
<1>3. ASSUME B # {} PROVE FALSE
  <2>1. B \subseteq SUBSET S
    OBVIOUS
  <2>2. PICK s \in B : \A t \in SUBSET s : t # s => t \notin B
    <3> HIDE DEF B
    <3> QED BY <1>3, <2>1, Minimal
  <2>3. PICK t \in SUBSET s : ~(G[t] <= G[s])
    OBVIOUS
  <2>4. s \subseteq S
    OBVIOUS
  <2>5. G[t] \in Nat /\ G[s] \in Nat
    BY <1>1, <2>4
  <2>6. PICK y \in s : y \notin t
    BY <2>3, <2>5
  <2> DEFINE sy == s \ {y}
  <2>7. sy \in SUBSET s /\ sy # s /\ t \in SUBSET sy /\ sy \in SUBSET S
    BY <2>4, <2>6
  <2>8. G[s] = p[y].size + G[sy] /\ p[y].size \in Nat
    BY <1>2, <2>4
  <2> HIDE DEF sy
  <2>9. G[sy] \in Nat
    BY <1>1, <2>7
  <2>10. G[t] <= G[sy]
    BY <2>2, <2>7
  <2> QED BY <2>3, <2>5, <2>8, <2>9, <2>10
<1> QED BY <1>3 DEF G
-----------------------------------------------------------------------------
LEMMA SizeNat ==
  ASSUME NEW S, IsFiniteSet(S), NEW p, \A x \in S : p[x].size \in Nat
  PROVE  SizeOf(p, S) \in Nat
BY SumsNat DEF SizeOf

LEMMA SizeMonotonic ==
  ASSUME NEW S, IsFiniteSet(S), NEW p, \A x \in S : p[x].size \in Nat,
         NEW T, T \subseteq S, NEW q, \A x \in T : q[x].size \in Nat,
         \A x \in T : q[x].size <= p[x].size
  PROVE  SizeOf(q, T) <= SizeOf(p, S)
<1>1. IsFiniteSet(T)
  BY FS_Subset
<1>2. Sums(q, T)[T] <= Sums(p, S)[T]
  BY <1>1, SumsMonotonic
<1>3. Sums(p, S)[T] <= Sums(p, S)[S]
  BY SumsOfParts
<1>4. Sums(q, T)[T] \in Nat /\ Sums(p, S)[T] \in Nat /\ Sums(p, S)[S] \in Nat
  <2>1. Sums(q, T)[T] \in Nat
    BY <1>1, SumsNat
  <2>2. Sums(p, S)[T] \in Nat /\ Sums(p, S)[S] \in Nat
    BY SumsNat
  <2> QED BY <2>1, <2>2
<1> QED BY <1>2, <1>3, <1>4 DEF SizeOf

LEMMA SizeWithout ==
  ASSUME NEW S, IsFiniteSet(S), NEW p, \A x \in S : p[x].size \in Nat, NEW y \in S
  PROVE  SizeOf(p, S) = p[y].size + SizeOf(p, S \ {y})
<1> DEFINE T == S \ {y}
<1>1. IsFiniteSet(T) /\ T \subseteq S /\ (\A x \in T : p[x].size \in Nat)
  BY FS_Subset
<1>2. SizeOf(p, S) = p[y].size + Sums(p, S)[T]
  BY SumsAny DEF SizeOf
<1> HIDE DEF T
<1>3. Sums(p, T)[T] <= Sums(p, S)[T] /\ Sums(p, S)[T] <= Sums(p, T)[T]
  <2>1. \A x \in T : p[x].size <= p[x].size
    BY <1>1
  <2>2. T \subseteq S \cap T /\ T \subseteq T \cap S
    BY <1>1
  <2>3. Sums(p, T)[T] <= Sums(p, S)[T]
    BY <1>1, <2>1, <2>2, SumsMonotonic
  <2>4. Sums(p, S)[T] <= Sums(p, T)[T]
    BY <1>1, <2>1, <2>2, SumsMonotonic
  <2> QED BY <2>3, <2>4
<1>4. Sums(p, S)[T] \in Nat /\ Sums(p, T)[T] \in Nat
  <2>1. Sums(p, S)[T] \in Nat
    BY <1>1, SumsNat
  <2> QED BY <1>1, <2>1, SumsNat
<1> QED BY <1>2, <1>3, <1>4 DEF SizeOf, T

LEMMA SizeOfNone == ASSUME NEW p PROVE SizeOf(p, {}) = 0
<1>1. IsFiniteSet({}) /\ {} \in SUBSET {}
  BY FS_EmptySet
<1>2. Sums(p, {})[{}] = IF {} = {} THEN 0 ELSE p[Pick({})].size + Sums(p, {})[{} \ {Pick({})}]
  BY <1>1, SumsAre
<1> QED BY <1>2 DEF SizeOf

LEMMA ExposureIsNext == TotalExposure' = SizeOf(pos', open')
BY Zenon DEF TotalExposure, MapThenSumSet, MapThenFoldSet, SizeOf, Sums, IsSums, Pick
-----------------------------------------------------------------------------
(* What the budget was read for: the lots of the entry under way still fit *)
(* on top of the book, and its position never becomes larger than they are.*)
EntryBudget == trader.pc \in Entering => trader.lots + TotalExposure <= MaxExposure
EntrySize   == trader.pc \in {"placing", "placed", "persisted"} =>
                 pos[trader.id].size <= trader.lots

ExposureInv == EntryBudget /\ EntrySize /\ ExposureWithinCap

EntryUntracked == trader.pc \in Entering => trader.id \notin open

(* The assumption: after an order whose outcome is unknown the exchange    *)
(* holds on that market no more than the order asked for.                  *)
AdoptsNoMore == trader.pc = "verify" => exch[trader.mkt] <= trader.lots

LEMMA Sizes ==
  ASSUME Typed
  PROVE  /\ \A id \in Ids : pos[id].size \in Nat /\ row[id].size \in Nat
         /\ IsFiniteSet(open) /\ IsFiniteSet(OpenRows)
         /\ open \subseteq Ids /\ OpenRows \subseteq Ids
         /\ trader.lots \in Nat /\ MaxExposure \in Nat
         /\ TotalExposure = SizeOf(pos, open) /\ TotalExposure \in Nat
<1>1. \A id \in Ids : pos[id].size \in Nat /\ row[id].size \in Nat
  BY DEF Typed, TypeOK, MemoryOK, WorldOK, Position
<1>2. /\ IsFiniteSet(open) /\ IsFiniteSet(OpenRows)
      /\ open \subseteq Ids /\ OpenRows \subseteq Ids
  BY ConstantsAssumption, FS_Subset DEF Typed, TypeOK, MemoryOK, OpenRows
<1>3. trader.lots \in Nat /\ MaxExposure \in Nat
  BY ConstantsAssumption DEF Typed, TypeOK, TraderState
<1>4. TotalExposure = SizeOf(pos, open)
  BY ExposureIs
<1>5. TotalExposure \in Nat
  BY <1>1, <1>2, <1>4, SizeNat
<1> QED BY <1>1, <1>2, <1>3, <1>4, <1>5

LEMMA SizesNext ==
  ASSUME Typed'
  PROVE  /\ \A id \in Ids : pos'[id].size \in Nat /\ row'[id].size \in Nat
         /\ IsFiniteSet(open') /\ open' \subseteq Ids /\ trader'.lots \in Nat
         /\ TotalExposure' = SizeOf(pos', open') /\ TotalExposure' \in Nat
<1>1. \A id \in Ids : pos'[id].size \in Nat /\ row'[id].size \in Nat
  BY DEF Typed, TypeOK, MemoryOK, WorldOK, Position
<1>2. IsFiniteSet(open') /\ open' \subseteq Ids
  BY ConstantsAssumption, FS_Subset DEF Typed, TypeOK, MemoryOK
<1>3. trader'.lots \in Nat
  BY DEF Typed, TypeOK, TraderState
<1>4. TotalExposure' = SizeOf(pos', open')
  BY ExposureIsNext
<1>5. TotalExposure' \in Nat
  BY <1>1, <1>2, <1>4, SizeNat
<1> QED BY <1>1, <1>2, <1>3, <1>4, <1>5

(* The book grows no larger, and the entry under way asks for no more.     *)
LEMMA ExposureShrinks ==
  ASSUME Typed, Typed', ExposureInv, open' \subseteq open,
         \A id \in open : pos'[id].size <= pos[id].size,
         trader'.pc \in Entering => trader.pc \in Entering /\ trader'.lots <= trader.lots,
         EntrySize'
  PROVE  ExposureInv'
<1>1. SizeOf(pos', open') <= SizeOf(pos, open)
  <2>1. /\ IsFiniteSet(open) /\ \A x \in open : pos[x].size \in Nat
        /\ \A x \in open' : pos'[x].size \in Nat /\ pos'[x].size <= pos[x].size
    BY Sizes, SizesNext
  <2> QED BY <2>1, SizeMonotonic
<1>2. TotalExposure' <= TotalExposure
  BY <1>1, ExposureIs, ExposureIsNext
<1>3. /\ TotalExposure \in Nat /\ TotalExposure' \in Nat /\ trader.lots \in Nat
      /\ trader'.lots \in Nat /\ MaxExposure \in Nat
  BY Sizes, SizesNext
<1>4. EntryBudget'
  BY <1>2, <1>3 DEF ExposureInv, EntryBudget
<1>5. ExposureWithinCap'
  BY <1>2, <1>3 DEF ExposureInv, ExposureWithinCap
<1> QED BY <1>4, <1>5 DEF ExposureInv

(* A step that makes no position larger and leaves the trade section alone.*)
Lessens == /\ open' \subseteq open
           /\ \A id \in Ids : pos'[id].size <= pos[id].size
           /\ trader' = trader \/ trader' = TraderIdle

LEMMA LessensSafe ==
  ASSUME Typed, Typed', ExposureInv, Lessens PROVE ExposureInv'
<1>1. open \subseteq Ids
  BY Sizes
<1>2. trader'.pc \in Entering => trader' = trader
  BY DEF Lessens, TraderIdle, Entering
<1>3. trader'.pc \in {"placing", "placed", "persisted"} => trader'.pc \in Entering
  BY DEF Entering
<1>4. EntrySize'
  <2> SUFFICES ASSUME trader'.pc \in {"placing", "placed", "persisted"}
               PROVE  pos'[trader'.id].size <= trader'.lots
    BY DEF EntrySize
  <2>1. trader' = trader /\ trader.id \in Ids
    BY <1>2, <1>3 DEF Typed, Refs, TraderRefs, Used
  <2>2. pos[trader.id].size <= trader.lots
    BY <2>1 DEF ExposureInv, EntrySize
  <2>3. /\ pos'[trader.id].size <= pos[trader.id].size
        /\ pos'[trader.id].size \in Nat /\ pos[trader.id].size \in Nat /\ trader.lots \in Nat
    BY <2>1, Sizes, SizesNext DEF Lessens
  <2> QED BY <2>1, <2>2, <2>3
<1>5. \A id \in open : pos'[id].size <= pos[id].size
  BY <1>1 DEF Lessens
<1>6. trader'.pc \in Entering => trader.pc \in Entering /\ trader'.lots <= trader.lots
  BY <1>2, Sizes
<1>7. open' \subseteq open
  BY DEF Lessens
<1> QED BY <1>4, <1>5, <1>6, <1>7, ExposureShrinks

LEMMA SameSizes ==
  ASSUME Typed, pos' = pos PROVE \A id \in Ids : pos'[id].size <= pos[id].size
BY Sizes

LEMMA RecordedLessens ==
  ASSUME Typed, NEW id \in Ids, MarkRecorded(id)
  PROVE  \A x \in Ids : pos'[x].size <= pos[x].size
BY Sizes DEF MarkRecorded, Recorded, Typed, TypeOK, MemoryOK, Position
-----------------------------------------------------------------------------
(* Nothing but the trade section makes a position larger.                  *)
LEMMA CloserLessens ==
  ASSUME Typed, NEW c \in Closers, CloserStep(c) PROVE Lessens
<1> DEFINE id == closer[c].id
<1>1. CASE ExecuteClose(c) \/ CloseUnfilled(c) \/ PaperPriceRaises(c) \/ CloseRaises(c)
           \/ FinishPartial(c)
  BY <1>1, SameSizes
     DEF ExecuteClose, CloseUnfilled, PaperPriceRaises, CloseRaises, FinishPartial,
         memory, Lessens
<1>2. CASE FinishClose(c)
  BY <1>2, SameSizes DEF FinishClose, Drop, Lessens
<1>3. CASE ClosePartial(c)
  <2>1. Used(id) /\ pos \in [Ids -> Position] /\ closer[c].fill \in Nat
    BY <1>3 DEF ClosePartial, Typed, TypeOK, MemoryOK, Refs, CloserRefs, CloserState
  <2>2. UNCHANGED <<open, trader>> /\ pos' = [pos EXCEPT ![id] = Sliced(id, closer[c].fill)]
        /\ closer[c].fill < pos[id].size
    BY <1>3 DEF ClosePartial
  <2>3. Sliced(id, closer[c].fill).size = pos[id].size - closer[c].fill
    BY <2>1 DEF Sliced, Used, Position
  <2>4. \A x \in Ids : pos'[x].size <= pos[x].size
    BY <2>1, <2>2, <2>3, Sizes DEF Used
  <2> QED BY <2>2, <2>4 DEF Lessens
<1>4. CASE CloseFilled(c)
  <2>1. Used(id) /\ pos \in [Ids -> Position]
    BY <1>4 DEF CloseFilled, Typed, TypeOK, MemoryOK, Refs, CloserRefs
  <2>2. UNCHANGED <<open, trader>> /\ pos' = [pos EXCEPT ![id].stop = FALSE]
    BY <1>4 DEF CloseFilled
  <2>3. \A x \in Ids : pos'[x].size <= pos[x].size
    BY <2>1, <2>2, Sizes DEF Used, Position
  <2> QED BY <2>2, <2>3 DEF Lessens
<1>5. CASE RecordClose(c)
  <2>1. id \in Ids /\ UNCHANGED <<open, trader>>
    BY <1>5 DEF RecordClose, Typed, Refs, CloserRefs, Used
  <2>2. pos' = pos \/ MarkRecorded(id)
    BY <1>5 DEF RecordClose
  <2> QED BY <2>1, <2>2, SameSizes, RecordedLessens DEF Lessens
<1> QED BY <1>1, <1>2, <1>3, <1>4, <1>5 DEF CloserStep

LEMMA MonitorLessens == ASSUME Typed, MonitorStep PROVE Lessens
<1>1. CASE MonitorLooks
  BY <1>1, SameSizes
     DEF MonitorLooks, FetchStates, StartReconcile, ReconcileSkip, ReconcilePresent,
         ReconcileMiss, ScanSkip, ScanAsk, StartScan, ScanRaises, EndScan, memory, Lessens
<1>2. ASSUME NEW id \in Ids, ReconcileGone(id) PROVE Lessens
  <2>1. UNCHANGED <<open, trader>> /\ (pos' = pos \/ MarkRecorded(id))
    BY <1>2 DEF ReconcileGone
  <2> QED BY <2>1, SameSizes, RecordedLessens DEF Lessens
<1>3. CASE FinishMark \/ ScanExit \/ ScanKeep
  BY <1>3, SameSizes DEF FinishMark, ScanExit, ScanKeep, Drop, memory, Lessens
<1> QED BY <1>1, <1>2, <1>3 DEF MonitorStep, MonitorLooks

LEMMA WorldLessens == ASSUME Typed, World PROVE Lessens
BY SameSizes DEF World, Expire, ExchangeFlattens, Crash, memory, tasks, Lessens

LEMMA RequestLessens ==
  ASSUME Typed, \E id \in Ids : ContraryClose(id) \/ \E u \in Users : UserClose(u, id)
  PROVE  Lessens
BY SameSizes DEF ContraryClose, UserClose, Lessens

LEMMA LessFits ==
  ASSUME NEW a \in Nat, NEW b \in Nat, NEW c \in Nat, NEW d \in Nat, b <= c, a + c <= d
  PROVE  b <= d /\ a + b <= d
OBVIOUS

LEMMA TraderExposure ==
  ASSUME Typed, Typed', ExposureInv, EntryUntracked, AdoptsNoMore, TraderStep
  PROVE  ExposureInv'
<1>0. trader \in TraderState /\ pos \in [Ids -> Position]
  BY DEF Typed, TypeOK, MemoryOK
<1>1. CASE RejectTrade
  BY <1>1, SameSizes, LessensSafe DEF RejectTrade, memory, Lessens
<1>2. CASE PassCaps
  <2>1. UNCHANGED <<pos, open>> /\ trader'.pc \notin Entering
    BY <1>0, <1>2 DEF PassCaps, memory, TraderState, Entering
  <2>2. EntrySize'
    BY <2>1 DEF EntrySize, Entering
  <2>3. \A id \in open : pos'[id].size <= pos[id].size
    BY <2>1, Sizes
  <2> QED BY <2>1, <2>2, <2>3, ExposureShrinks
<1>3. ASSUME NEW id \in Ids, NEW lots \in 1 .. MaxLots, NEW mode \in Modes,
             SendOrder(id, lots, mode)
      PROVE  ExposureInv'
  <2>1. /\ open' = open /\ id \notin open /\ lots + TotalExposure <= MaxExposure
        /\ trader'.lots = lots /\ trader'.id = id
        /\ \A x \in Ids : x # id => pos'[x] = pos[x]
    BY <1>0, <1>3 DEF SendOrder, WithinBudget, TraderState, Typed, Refs, BookRefs, Used
  <2>2. pos'[id].size = lots
    BY <1>0, <1>3 DEF SendOrder, Unused
  <2>3. lots \in Nat
    BY ConstantsAssumption
  <2>4. SizeOf(pos', open') <= SizeOf(pos, open)
    <3>1. /\ IsFiniteSet(open) /\ \A x \in open : pos[x].size \in Nat
          /\ \A x \in open' : pos'[x].size \in Nat /\ pos'[x].size <= pos[x].size
      BY <2>1, Sizes, SizesNext
    <3> QED BY <2>1, <3>1, SizeMonotonic
  <2>5. TotalExposure' <= TotalExposure
    BY <2>4, ExposureIs, ExposureIsNext
  <2>6. TotalExposure \in Nat /\ TotalExposure' \in Nat /\ MaxExposure \in Nat
    BY Sizes, SizesNext
  <2>7. EntryBudget' /\ ExposureWithinCap'
    <3>1. TotalExposure' <= MaxExposure /\ lots + TotalExposure' <= MaxExposure
      BY <2>1, <2>3, <2>5, <2>6, LessFits
    <3>2. trader'.lots + TotalExposure' <= MaxExposure
      BY <2>1, <3>1
    <3>3. EntryBudget'
      BY <3>2 DEF EntryBudget
    <3> QED BY <3>1, <3>3 DEF ExposureWithinCap
  <2>8. EntrySize'
    BY <2>1, <2>2, <2>3 DEF EntrySize
  <2> QED BY <2>7, <2>8 DEF ExposureInv
<1>4. CASE ExecuteOpen
  <2>1. PICK fill \in 0 .. trader.lots :
          \/ trader' = [trader EXCEPT !.pc = "replied", !.lots = fill]
          \/ trader' = [trader EXCEPT !.pc = "verify"]
    BY <1>4 DEF ExecuteOpen
  <2>2. UNCHANGED <<pos, open>> /\ trader.pc = "sent"
    BY <1>4 DEF ExecuteOpen, memory
  <2>3. trader'.pc \in {"replied", "verify"} /\ trader'.lots <= trader.lots
    <3>1. trader.lots \in Nat
      BY Sizes
    <3>2. fill \in Nat /\ fill <= trader.lots
      BY <3>1
    <3>3. CASE trader' = [trader EXCEPT !.pc = "replied", !.lots = fill]
      BY <1>0, <3>2, <3>3 DEF TraderState
    <3>4. CASE trader' = [trader EXCEPT !.pc = "verify"]
      BY <1>0, <3>1, <3>4 DEF TraderState
    <3> QED BY <2>1, <3>3, <3>4
  <2>4. EntrySize'
    BY <2>3 DEF EntrySize
  <2>5. \A id \in open : pos'[id].size <= pos[id].size
    BY <2>2, Sizes
  <2> QED BY <2>2, <2>3, <2>4, <2>5, ExposureShrinks DEF Entering
<1>5. CASE OpenReply
  <2>1. trader.pc \in Entering /\ trader.id \in Ids /\ trader.id \notin open /\ open' = open
    BY <1>5 DEF OpenReply, Entering, EntryUntracked, Typed, Refs, TraderRefs, Used
  <2>2. CASE trader.lots = 0
    BY <1>5, <2>1, <2>2, SameSizes, LessensSafe DEF OpenReply, Lessens
  <2>3. CASE trader.lots # 0
    <3>1. /\ trader' = [trader EXCEPT !.pc = "placing"]
          /\ pos' = [pos EXCEPT ![trader.id].size = trader.lots]
      BY <1>5, <2>3 DEF OpenReply
    <3>2. trader'.lots = trader.lots /\ trader'.id = trader.id
      BY <1>0, <3>1 DEF TraderState
    <3>3. /\ pos'[trader.id].size = trader.lots
          /\ \A x \in Ids : x # trader.id => pos'[x] = pos[x]
      BY <1>0, <2>1, <3>1 DEF Position
    <3>4. EntrySize'
      BY <3>2, <3>3, Sizes DEF EntrySize
    <3>5. \A id \in open : pos'[id].size <= pos[id].size
      BY <2>1, <3>3, Sizes
    <3>6. trader'.lots <= trader.lots
      BY <3>2, Sizes
    <3> QED BY <2>1, <3>4, <3>5, <3>6, ExposureShrinks
  <2> QED BY <2>2, <2>3
<1>6. CASE VerifyOrder
  <2> DEFINE held == exch[trader.mkt]
  <2>1. /\ trader.pc \in Entering /\ trader.id \in Ids /\ trader.id \notin open
        /\ open' = open /\ held \in Nat /\ held <= trader.lots
    BY <1>6 DEF VerifyOrder, Entering, EntryUntracked, AdoptsNoMore, Typed, TypeOK,
                WorldOK, Refs, TraderRefs, Used
  <2>2. CASE trader' = TraderIdle /\ pos' = pos
    BY <2>1, <2>2, SameSizes, LessensSafe DEF Lessens
  <2>3. CASE /\ trader' = [trader EXCEPT !.pc = "placing", !.lots = held]
             /\ pos' = [pos EXCEPT ![trader.id].size = held]
    <3> HIDE DEF held
    <3>2. trader'.lots = held /\ trader'.id = trader.id
      BY <1>0, <2>3 DEF TraderState
    <3>3. /\ pos'[trader.id].size = held
          /\ \A x \in Ids : x # trader.id => pos'[x] = pos[x]
      BY <1>0, <2>1, <2>3 DEF Position
    <3>4. EntrySize'
      BY <2>1, <3>2, <3>3 DEF EntrySize
    <3>5. \A id \in open : pos'[id].size <= pos[id].size
      BY <2>1, <3>3, Sizes
    <3> QED BY <2>1, <3>2, <3>4, <3>5, ExposureShrinks
  <2> QED BY <1>6, <2>2, <2>3 DEF VerifyOrder
<1>7. CASE PlaceStop \/ PersistOpen
  <2>1. /\ trader.pc \in {"placing", "placed"} /\ open' = open
        /\ trader'.pc \in Entering /\ trader'.lots = trader.lots /\ trader'.id = trader.id
    BY <1>0, <1>7 DEF PlaceStop, PersistOpen, TraderState, Entering, memory
  <2>2. trader.pc \in Entering /\ trader.id \in Ids
    BY <2>1 DEF Entering, Typed, Refs, TraderRefs, Used
  <2>3. \A x \in Ids : pos'[x].size = pos[x].size
    <3>1. pos' = pos \/ pos' = [pos EXCEPT ![trader.id].stop = TRUE]
      BY <1>7 DEF PlaceStop, PersistOpen, memory
    <3> QED BY <1>0, <2>2, <3>1 DEF Position
  <2>4. EntrySize'
    BY <2>1, <2>2, <2>3 DEF ExposureInv, EntrySize
  <2>5. \A id \in open : pos'[id].size <= pos[id].size
    BY <2>3, Sizes
  <2> QED BY <2>1, <2>2, <2>4, <2>5, Sizes, ExposureShrinks
<1>8. CASE Track
  <2> DEFINE p == pos[trader.id]
  <2>1. /\ trader.pc \in Entering /\ trader.id \in Ids /\ trader.id \notin open
        /\ open' = open \cup {trader.id} /\ pos' = pos /\ trader' = TraderIdle
    BY <1>8 DEF Track, Entering, EntryUntracked, Typed, Refs, TraderRefs, Used
  <2>2. p.size <= trader.lots /\ trader.lots + TotalExposure <= MaxExposure
    BY <1>8, <2>1 DEF Track, ExposureInv, EntrySize, EntryBudget
  <2>3. SizeOf(pos', open') = p.size + SizeOf(pos, open)
    <3>1. open' \ {trader.id} = open
      BY <2>1
    <3>2. SizeOf(pos', open') = pos'[trader.id].size + SizeOf(pos', open' \ {trader.id})
      <4>1. IsFiniteSet(open') /\ (\A x \in open' : pos'[x].size \in Nat) /\ trader.id \in open'
        BY <2>1, SizesNext
      <4> QED BY <4>1, SizeWithout
    <3> QED BY <2>1, <3>1, <3>2
  <2>4. TotalExposure' = p.size + TotalExposure
    BY <2>3, ExposureIs, ExposureIsNext
  <2>5. /\ p.size \in Nat /\ trader.lots \in Nat /\ TotalExposure \in Nat
        /\ MaxExposure \in Nat
    BY <2>1, Sizes
  <2> HIDE DEF p
  <2>6. ExposureWithinCap'
    BY <2>2, <2>4, <2>5 DEF ExposureWithinCap
  <2>7. EntryBudget' /\ EntrySize'
    BY <2>1 DEF EntryBudget, EntrySize, TraderIdle, Entering
  <2> QED BY <2>6, <2>7 DEF ExposureInv
<1> QED BY <1>1, <1>2, <1>3, <1>4, <1>5, <1>6, <1>7, <1>8 DEF TraderStep

(* Every step but a restart.                                               *)
LEMMA ExposureKept ==
  ASSUME Typed, Typed', ExposureInv, EntryUntracked, AdoptsNoMore, [Next]_vars, ~Restart
  PROVE  ExposureInv'
<1>1. CASE Request
  <2>1. ASSUME NEW m \in Markets, StartTrade(m) PROVE ExposureInv'
    <3>1. UNCHANGED <<pos, open>> /\ trader'.pc = "gate"
      BY <2>1 DEF StartTrade, TraderIdle, memory
    <3>2. EntrySize' /\ trader'.pc \notin Entering
      BY <3>1 DEF EntrySize, Entering
    <3>3. \A id \in open : pos'[id].size <= pos[id].size
      BY <3>1, Sizes
    <3> QED BY <3>1, <3>2, <3>3, ExposureShrinks
  <2>2. CASE \E id \in Ids : ContraryClose(id) \/ \E u \in Users : UserClose(u, id)
    BY <2>2, RequestLessens, LessensSafe
  <2> QED BY <1>1, <2>1, <2>2 DEF Request
<1>2. CASE TraderStep BY <1>2, TraderExposure
<1>3. ASSUME NEW c \in Closers, CloserStep(c) PROVE ExposureInv'
  BY <1>3, CloserLessens, LessensSafe
<1>4. CASE MonitorStep BY <1>4, MonitorLessens, LessensSafe
<1>5. CASE World BY <1>5, WorldLessens, LessensSafe
<1>6. CASE UNCHANGED vars
  BY <1>6, SameSizes, LessensSafe DEF vars, memory, tasks, Lessens
<1> QED BY <1>1, <1>2, <1>3, <1>4, <1>5, <1>6 DEF Next

LEMMA InitExposure == Init => ExposureInv
<1> SUFFICES ASSUME Init PROVE ExposureInv
  OBVIOUS
<1>1. TotalExposure = 0
  BY ExposureIs, SizeOfNone DEF Init
<1>2. trader.pc = "idle"
  BY DEF Init, TraderIdle
<1> QED BY <1>1, <1>2, ConstantsAssumption
        DEF ExposureInv, EntryBudget, EntrySize, ExposureWithinCap, Entering
-----------------------------------------------------------------------------
(* While the process is down the table holds no more than the budget: what *)
(* a restart brings back fits.                                             *)
RowExposure == ~up => SizeOf(row, OpenRows) <= MaxExposure

(* A crash leaves behind the rows of the book, and at most that of the     *)
(* entry under way.                                                        *)
LEMMA CrashFits ==
  ASSUME Typed, IInv, ExposureInv, up PROVE SizeOf(row, OpenRows) <= MaxExposure
<1>1. /\ IsFiniteSet(open) /\ IsFiniteSet(OpenRows) /\ open \subseteq Ids /\ OpenRows \subseteq Ids
      /\ \A x \in Ids : pos[x].size \in Nat /\ row[x].size \in Nat
      /\ TotalExposure = SizeOf(pos, open) /\ TotalExposure \in Nat
      /\ trader.lots \in Nat /\ MaxExposure \in Nat
  BY Sizes
<1>2. \A x \in OpenRows : (x \in open \/ Persisted(x)) /\ row[x].size = pos[x].size
  BY <1>1 DEF IInv, BookInv, RowsTracked, RowsAgree, Agree
<1>3. CASE trader.pc # "persisted"
  <2>1. OpenRows \subseteq open /\ \A x \in OpenRows : row[x].size <= pos[x].size
    BY <1>1, <1>2, <1>3 DEF Persisted
  <2>2. SizeOf(row, OpenRows) <= SizeOf(pos, open)
    BY <1>1, <2>1, SizeMonotonic
  <2>3. SizeOf(row, OpenRows) \in Nat
    BY <1>1, SizeNat
  <2> QED BY <1>1, <2>2, <2>3 DEF ExposureInv, ExposureWithinCap
<1>4. CASE trader.pc = "persisted"
  <2> DEFINE S == open \cup {trader.id}
  <2>1. trader.id \in Ids /\ trader.id \notin open
    BY <1>4 DEF Typed, Refs, TraderRefs, Used, IInv, EntryInv, EntryNew, Entering
  <2>2. IsFiniteSet(S) /\ S \ {trader.id} = open /\ S \subseteq Ids /\ trader.id \in S
    BY <1>1, <2>1, FS_AddElement
  <2>3. OpenRows \subseteq S /\ \A x \in OpenRows : row[x].size <= pos[x].size
    BY <1>1, <1>2 DEF Persisted
  <2> HIDE DEF S
  <2>4. SizeOf(row, OpenRows) <= SizeOf(pos, S)
    <3>1. \A x \in S : pos[x].size \in Nat
      BY <1>1, <2>2
    <3>2. \A x \in OpenRows : row[x].size \in Nat
      BY <1>1
    <3> QED BY <2>2, <2>3, <3>1, <3>2, SizeMonotonic
  <2>5. SizeOf(pos, S) = pos[trader.id].size + SizeOf(pos, open)
    <3>1. \A x \in S : pos[x].size \in Nat
      BY <1>1, <2>2
    <3>2. SizeOf(pos, S) = pos[trader.id].size + SizeOf(pos, S \ {trader.id})
      BY <2>2, <3>1, SizeWithout
    <3> QED BY <2>2, <3>2
  <2>6. pos[trader.id].size <= trader.lots /\ trader.lots + TotalExposure <= MaxExposure
    BY <1>4 DEF ExposureInv, EntryBudget, EntrySize, Entering
  <2>7. SizeOf(row, OpenRows) \in Nat /\ pos[trader.id].size \in Nat
    BY <1>1, <2>1, SizeNat
  <2>8. SizeOf(pos, S) = pos[trader.id].size + TotalExposure
    BY <1>1, <2>5
  <2> QED BY <1>1, <2>4, <2>6, <2>7, <2>8
<1> QED BY <1>3, <1>4

(* Only a crash takes the process down, and nothing is written while it is.*)
LEMMA DownBy == ASSUME [Next]_vars, ~up' PROVE Crash \/ UNCHANGED <<up, row>>
<1>1. CASE Request
  BY <1>1 DEF Request, StartTrade, ContraryClose, UserClose, TraderFree
<1>2. CASE TraderStep
  <2>1. CASE PassCaps \/ RejectTrade \/ ExecuteOpen \/ OpenReply
    BY <2>1 DEF PassCaps, RejectTrade, ExecuteOpen, OpenReply
  <2>2. ASSUME NEW id \in Ids, NEW lots \in 1 .. MaxLots, NEW mode \in Modes,
               SendOrder(id, lots, mode)
        PROVE  FALSE
    BY <2>2 DEF SendOrder
  <2>3. CASE VerifyOrder \/ PlaceStop \/ PersistOpen \/ Track
    BY <2>3 DEF VerifyOrder, PlaceStop, PersistOpen, Track
  <2> QED BY <1>2, <2>1, <2>2, <2>3 DEF TraderStep
<1>3. ASSUME NEW c \in Closers, CloserStep(c) PROVE UNCHANGED <<up, row>>
  <2>0. CASE ExecuteClose(c)
    BY <2>0, Zenon DEF ExecuteClose
  <2>1. CASE CloseUnfilled(c) \/ ClosePartial(c) \/ CloseFilled(c)
    BY <2>1 DEF CloseUnfilled, ClosePartial, CloseFilled
  <2>2. CASE RecordClose(c) \/ PaperPriceRaises(c)
    BY <2>2 DEF RecordClose, PaperPriceRaises
  <2>3. CASE FinishClose(c) \/ CloseRaises(c) \/ FinishPartial(c)
    BY <2>3 DEF FinishClose, CloseRaises, FinishPartial
  <2> QED BY <1>3, <2>0, <2>1, <2>2, <2>3 DEF CloserStep
<1>4. CASE MonitorStep
  <2>1. CASE MonitorLooks
    BY <2>1 DEF MonitorLooks, FetchStates, StartReconcile, ReconcileSkip,
                ReconcilePresent, ReconcileMiss, ScanSkip, ScanAsk, StartScan, ScanRaises,
                EndScan
  <2>2. CASE (\E id \in Ids : ReconcileGone(id)) \/ FinishMark \/ ScanExit \/ ScanKeep
    BY <2>2 DEF ReconcileGone, FinishMark, ScanExit, ScanKeep, MonitorAt
  <2> QED BY <1>4, <2>1, <2>2 DEF MonitorStep, MonitorLooks
<1>5. CASE World
  BY <1>5 DEF World, Expire, ExchangeFlattens
<1>6. CASE Restart
  BY <1>6 DEF Restart
<1>7. CASE UNCHANGED vars
  BY <1>7 DEF vars
<1> QED BY <1>1, <1>2, <1>3, <1>4, <1>5, <1>6, <1>7 DEF Next

LEMMA RowExposureKept ==
  ASSUME Typed, IInv, ExposureInv, RowExposure, [Next]_vars PROVE RowExposure'
<1> SUFFICES ASSUME ~up' PROVE SizeOf(row', OpenRows') <= MaxExposure
  BY DEF RowExposure
<1>1. CASE Crash
  <2>1. row' = row /\ OpenRows' = OpenRows /\ up
    BY <1>1 DEF Crash, OpenRows
  <2> QED BY <2>1, CrashFits
<1>2. CASE UNCHANGED <<up, row>>
  <2>1. OpenRows' = OpenRows
    BY <1>2 DEF OpenRows
  <2> QED BY <1>2, <2>1 DEF RowExposure
<1> QED BY <1>1, <1>2, DownBy

LEMMA RestartFits ==
  ASSUME Typed, Typed', IInv, RowExposure, Restart PROVE ExposureInv'
<1>1. /\ ~up /\ open' = OpenRows /\ trader' = trader /\ trader.pc = "idle"
      /\ \A x \in OpenRows : pos'[x] = row[x]
  BY DEF Restart, tasks, IInv, BookInv, DownIdle, OpenRows
<1>2. SizeOf(pos', open') <= SizeOf(row, OpenRows)
  <2>1. /\ IsFiniteSet(OpenRows) /\ \A x \in OpenRows : row[x].size \in Nat
        /\ \A x \in open' : pos'[x].size \in Nat
    BY Sizes, SizesNext
  <2>2. \A x \in open' : pos'[x].size <= row[x].size
    BY <1>1, <2>1
  <2> QED BY <1>1, <2>1, <2>2, SizeMonotonic
<1>3. SizeOf(row, OpenRows) \in Nat
  BY Sizes, SizeNat
<1>4. ExposureWithinCap'
  <2>1. TotalExposure' \in Nat /\ TotalExposure' = SizeOf(pos', open') /\ MaxExposure \in Nat
    BY Sizes, SizesNext
  <2> QED BY <1>1, <1>2, <1>3, <2>1 DEF RowExposure, ExposureWithinCap
<1> QED BY <1>1, <1>4 DEF ExposureInv, EntryBudget, EntrySize, Entering

(* max_total_exposure holds although partial fills, partial closes and     *)
(* adopted fills change sizes after the budget was read, and a crash       *)
(* between any two steps: every write succeeding, and an order of unknown  *)
(* outcome never having left more on the exchange than it asked for        *)
(* (executor.py adopts whatever is held).                                  *)
THEOREM ExposureBound ==
  ASSUME WritesSucceed PROVE Spec /\ []AdoptsNoMore => []ExposureWithinCap
<1>1. Init => ExposureInv /\ RowExposure
  BY InitExposure DEF Init, RowExposure
<1>2. Typed /\ Typed' /\ IInv /\ ExposureInv /\ RowExposure /\ AdoptsNoMore /\ [Next]_vars
        => (ExposureInv /\ RowExposure)'
  <2> SUFFICES ASSUME Typed, Typed', IInv, ExposureInv, RowExposure, AdoptsNoMore,
                      [Next]_vars
               PROVE  ExposureInv' /\ RowExposure'
    OBVIOUS
  <2>1. EntryUntracked
    BY DEF IInv, EntryInv, EntryNew, EntryUntracked
  <2>2. ExposureInv'
    BY <2>1, ExposureKept, RestartFits
  <2> QED BY <2>2, RowExposureKept
<1>3. Spec => []Typed BY TypeCorrect DEF Typed
<1>4. ExposureInv => ExposureWithinCap
  BY DEF ExposureInv
<1> QED BY <1>1, <1>2, <1>3, <1>4, BookSafe, PTL DEF Spec
-----------------------------------------------------------------------------
(***************************************************************************)
(* The book, the exchange and the positions table, for every number of     *)
(* positions and markets:                                                  *)
(*                                                                         *)
(*   BookMatches     what is held is what is tracked, whenever no order is *)
(*                   under way, through partial fills, rejections and      *)
(*                   orders whose outcome is unknown;                      *)
(*   ExposureKeptLive  what is tracked is within the exposure budget, in   *)
(*                   the same setting;                                     *)
(*   ReconcilesFlat  a close is recorded without an order only when        *)
(*                   nothing is held, through crashes, empty answers and   *)
(*                   any number of callers that close at the same time;    *)
(*   KeepsTheLedger  the table implements PositionLedger.                  *)
(*                                                                         *)
(* None says anything of the moments between a step and what the process   *)
(* or the table learns of it.  Their inductive invariants do: the first    *)
(* names who knows of the lots that are held (Known), the second why a     *)
(* position that is still held has been missed (Missed), the third whose   *)
(* close a tracked position waits for (OpenUntilDropped).                  *)
(***************************************************************************)

(* The assumptions: the monitor is the only closer, the exchange can be    *)
(* asked, and the process does not die.                                    *)
MonitorAlone == Users = {} /\ ~ContraryExit
NothingBlinds == {"crash", "fetch", "glitch"} \cap Faults = {}

(* A task of the monitor works on a tracked position, on one at a time.    *)
OneCloser ==
  /\ \A c \in Closers \ {"monitor"} : closer[c].pc = "idle"
  /\ closer["monitor"].pc # "idle" =>
       /\ closer["monitor"].id \in open \ monitor.left
       /\ monitor.pc # "price"
  /\ monitor.left \subseteq open
  /\ monitor.pc = "price" => monitor.id \in open \ monitor.left

(* Past the caps the market of the trade section is free, and its position *)
(* is not tracked before it says so.                                       *)
EntryApart ==
  /\ trader.pc \in {"quote"} \cup Entering => ~HasOpen(trader.mkt)
  /\ trader.pc \in Entering => trader.id \notin open /\ pos[trader.id].mkt = trader.mkt
  /\ trader.pc \in {"sent", "replied", "verify", "placing"} => Live(trader.id)

(* What is held on a market is what somebody knows of: the entry under way *)
Entered(m) ==
  /\ trader.mkt = m
  /\ \/ trader.pc = "verify"
     \/ trader.pc = "replied" /\ exch[m] = trader.lots
     \/ /\ trader.pc \in {"placing", "placed", "persisted"}
        /\ Live(trader.id)
        /\ exch[m] = pos[trader.id].size

(* or a tracked position, less what a close has sold and not booked.       *)
Sold(id) == IF closer["monitor"].pc = "replied" /\ closer["monitor"].id = id
            THEN closer["monitor"].fill ELSE 0

Tracked(m) ==
  \E id \in LiveIn(m) :
    /\ exch[m] + Sold(id) = pos[id].size
    /\ closer["monitor"].id = id => closer["monitor"].pc \in {"idle", "sent", "replied", "booked"}

Known == \A m \in Markets : exch[m] # 0 => Entered(m) \/ Tracked(m)

(* What a poll found flat still is.                                        *)
PollHolds ==
  monitor.pc \in {"fetched", "reconcile"} /\ monitor.known =>
    \A id \in monitor.left : pos[id].mkt \notin monitor.seen => exch[pos[id].mkt] = 0

ExchInv == up /\ OneCloser /\ EntryApart /\ OneTrackedPerMarket /\ Known /\ PollHolds
-----------------------------------------------------------------------------
LEMMA Quantities ==
  ASSUME Typed
  PROVE  /\ exch \in [Markets -> Nat]
         /\ \A m \in Markets : exch[m] \in Nat
         /\ \A id \in Ids : pos[id].size \in Nat
         /\ trader.lots \in Nat
         /\ \A c \in Closers : closer[c].fill \in Nat
         /\ open \in SUBSET Ids
BY DEF Typed, TypeOK, MemoryOK, WorldOK, Position, TraderState, CloserState

LEMMA OnMarkets ==
  ASSUME Typed, NEW id \in open PROVE id \in Ids /\ pos[id].mkt \in Markets
BY DEF Typed, Refs, BookRefs, Used

(* The market of a tracked position holds it, less what a close has sold,  *)
(* or nothing.                                                             *)
LEMMA AtHome ==
  ASSUME Typed, ExchInv, NEW id \in open, exch[pos[id].mkt] # 0
  PROVE  /\ Live(id)
         /\ exch[pos[id].mkt] + Sold(id) = pos[id].size
         /\ closer["monitor"].id = id =>
              closer["monitor"].pc \in {"idle", "sent", "replied", "booked"}
<1> DEFINE m == pos[id].mkt
<1>1. m \in Markets
  BY OnMarkets
<1>2. ~Entered(m)
  BY DEF ExchInv, EntryApart, Entered, HasOpen, Entering
<1>3. Tracked(m)
  BY <1>1, <1>2 DEF ExchInv, Known
<1>4. \A j \in LiveIn(m) : j = id
  BY DEF ExchInv, OneTrackedPerMarket, LiveIn
<1> QED BY <1>3, <1>4 DEF Tracked, LiveIn

(* Once a close has sold all, its market is flat.                          *)
LEMMA SoldOut ==
  ASSUME Typed, ExchInv,
         closer["monitor"].pc \in {"record", "saved", "unsaved", "marked", "unmarked"}
  PROVE  exch[pos[closer["monitor"].id].mkt] = 0
<1>1. closer["monitor"].id \in open
  BY DEF ExchInv, OneCloser
<1> QED BY <1>1, AtHome
-----------------------------------------------------------------------------
(* A step of the close, or the reconciliation, of a tracked position...    *)
StepOf(id) ==
  /\ UNCHANGED <<up, trader>>
  /\ \A j \in Ids \ {id} : pos'[j] = pos[j] /\ (j \in open' <=> j \in open)
  /\ pos'[id].mkt = pos[id].mkt /\ pos'[id].mode = pos[id].mode
  /\ open' \subseteq open
  /\ \A m \in Markets \ {pos[id].mkt} : exch'[m] = exch[m]
  /\ closer["monitor"].pc = "idle" \/ closer["monitor"].id = id
  /\ closer'["monitor"].pc = "idle" \/ closer'["monitor"].id = id

(* ... leaves the rest of the book alone.                                  *)
LEMMA Elsewhere ==
  ASSUME Typed, ExchInv, NEW id \in open, StepOf(id)
  PROVE  /\ EntryApart' /\ OneTrackedPerMarket'
         /\ \A m \in Markets \ {pos[id].mkt} : exch'[m] # 0 => Entered(m)' \/ Tracked(m)'
<1>1. id \in Ids /\ \A j \in open : j \in Ids
  BY OnMarkets
<1>2. \A j \in Ids : pos'[j].mkt = pos[j].mkt /\ pos'[j].mode = pos[j].mode
  BY DEF StepOf
<1>3. open' \subseteq open /\ trader' = trader /\ up' = up
  BY DEF StepOf
<1>4. OneTrackedPerMarket'
  BY <1>1, <1>2, <1>3 DEF ExchInv, OneTrackedPerMarket
<1>5. trader.pc \in Entering => trader.id \in Ids /\ trader.id # id
  BY DEF Typed, Refs, TraderRefs, Used, ExchInv, EntryApart
<1>6. EntryApart'
  <2>1. ~HasOpen(trader.mkt) => ~HasOpen(trader.mkt)'
    BY <1>1, <1>2, <1>3 DEF HasOpen
  <2>2. trader.pc \in {"sent", "replied", "verify", "placing"} => trader.pc \in Entering
    BY DEF Entering
  <2> QED BY <1>2, <1>3, <1>5, <2>1, <2>2 DEF ExchInv, EntryApart, Live
<1>7. ASSUME NEW m \in Markets \ {pos[id].mkt}, exch'[m] # 0
      PROVE  Entered(m)' \/ Tracked(m)'
  <2>1. exch'[m] = exch[m] /\ (Entered(m) \/ Tracked(m))
    BY <1>7 DEF StepOf, ExchInv, Known
  <2>2. CASE Entered(m)
    <3>1. trader.pc \in {"placing", "placed", "persisted"} => pos'[trader.id] = pos[trader.id]
      BY <1>5 DEF StepOf, Entering
    <3> QED BY <1>3, <2>1, <2>2, <3>1 DEF Entered, Live
  <2>3. CASE Tracked(m)
    <3>1. PICK j \in LiveIn(m) :
            /\ exch[m] + Sold(j) = pos[j].size
            /\ closer["monitor"].id = j =>
                 closer["monitor"].pc \in {"idle", "sent", "replied", "booked"}
      BY <2>3 DEF Tracked
    <3>2. j \in Ids /\ j # id /\ j \in open
      BY <1>1, <1>7, <3>1 DEF LiveIn
    <3>3. pos'[j] = pos[j] /\ j \in LiveIn(m)'
      BY <3>1, <3>2 DEF StepOf, LiveIn, Live
    <3>4. Sold(j) = 0 /\ Sold(j)' = 0
      BY <3>2 DEF Sold, StepOf
    <3>5. closer'["monitor"].id = j => closer'["monitor"].pc = "idle"
      BY <3>2 DEF StepOf
    <3> QED BY <2>1, <3>1, <3>3, <3>4, <3>5 DEF Tracked
  <2> QED BY <2>1, <2>2, <2>3
<1> QED BY <1>4, <1>6, <1>7

(* So it is enough to look at the market of that position.                 *)
LEMMA CloseStep ==
  ASSUME Typed, ExchInv, NEW id \in open, StepOf(id), OneCloser', PollHolds',
         \/ exch'[pos[id].mkt] = 0
         \/ /\ id \in open' /\ Live(id)
            /\ exch'[pos[id].mkt] + Sold(id)' = pos'[id].size
            /\ closer'["monitor"].id = id =>
                 closer'["monitor"].pc \in {"idle", "sent", "replied", "booked"}
  PROVE  ExchInv'
<1>0. PICK m \in Markets : m = pos[id].mkt
  BY OnMarkets
<1>1. /\ EntryApart' /\ OneTrackedPerMarket'
      /\ \A n \in Markets \ {m} : exch'[n] # 0 => Entered(n)' \/ Tracked(n)'
  BY <1>0, Elsewhere
<1>2. ASSUME exch'[m] # 0 PROVE Tracked(m)'
  <2>1. id \in open' /\ Live(id)' /\ pos'[id].mkt = m
    BY <1>0, <1>2 DEF StepOf, Live
  <2>2. id \in LiveIn(m)'
    BY <2>1 DEF LiveIn
  <2>3. /\ exch'[m] + Sold(id)' = pos'[id].size
        /\ closer'["monitor"].id = id =>
             closer'["monitor"].pc \in {"idle", "sent", "replied", "booked"}
    BY <1>0, <1>2
  <2> QED BY <2>2, <2>3 DEF Tracked
<1>3. Known'
  BY <1>1, <1>2 DEF Known
<1> QED BY <1>1, <1>3 DEF ExchInv, StepOf

(* What the monitor only looks at.                                         *)
LEMMA LookStep ==
  ASSUME Typed, ExchInv, UNCHANGED <<up, pos, open, exch, trader, closer>>,
         OneCloser', PollHolds'
  PROVE  ExchInv'
BY DEF ExchInv, EntryApart, HasOpen, Live, OneTrackedPerMarket, Known, Entered, Tracked,
       LiveIn, Sold

(* A poll remains true while nothing is bought for a tracked position.     *)
LEMMA PollStep ==
  ASSUME Typed, ExchInv,
         monitor'.pc \in {"fetched", "reconcile"} /\ monitor'.known =>
           /\ monitor.pc \in {"fetched", "reconcile"} /\ monitor.known
           /\ monitor'.left \subseteq monitor.left
           /\ monitor'.seen = monitor.seen,
         \A id \in monitor.left :
           /\ pos'[id].mkt = pos[id].mkt
           /\ exch[pos[id].mkt] = 0 => exch'[pos[id].mkt] = 0
  PROVE  PollHolds'
BY DEF ExchInv, PollHolds
-----------------------------------------------------------------------------
(* What a step of the monitor's close does to its own state.               *)
LEMMA CloserAlone ==
  ASSUME Typed, ExchInv, NEW id \in open, id = closer["monitor"].id,
         closer["monitor"].pc # "idle",
         NEW pc, NEW fill,
         \/ closer' = [closer EXCEPT !["monitor"].pc = pc] /\ fill = closer["monitor"].fill
         \/ closer' = [closer EXCEPT !["monitor"].pc = pc, !["monitor"].fill = fill]
  PROVE  /\ \A c \in Closers \ {"monitor"} : closer'[c] = closer[c]
         /\ closer'["monitor"].pc = pc
         /\ closer'["monitor"].id = id
         /\ closer'["monitor"].fill = fill
BY CallersAreClosers DEF Typed, TypeOK, CloserState

LEMMA CloserFreed ==
  ASSUME Typed, NEW c, c = "monitor", Release(c)
  PROVE  /\ \A k \in Closers \ {"monitor"} : closer'[k] = closer[k]
         /\ closer'["monitor"].pc = "idle"
BY CallersAreClosers DEF Release, CloserIdle, Typed, TypeOK

LEMMA OneCloserStays ==
  ASSUME OneCloser, NEW id, id = closer["monitor"].id,
         closer["monitor"].pc # "idle",
         \A c \in Closers \ {"monitor"} : closer'[c] = closer[c],
         \/ closer'["monitor"].pc = "idle" /\ open' \in {open, open \ {id}}
         \/ closer'["monitor"].id = id /\ open' = open,
         \/ monitor' = monitor
         \/ monitor'.pc = "idle" /\ monitor'.left = {}
  PROVE  OneCloser'
BY DEF OneCloser

LEMMA CloserStepExch ==
  ASSUME Typed, ExchInv, NEW c \in Closers, CloserStep(c)
  PROVE  ExchInv'
<1>1. c = "monitor" /\ closer["monitor"].pc # "idle"
  <2>1. closer[c].pc # "idle"
    BY Zenon
       DEF CloserStep, ExecuteClose, CloseUnfilled, ClosePartial, CloseFilled, RecordClose,
           PaperPriceRaises, FinishClose, CloseRaises, FinishPartial
  <2> QED BY <2>1 DEF ExchInv, OneCloser
<1>2. PICK id \in open : id = closer["monitor"].id
  BY <1>1 DEF ExchInv, OneCloser
<1>3. PICK m \in Markets : m = pos[id].mkt
  BY OnMarkets
<1>4. /\ id \in Ids /\ pos[id].size \in Nat /\ exch[m] \in Nat /\ pos[id] \in Position
      /\ closer["monitor"].fill \in Nat
  BY OnMarkets, Quantities, CallersAreClosers DEF Typed, TypeOK, MemoryOK
<1>5. /\ closer["monitor"].pc = "replied" => Sold(id) = closer["monitor"].fill
      /\ closer["monitor"].pc # "replied" => Sold(id) = 0
  BY <1>2 DEF Sold
<1>6. \/ exch[m] = 0
      \/ /\ Live(id) /\ exch[m] + Sold(id) = pos[id].size
         /\ closer["monitor"].pc \in {"sent", "replied", "booked"}
  BY <1>1, <1>2, <1>3, AtHome
<1>7. CASE ExecuteClose(c)
  <2> DEFINE n == pos[closer[c].id].mkt
  <2>0. PICK sold \in 0 .. exch[n], fill \in 0 .. exch[n] :
          /\ \/ sold = exch[n] /\ fill = exch[n]
             \/ sold \in 1 .. exch[n] - 1 /\ fill = sold
             \/ sold = 0 /\ fill = 0
             \/ sold = exch[n] /\ fill = 0
          /\ exch' = [exch EXCEPT ![n] = exch[n] - sold]
          /\ closer' = [closer EXCEPT ![c].pc = "replied", ![c].fill = fill]
    BY <1>7, Zenon DEF ExecuteClose
  <2>a. n = m /\ c = "monitor"
    BY <1>1, <1>2, <1>3
  <2> HIDE DEF n
  <2>1. /\ sold \in 0 .. exch[m] /\ fill \in 0 .. exch[m]
        /\ \/ sold = exch[m] /\ fill = exch[m]
           \/ sold \in 1 .. exch[m] - 1 /\ fill = sold
           \/ sold = 0 /\ fill = 0
           \/ sold = exch[m] /\ fill = 0
        /\ exch' = [exch EXCEPT ![m] = exch[m] - sold]
        /\ closer' = [closer EXCEPT !["monitor"].pc = "replied", !["monitor"].fill = fill]
    BY <2>0, <2>a, Zenon
  <2>2. UNCHANGED <<up, pos, open, trader, monitor>> /\ closer["monitor"].pc = "sent"
    BY <1>1, <1>7 DEF ExecuteClose, memory
  <2>3. /\ \A k \in Closers \ {"monitor"} : closer'[k] = closer[k]
        /\ closer'["monitor"].pc = "replied" /\ closer'["monitor"].id = id
        /\ closer'["monitor"].fill = fill
    BY <1>1, <1>2, <2>1, CloserAlone
  <2>4. exch'[m] = exch[m] - sold /\ \A k \in Markets \ {m} : exch'[k] = exch[k]
    BY <2>1, Quantities
  <2>5. Sold(id)' = fill
    BY <2>3 DEF Sold
  <2>6. exch'[m] = 0 \/ (Live(id) /\ exch'[m] + Sold(id)' = pos'[id].size)
    BY <1>4, <1>5, <1>6, <2>1, <2>2, <2>4, <2>5
  <2>7. OneCloser'
    BY <1>1, <1>2, <2>2, <2>3, OneCloserStays DEF ExchInv
  <2>8. \A k \in Markets : exch[k] = 0 => exch'[k] = 0
    BY <1>4, <2>1, <2>4
  <2>9. \A j \in monitor.left : pos[j].mkt \in Markets
    BY OnMarkets DEF ExchInv, OneCloser
  <2>10. PollHolds'
    BY <2>2, <2>8, <2>9, PollStep
  <2>11. StepOf(id)
    BY <1>2, <1>3, <2>2, <2>3, <2>4 DEF StepOf
  <2> QED BY <1>3, <2>2, <2>3, <2>6, <2>7, <2>10, <2>11, CloseStep
(* What the other steps of a close have in common.                         *)
<1>8. ASSUME UNCHANGED <<up, exch, trader>>,
             \A j \in Ids \ {id} : pos'[j] = pos[j],
             pos'[id].mkt = m, pos'[id].mode = pos[id].mode,
             \A k \in Closers \ {"monitor"} : closer'[k] = closer[k],
             \/ monitor' = monitor
             \/ monitor' = [MonitorIdle EXCEPT !.glitched = monitor.glitched],
             \/ /\ closer'["monitor"].pc = "idle" /\ open' \in {open, open \ {id}}
             \/ /\ closer'["monitor"].pc \in {"booked", "record", "saved", "unsaved"}
                /\ closer'["monitor"].id = id /\ open' = open,
             \/ exch[m] = 0
             \/ /\ Live(id) /\ open' = open /\ exch[m] = pos'[id].size
                /\ closer'["monitor"].pc \in {"idle", "booked"}
      PROVE  ExchInv'
  <2>1. id = closer["monitor"].id
    BY <1>2
  <2>2. monitor' = monitor \/ (monitor'.pc = "idle" /\ monitor'.left = {})
    BY <1>8 DEF MonitorIdle
  <2>3. OneCloser'
    BY <1>1, <1>8, <2>1, <2>2, OneCloserStays DEF ExchInv
  <2>4. \A j \in monitor.left : j \in Ids /\ pos'[j].mkt = pos[j].mkt
    BY <1>3, <1>8, OnMarkets DEF ExchInv, OneCloser
  <2>5. PollHolds'
    BY <1>8, <2>2, <2>4, PollStep
  <2>6. StepOf(id)
    BY <1>3, <1>8, <2>1 DEF StepOf
  <2>7. Sold(id)' = 0
    BY <1>8 DEF Sold
  <2>8. exch[m] \in Nat /\ exch' = exch
    BY <1>4, <1>8
  <2> QED BY <1>3, <1>8, <2>3, <2>5, <2>6, <2>7, <2>8, CloseStep
<1>9. ASSUME pos' = pos
      PROVE  /\ \A j \in Ids \ {id} : pos'[j] = pos[j]
             /\ pos'[id].mkt = m /\ pos'[id].mode = pos[id].mode /\ pos'[id].size = pos[id].size
  BY <1>3, <1>9
<1>10. CASE CloseUnfilled(c)
  <2>1. /\ closer["monitor"].pc = "replied" /\ closer["monitor"].fill = 0 /\ Release(c)
        /\ UNCHANGED <<up, pos, open, exch, trader, monitor>>
    BY <1>1, <1>10 DEF CloseUnfilled, exchange
  <2>2. exch[m] = 0 \/ (Live(id) /\ exch[m] = pos'[id].size)
    BY <1>4, <1>5, <1>6, <2>1
  <2> QED BY <1>1, <1>8, <1>9, <2>1, <2>2, CloserFreed
<1>11. CASE ClosePartial(c)
  <2>1. PICK k \in Nat : k = closer["monitor"].fill
    BY <1>4
  <2>2. /\ closer["monitor"].pc = "replied" /\ 0 < k /\ k < pos[id].size
        /\ pos' = [pos EXCEPT ![id] = Sliced(id, k)]
        /\ closer' = [closer EXCEPT !["monitor"].pc = "booked"]
        /\ UNCHANGED <<up, open, exch, trader, monitor>>
    BY <1>1, <1>2, <1>11, <2>1 DEF ClosePartial, exchange
  <2>3. /\ \A j \in Ids \ {id} : pos'[j] = pos[j]
        /\ pos'[id] = Sliced(id, k)
    BY <2>2, <1>4 DEF Typed, TypeOK, MemoryOK
  <2>4. /\ Sliced(id, k).mkt = pos[id].mkt /\ Sliced(id, k).mode = pos[id].mode
        /\ Sliced(id, k).size = pos[id].size - k
    BY <1>4, <2>1 DEF Sliced, Position
  <2>5. exch[m] = 0 \/ (Live(id) /\ exch[m] = pos[id].size - k)
    BY <1>4, <1>5, <1>6, <2>1, <2>2
  <2>6. /\ \A j \in Closers \ {"monitor"} : closer'[j] = closer[j]
        /\ closer'["monitor"].pc = "booked" /\ closer'["monitor"].id = id
    BY <1>1, <1>2, <2>2, CloserAlone
  <2> QED BY <1>3, <1>8, <2>2, <2>3, <2>4, <2>5, <2>6
<1>12. CASE CloseFilled(c)
  <2>1. /\ closer["monitor"].pc = "replied"
        /\ closer["monitor"].fill > 0 /\ closer["monitor"].fill >= pos[id].size
        /\ pos' = [pos EXCEPT ![id].stop = FALSE]
        /\ closer' = [closer EXCEPT !["monitor"].pc = "record"]
        /\ UNCHANGED <<up, open, exch, trader, monitor>>
    BY <1>1, <1>2, <1>12 DEF CloseFilled
  <2>2. /\ \A j \in Ids \ {id} : pos'[j] = pos[j]
        /\ pos'[id].mkt = pos[id].mkt /\ pos'[id].mode = pos[id].mode
    BY <2>1, <1>4 DEF Typed, TypeOK, MemoryOK, Position
  <2>3. exch[m] = 0
    BY <1>4, <1>5, <1>6, <2>1
  <2>4. /\ \A j \in Closers \ {"monitor"} : closer'[j] = closer[j]
        /\ closer'["monitor"].pc = "record" /\ closer'["monitor"].id = id
    BY <1>1, <1>2, <2>1, CloserAlone
  <2> QED BY <1>3, <1>8, <2>1, <2>2, <2>3, <2>4
<1>13. CASE RecordClose(c)
  <2>1. /\ closer["monitor"].pc = "record"
        /\ pos' = pos \/ pos' = [pos EXCEPT ![id] = Recorded(id)]
        /\ \/ closer' = [closer EXCEPT !["monitor"].pc = "saved"]
           \/ closer' = [closer EXCEPT !["monitor"].pc = "unsaved"]
        /\ UNCHANGED <<up, open, exch, trader, monitor>>
    BY <1>1, <1>2, <1>13 DEF RecordClose, MarkRecorded, exchange, UpsertOutcome
  <2>2. Recorded(id).mkt = pos[id].mkt /\ Recorded(id).mode = pos[id].mode
    BY <1>4 DEF Recorded, Position
  <2>3. /\ \A j \in Ids \ {id} : pos'[j] = pos[j]
        /\ pos'[id].mkt = pos[id].mkt /\ pos'[id].mode = pos[id].mode
    BY <2>1, <2>2, <1>4 DEF Typed, TypeOK, MemoryOK
  <2>4. exch[m] = 0
    BY <1>6, <2>1
  <2>5. /\ \A j \in Closers \ {"monitor"} : closer'[j] = closer[j]
        /\ closer'["monitor"].pc \in {"saved", "unsaved"} /\ closer'["monitor"].id = id
    <3>1. CASE closer' = [closer EXCEPT !["monitor"].pc = "saved"]
      BY <1>1, <1>2, <3>1, CloserAlone
    <3>2. CASE closer' = [closer EXCEPT !["monitor"].pc = "unsaved"]
      BY <1>1, <1>2, <3>2, CloserAlone
    <3> QED BY <2>1, <3>1, <3>2
  <2> QED BY <1>3, <1>8, <2>1, <2>3, <2>4, <2>5
<1>14. CASE PaperPriceRaises(c)
  <2>1. /\ closer["monitor"].pc = "record" /\ Release(c)
        /\ monitor' = [MonitorIdle EXCEPT !.glitched = monitor.glitched]
        /\ UNCHANGED <<up, pos, open, exch, trader>>
    BY <1>1, <1>14 DEF PaperPriceRaises, AbortPass, exchange
  <2>2. exch[m] = 0
    BY <1>6, <2>1
  <2> QED BY <1>1, <1>8, <1>9, <2>1, <2>2, CloserFreed
<1>15. CASE FinishClose(c)
  <2>1. /\ closer["monitor"].pc = "saved" /\ Release(c) /\ open' = open \ {id}
        /\ UNCHANGED <<up, pos, exch, trader, monitor>>
    BY <1>1, <1>2, <1>15 DEF FinishClose, Drop, exchange
  <2>2. exch[m] = 0
    BY <1>6, <2>1
  <2> QED BY <1>1, <1>8, <1>9, <2>1, <2>2, CloserFreed
<1>16. CASE CloseRaises(c)
  <2>1. /\ closer["monitor"].pc = "unsaved" /\ Release(c)
        /\ monitor' = [MonitorIdle EXCEPT !.glitched = monitor.glitched]
        /\ UNCHANGED <<up, pos, open, exch, trader>>
    BY <1>1, <1>16 DEF CloseRaises, AbortPass, exchange
  <2>2. exch[m] = 0
    BY <1>6, <2>1
  <2> QED BY <1>1, <1>8, <1>9, <2>1, <2>2, CloserFreed
<1>17. CASE FinishPartial(c)
  <2>1. /\ closer["monitor"].pc = "booked" /\ Release(c)
        /\ UNCHANGED <<up, pos, open, exch, trader, monitor>>
    BY <1>1, <1>17 DEF FinishPartial, exchange
  <2>2. exch[m] = 0 \/ (Live(id) /\ exch[m] = pos'[id].size)
    BY <1>4, <1>5, <1>6, <2>1
  <2> QED BY <1>1, <1>8, <1>9, <2>1, <2>2, CloserFreed
<1> QED
  BY <1>7, <1>10, <1>11, <1>12, <1>13, <1>14, <1>15, <1>16, <1>17 DEF CloserStep
-----------------------------------------------------------------------------
(* A step of the monitor that looks at what it is to look at next.         *)
LEMMA LooksOn ==
  ASSUME Typed, ExchInv, UNCHANGED <<up, pos, open, exch, trader, closer>>,
         closer["monitor"].pc = "idle",
         monitor'.left \subseteq open,
         monitor'.pc = "price" => monitor'.id \in open \ monitor'.left,
         PollHolds'
  PROVE  ExchInv'
<1>1. OneCloser'
  BY DEF ExchInv, OneCloser
<1> QED BY <1>1, LookStep

LEMMA LooksAway ==
  ASSUME Typed, ExchInv, UNCHANGED <<up, pos, open, exch, trader, closer>>,
         closer["monitor"].pc = "idle",
         monitor'.left \subseteq open,
         monitor'.pc = "price" => monitor'.id \in open \ monitor'.left,
         \/ monitor'.pc \notin {"fetched", "reconcile"}
         \/ ~monitor'.known
         \/ /\ monitor.pc \in {"fetched", "reconcile"} /\ monitor.known
            /\ monitor'.left \subseteq monitor.left
            /\ monitor'.seen = monitor.seen
  PROVE  ExchInv'
<1>1. PollHolds'
  BY PollStep
<1> QED BY <1>1, LooksOn

LEMMA MonitorIs ==
  ASSUME Typed
  PROVE  monitor = [pc |-> monitor.pc, left |-> monitor.left, id |-> monitor.id,
                    known |-> monitor.known, seen |-> monitor.seen, glitched |-> monitor.glitched]
BY DEF Typed, TypeOK, MonitorState

(* The market of a tracked position not seen by a poll is flat.            *)
LEMMA PollTells ==
  ASSUME Typed, ExchInv, NothingBlinds, FetchStates
  PROVE  ExchInv'
<1>1. /\ UNCHANGED <<up, pos, open, exch, trader, closer>> /\ closer["monitor"].pc = "idle"
  BY DEF FetchStates, MonitorAt, memory, exchange
<1>2. ~Fault("glitch") /\ ~Fault("fetch")
  BY DEF NothingBlinds, Fault
<1>3. CASE LiveOpen = {}
  <2>1. monitor'.left = {} /\ ~monitor'.known /\ monitor'.pc = "reconcile"
    BY <1>2, <1>3, MonitorIs DEF FetchStates, MonitorIdle
  <2> QED BY <1>1, <2>1, LooksAway
<1>4. CASE LiveOpen # {}
  <2>1. /\ monitor'.left = LiveOpen /\ monitor'.pc = "fetched"
        /\ monitor'.seen = {m \in Markets : exch[m] > 0}
    BY <1>2, <1>4, MonitorIs DEF FetchStates
  <2>2. \A id \in LiveOpen : id \in open
    BY DEF LiveOpen
  <2>3. \A id \in LiveOpen : pos[id].mkt \in Markets /\ exch[pos[id].mkt] \in Nat
    BY <2>2, OnMarkets, Quantities
  <2>4. \A id \in LiveOpen : pos[id].mkt \notin monitor'.seen => exch[pos[id].mkt] = 0
    BY <2>1, <2>3
  <2>5. PollHolds'
    BY <1>1, <2>1, <2>4 DEF PollHolds
  <2> QED BY <1>1, <2>1, <2>2, <2>5, LooksOn
<1> QED BY <1>3, <1>4

(* The reconciler records a close only of what is flat.                    *)
LEMMA GoneIsFlat ==
  ASSUME Typed, ExchInv, NEW id \in Ids, ReconcileGone(id)
  PROVE  /\ id \in open /\ id \in monitor.left
         /\ exch[pos[id].mkt] = 0
<1>1. monitor.pc = "reconcile" /\ monitor.known /\ id \in monitor.left
      /\ pos[id].mkt \notin monitor.seen
  BY DEF ReconcileGone, MonitorAt
<1> QED BY <1>1 DEF ExchInv, OneCloser, PollHolds

LEMMA ReconcileGoneExch ==
  ASSUME Typed, ExchInv, NEW id \in Ids, ReconcileGone(id)
  PROVE  ExchInv'
<1>1. id \in open /\ id \in monitor.left /\ exch[pos[id].mkt] = 0
  BY GoneIsFlat
<1>2. /\ UNCHANGED <<up, open, exch, trader>>
      /\ closer["monitor"].pc = "idle" /\ monitor.pc = "reconcile"
      /\ monitor' = [monitor EXCEPT !.left = @ \ {id}]
  BY DEF ReconcileGone, MonitorAt, exchange
<1>3. pos' = pos \/ pos' = [pos EXCEPT ![id] = Recorded(id)]
  BY DEF ReconcileGone, MarkRecorded
<1>4. \E pc \in {"marked", "unmarked"} :
        closer' = [closer EXCEPT !["monitor"] = [pc |-> pc, id |-> id, fill |-> 0]]
  <2>1. CASE pos[id].status = "closed"
    BY <2>1 DEF ReconcileGone
  <2>2. CASE pos[id].status # "closed"
    BY <2>2, Zenon DEF ReconcileGone
  <2> QED BY <2>1, <2>2
<1>5. /\ \A c \in Closers \ {"monitor"} : closer'[c] = closer[c]
      /\ closer'["monitor"].pc \in {"marked", "unmarked"} /\ closer'["monitor"].id = id
  BY <1>4, CallersAreClosers DEF Typed, TypeOK
<1>6. Recorded(id).mkt = pos[id].mkt /\ Recorded(id).mode = pos[id].mode
  BY DEF Recorded, Position, Typed, TypeOK, MemoryOK
<1>7. /\ \A j \in Ids \ {id} : pos'[j] = pos[j]
      /\ pos'[id].mkt = pos[id].mkt /\ pos'[id].mode = pos[id].mode
  BY <1>3, <1>6 DEF Typed, TypeOK, MemoryOK
<1>8. monitor'.left = monitor.left \ {id} /\ monitor'.pc = "reconcile"
      /\ monitor'.known = monitor.known /\ monitor'.seen = monitor.seen
  BY <1>2 DEF Typed, TypeOK, MonitorState
<1>9. OneCloser'
  BY <1>1, <1>2, <1>5, <1>8 DEF ExchInv, OneCloser
<1>10. \A j \in monitor.left : pos'[j].mkt = pos[j].mkt
  BY <1>7, OnMarkets DEF ExchInv, OneCloser
<1>11. PollHolds'
  BY <1>2, <1>8, <1>10, PollStep
<1>12. StepOf(id)
  BY <1>2, <1>5, <1>7 DEF StepOf
<1>13. exch'[pos[id].mkt] = 0
  BY <1>1, <1>2
<1> QED BY <1>1, <1>9, <1>11, <1>12, <1>13, CloseStep

LEMMA FinishMarkExch ==
  ASSUME Typed, ExchInv, FinishMark
  PROVE  ExchInv'
<1>1. PICK id \in open : id = closer["monitor"].id
  BY DEF FinishMark, ExchInv, OneCloser
<1>2. exch[pos[id].mkt] = 0
  BY <1>1, SoldOut DEF FinishMark
<1>3. /\ UNCHANGED <<up, pos, exch, trader, monitor>> /\ open' \in {open, open \ {id}}
      /\ closer' = [closer EXCEPT !["monitor"] = CloserIdle]
      /\ closer["monitor"].pc # "idle"
  BY <1>1 DEF FinishMark, Drop, exchange
<1>4. /\ \A c \in Closers \ {"monitor"} : closer'[c] = closer[c]
      /\ closer'["monitor"].pc = "idle"
  BY <1>3, CallersAreClosers DEF Typed, TypeOK, CloserIdle
<1>5. OneCloser'
  BY <1>1, <1>3, <1>4, OneCloserStays DEF ExchInv
<1>6. PollHolds'
  BY <1>3, PollStep
<1>7. StepOf(id)
  BY <1>1, <1>3, <1>4 DEF StepOf
<1> QED BY <1>2, <1>3, <1>5, <1>6, <1>7, CloseStep

(* A price exit begins: nothing is sold yet.                               *)
LEMMA ScanExitExch ==
  ASSUME Typed, ExchInv, ScanExit
  PROVE  ExchInv'
<1>1. PICK id \in open \ monitor.left : id = monitor.id
  BY DEF ScanExit, MonitorAt, ExchInv, OneCloser
<1>2. /\ UNCHANGED <<up, pos, open, exch, trader>>
      /\ closer["monitor"].pc = "idle"
      /\ closer' = [closer EXCEPT !["monitor"] =
           [pc |-> IF Live(id) THEN "sent" ELSE "record", id |-> id, fill |-> 0]]
      /\ monitor' = [monitor EXCEPT !.pc = "scan", !.id = "none"]
  BY <1>1 DEF ScanExit, MonitorAt, BeginClose, exchange
<1>3. /\ \A c \in Closers \ {"monitor"} : closer'[c] = closer[c]
      /\ closer'["monitor"].pc = IF Live(id) THEN "sent" ELSE "record"
      /\ closer'["monitor"].id = id
  BY <1>2, CallersAreClosers DEF Typed, TypeOK
<1>4. monitor'.left = monitor.left /\ monitor'.pc = "scan"
  BY <1>2 DEF Typed, TypeOK, MonitorState
<1>5. OneCloser'
  BY <1>1, <1>2, <1>3, <1>4 DEF ExchInv, OneCloser
<1>6. PollHolds'
  BY <1>4 DEF PollHolds
<1>7. StepOf(id)
  BY <1>2, <1>3 DEF StepOf
<1>8. Sold(id) = 0 /\ Sold(id)' = 0
  BY <1>2, <1>3 DEF Sold
<1>9. \/ exch[pos[id].mkt] = 0
      \/ Live(id) /\ exch[pos[id].mkt] + Sold(id)' = pos[id].size
  BY <1>1, <1>8, AtHome
<1> QED BY <1>2, <1>3, <1>5, <1>6, <1>7, <1>9, CloseStep

LEMMA MonitorStepExch ==
  ASSUME Typed, ExchInv, NothingBlinds, MonitorStep
  PROVE  ExchInv'
<1> USE DEF memory, exchange
<1>0. monitor.left \subseteq open
  BY DEF ExchInv, OneCloser
<1>1. CASE StartReconcile
  <2>1. monitor'.pc = "reconcile" /\ monitor'.left = monitor.left \cap open
        /\ monitor'.known = monitor.known /\ monitor'.seen = monitor.seen
    BY <1>1, MonitorIs DEF StartReconcile
  <2>2. UNCHANGED <<up, pos, open, exch, trader, closer>> /\ closer["monitor"].pc = "idle"
        /\ monitor.pc = "fetched"
    BY <1>1 DEF StartReconcile, MonitorAt
  <2> QED BY <2>1, <2>2, LooksAway
<1>2. ASSUME NEW id \in Ids, ReconcileSkip(id) \/ ReconcilePresent(id) \/ ReconcileMiss(id)
      PROVE  ExchInv'
  <2>1. /\ UNCHANGED <<up, pos, open, exch, trader, closer>>
        /\ closer["monitor"].pc = "idle" /\ monitor.pc = "reconcile"
        /\ monitor' = [monitor EXCEPT !.left = @ \ {id}]
    BY <1>2 DEF ReconcileSkip, ReconcilePresent, ReconcileMiss, MonitorAt
  <2>2. monitor'.pc = "reconcile" /\ monitor'.left = monitor.left \ {id}
        /\ monitor'.known = monitor.known /\ monitor'.seen = monitor.seen
    BY <2>1, MonitorIs
  <2> QED BY <1>0, <2>1, <2>2, LooksAway
<1>3. CASE StartScan
  <2>1. UNCHANGED <<up, pos, open, exch, trader, closer>> /\ closer["monitor"].pc = "idle"
        /\ monitor' = [monitor EXCEPT !.pc = "scan", !.left = open]
    BY <1>3 DEF StartScan, MonitorAt
  <2>2. monitor'.pc = "scan" /\ monitor'.left = open
    BY <2>1, MonitorIs
  <2> QED BY <2>1, <2>2, LooksAway
<1>4. ASSUME NEW id \in Ids, ScanSkip(id)
      PROVE  ExchInv'
  <2>1. UNCHANGED <<up, pos, open, exch, trader, closer>> /\ closer["monitor"].pc = "idle"
        /\ monitor.pc = "scan" /\ monitor' = [monitor EXCEPT !.left = @ \ {id}]
    BY <1>4 DEF ScanSkip, MonitorAt
  <2>2. monitor'.pc = "scan" /\ monitor'.left = monitor.left \ {id}
    BY <2>1, MonitorIs
  <2> QED BY <1>0, <2>1, <2>2, LooksAway
<1>5. ASSUME NEW id \in Ids, ScanAsk(id)
      PROVE  ExchInv'
  <2>1. UNCHANGED <<up, pos, open, exch, trader, closer>> /\ closer["monitor"].pc = "idle"
        /\ id \in monitor.left
        /\ monitor' = [monitor EXCEPT !.pc = "price", !.left = @ \ {id}, !.id = id]
    BY <1>5 DEF ScanAsk, MonitorAt
  <2>2. monitor'.pc = "price" /\ monitor'.left = monitor.left \ {id} /\ monitor'.id = id
    BY <2>1, MonitorIs
  <2> QED BY <1>0, <2>1, <2>2, LooksAway
<1>6. CASE ScanKeep
  <2>1. UNCHANGED <<up, pos, open, exch, trader, closer>> /\ closer["monitor"].pc = "idle"
        /\ monitor' = [monitor EXCEPT !.pc = "scan", !.id = "none"]
    BY <1>6 DEF ScanKeep, MonitorAt
  <2>2. monitor'.pc = "scan" /\ monitor'.left = monitor.left
    BY <2>1, MonitorIs
  <2> QED BY <1>0, <2>1, <2>2, LooksAway
<1>7. CASE ScanRaises \/ EndScan
  <2>1. UNCHANGED <<up, pos, open, exch, trader, closer>> /\ closer["monitor"].pc = "idle"
        /\ monitor' = [MonitorIdle EXCEPT !.glitched = monitor.glitched]
    BY <1>7 DEF ScanRaises, EndScan, MonitorAt, AbortPass
  <2>2. monitor'.pc = "idle" /\ monitor'.left = {}
    BY <2>1 DEF MonitorIdle
  <2> QED BY <2>1, <2>2, LooksAway
<1> QED
  BY <1>1, <1>2, <1>3, <1>4, <1>5, <1>6, <1>7, PollTells, ReconcileGoneExch, FinishMarkExch,
     ScanExitExch
     DEF MonitorStep
-----------------------------------------------------------------------------
(* A step of the trade section leaves what is tracked alone, and every     *)
(* market but its own.                                                     *)
EntryStep ==
  /\ UNCHANGED <<up, closer, monitor>>
  /\ open \subseteq open'
  /\ \A id \in open : pos'[id] = pos[id]
  /\ \A m \in Markets : m # trader.mkt => exch'[m] = exch[m]

LEMMA EntryElsewhere ==
  ASSUME Typed, ExchInv, EntryStep,
         trader.pc \in {"quote"} \cup Entering \/ exch' = exch,
         NEW m \in Markets,
         m # trader.mkt \/ (exch' = exch /\ ~Entered(m)),
         exch'[m] # 0
  PROVE  Tracked(m)'
<1>1. exch'[m] = exch[m]
  BY DEF EntryStep
<1>2. Tracked(m)
  BY <1>1 DEF ExchInv, Known, Entered
<1>3. PICK id \in LiveIn(m) :
        /\ exch[m] + Sold(id) = pos[id].size
        /\ closer["monitor"].id = id =>
             closer["monitor"].pc \in {"idle", "sent", "replied", "booked"}
  BY <1>2 DEF Tracked
<1>4. id \in open /\ pos'[id] = pos[id] /\ id \in open' /\ closer' = closer
  BY <1>3 DEF EntryStep, LiveIn
<1>5. id \in LiveIn(m)' /\ Sold(id)' = Sold(id)
  BY <1>3, <1>4 DEF LiveIn, Live, Sold
<1> QED BY <1>1, <1>3, <1>4, <1>5 DEF Tracked

LEMMA EntryTasks ==
  ASSUME Typed, ExchInv, EntryStep,
         exch' = exch \/ ~HasOpen(trader.mkt)
  PROVE  OneCloser' /\ PollHolds' /\ up'
<1>1. OneCloser' /\ up'
  BY DEF ExchInv, OneCloser, EntryStep
<1>2. \A id \in monitor.left : id \in open /\ pos'[id].mkt = pos[id].mkt
        /\ pos[id].mkt \in Markets
  BY OnMarkets DEF ExchInv, OneCloser, EntryStep
<1>3. \A id \in monitor.left : exch'[pos[id].mkt] = exch[pos[id].mkt]
  BY <1>2 DEF EntryStep, HasOpen
<1>4. PollHolds'
  BY <1>2, <1>3, PollStep DEF EntryStep
<1> QED BY <1>1, <1>4

(* Before it tracks its position the trade section adds nothing to the     *)
(* book.                                                                   *)
LEMMA EntryKeeps ==
  ASSUME Typed, ExchInv, EntryStep, open' = open, EntryApart',
         exch' = exch \/ ~HasOpen(trader.mkt),
         trader.pc \in {"quote"} \cup Entering \/ exch' = exch,
         \A m \in Markets : m = trader.mkt /\ trader.pc \in {"quote"} \cup Entering =>
           exch'[m] = 0 \/ Entered(m)'
  PROVE  ExchInv'
<1>1. OneCloser' /\ PollHolds' /\ up'
  BY EntryTasks
<1>2. OneTrackedPerMarket'
  BY DEF ExchInv, OneTrackedPerMarket, EntryStep
<1>3. ASSUME NEW m \in Markets, exch'[m] # 0
      PROVE  Entered(m)' \/ Tracked(m)'
  <2>1. CASE m = trader.mkt /\ trader.pc \in {"quote"} \cup Entering
    BY <1>3, <2>1
  <2>2. CASE m # trader.mkt
    BY <1>3, <2>2, EntryElsewhere
  <2>3. CASE trader.pc \notin {"quote"} \cup Entering
    <3>1. ~Entered(m) /\ exch' = exch
      BY <2>3 DEF Entered, Entering
    <3> QED BY <1>3, <3>1, EntryElsewhere
  <2> QED BY <2>1, <2>2, <2>3
<1> QED BY <1>1, <1>2, <1>3 DEF ExchInv, Known

(* Past the caps the market of the entry holds nothing but the entry.      *)
LEMMA OnlyTheEntry ==
  ASSUME Typed, ExchInv, trader.pc \in {"quote"} \cup Entering
  PROVE  /\ trader.mkt \in Markets /\ ~HasOpen(trader.mkt)
         /\ exch[trader.mkt] = 0 \/ Entered(trader.mkt)
<1>1. trader.mkt \in Markets
  BY DEF Typed, Refs, TraderRefs, Entering
<1>2. ~HasOpen(trader.mkt)
  BY DEF ExchInv, EntryApart
<1>3. ~Tracked(trader.mkt)
  BY <1>2 DEF Tracked, LiveIn, HasOpen
<1> QED BY <1>1, <1>2, <1>3 DEF ExchInv, Known

LEMMA TraderIs ==
  ASSUME Typed
  PROVE  trader = [pc |-> trader.pc, mkt |-> trader.mkt, id |-> trader.id, lots |-> trader.lots]
BY DEF Typed, TypeOK, TraderState

LEMMA TrackExch ==
  ASSUME Typed, ExchInv, Track
  PROVE  ExchInv'
<1>1. /\ trader.pc = "persisted" /\ trader' = TraderIdle
      /\ open' = open \cup {trader.id}
      /\ UNCHANGED <<up, pos, exch, closer, monitor>>
  BY DEF Track, exchange
<1>2. PICK id \in Ids : id = trader.id
  BY <1>1 DEF Typed, Refs, TraderRefs, Used, Entering
<1>3. PICK m \in Markets : m = trader.mkt
  BY <1>1, OnlyTheEntry DEF Entering
<1>4. pos[id].mkt = m /\ id \notin open /\ ~HasOpen(m)
  BY <1>1, <1>2, <1>3 DEF ExchInv, EntryApart, Entering
<1>5. EntryStep
  BY <1>1 DEF EntryStep
<1>6. OneCloser' /\ PollHolds' /\ up'
  BY <1>1, <1>5, EntryTasks
<1>7. OneTrackedPerMarket'
  BY <1>1, <1>2, <1>4 DEF ExchInv, OneTrackedPerMarket, HasOpen
<1>8. EntryApart'
  BY <1>1 DEF EntryApart, TraderIdle, Entering
<1>9. ASSUME exch[m] # 0 PROVE Tracked(m)'
  <2>1. Live(id) /\ exch[m] = pos[id].size
    BY <1>1, <1>2, <1>3, <1>9, OnlyTheEntry DEF Entered, Entering
  <2>2. id \in LiveIn(m)'
    BY <1>1, <1>2, <1>4, <2>1 DEF LiveIn, Live
  <2>3. closer["monitor"].pc # "idle" => closer["monitor"].id # id
    BY <1>4 DEF ExchInv, OneCloser
  <2>4. Sold(id)' = 0 /\ exch[m] \in Nat
    BY <1>1, <2>3, Quantities DEF Sold
  <2> QED BY <1>1, <2>1, <2>2, <2>3, <2>4 DEF Tracked
<1>10. \A n \in Markets : n # m /\ exch'[n] # 0 => Tracked(n)'
  BY <1>1, <1>3, <1>5, EntryElsewhere DEF Entering
<1> QED BY <1>1, <1>6, <1>7, <1>8, <1>9, <1>10 DEF ExchInv, Known

LEMMA TraderStepExch ==
  ASSUME Typed, ExchInv, NothingBlinds, TraderStep
  PROVE  ExchInv'
<1> USE DEF memory, exchange
\* The entry goes on with what it has, or is given up with nothing held.
<1>1. ASSUME UNCHANGED <<up, pos, open, exch, closer, monitor>>,
             trader'.pc \in {"idle", "placed", "persisted"},
             \/ trader'.pc = "idle" /\ (trader.pc \in Entering => exch[trader.mkt] = 0)
             \/ /\ trader.pc \in {"placing", "placed"} /\ trader'.pc # "idle"
                /\ trader'.mkt = trader.mkt /\ trader'.id = trader.id
      PROVE  ExchInv'
  <2>1. EntryStep
    BY <1>1 DEF EntryStep
  <2>2. EntryApart'
    BY <1>1 DEF ExchInv, EntryApart, Entering, HasOpen, Live
  <2>3. ASSUME NEW m \in Markets, m = trader.mkt, trader.pc \in {"quote"} \cup Entering
        PROVE  exch'[m] = 0 \/ Entered(m)'
    <3>1. exch[m] = 0 \/ Entered(m)
      BY <2>3, OnlyTheEntry
    <3> QED BY <1>1, <2>3, <3>1 DEF Entered, Live, Entering
  <2> QED BY <1>1, <2>1, <2>2, <2>3, EntryKeeps
<1>2. CASE PassCaps
  <2>1. /\ trader.pc = "gate" /\ ~HasOpen(trader.mkt)
        /\ trader' = [trader EXCEPT !.pc = "quote"]
        /\ UNCHANGED <<up, pos, open, exch, closer, monitor>>
    BY <1>2 DEF PassCaps
  <2>2. trader'.pc = "quote" /\ trader'.mkt = trader.mkt
    BY <2>1, TraderIs
  <2>3. EntryStep
    BY <2>1 DEF EntryStep
  <2>4. EntryApart'
    BY <2>1, <2>2 DEF EntryApart, Entering, HasOpen
  <2> QED BY <2>1, <2>3, <2>4, EntryKeeps DEF Entering
<1>3. CASE RejectTrade
  <2>1. /\ trader.pc \in {"gate", "quote"} /\ trader' = TraderIdle
        /\ UNCHANGED <<up, pos, open, exch, closer, monitor>>
    BY <1>3 DEF RejectTrade
  <2> QED BY <1>1, <2>1 DEF TraderIdle, Entering
<1>4. ASSUME NEW id \in Ids, NEW lots \in 1 .. MaxLots, NEW mode \in Modes,
             SendOrder(id, lots, mode)
      PROVE  ExchInv'
  <2>1. /\ trader.pc = "quote" /\ pos[id].status = "unused"
        /\ UNCHANGED <<up, open, exch, closer, monitor>>
    BY <1>4 DEF SendOrder
  <2>2. /\ \A j \in Ids \ {id} : pos'[j] = pos[j]
        /\ pos'[id] = [Unused EXCEPT !.mkt = trader.mkt, !.mode = mode, !.status = "open",
                                     !.size = lots]
    BY <1>4 DEF SendOrder, Typed, TypeOK, MemoryOK
  <2>3. pos'[id].mkt = trader.mkt /\ pos'[id].mode = mode
    BY <2>2 DEF Unused
  <2>4. trader' = [trader EXCEPT !.pc = IF mode = "live" THEN "sent" ELSE "placed",
                                 !.id = id, !.lots = lots]
    BY <1>4 DEF SendOrder
  <2>5. /\ trader'.pc = IF mode = "live" THEN "sent" ELSE "placed"
        /\ trader'.mkt = trader.mkt /\ trader'.id = id
    BY <2>4, TraderIs
  <2>6. id \notin open /\ \A j \in open : j \in Ids
    BY <2>1 DEF Typed, Refs, BookRefs, Used
  <2>7. EntryStep
    BY <2>1, <2>2, <2>6 DEF EntryStep
  <2>8. ~HasOpen(trader.mkt) /\ exch[trader.mkt] = 0
    BY <2>1, OnlyTheEntry DEF Entered
  <2>9. EntryApart'
    <3>1. ~HasOpen(trader.mkt)'
      BY <2>1, <2>2, <2>5, <2>6, <2>8 DEF HasOpen
    <3> QED BY <2>1, <2>3, <2>5, <2>6, <3>1 DEF EntryApart, Live
  <2> QED BY <2>1, <2>7, <2>8, <2>9, EntryKeeps
<1>5. CASE ExecuteOpen
  <2>1. trader.pc = "sent" /\ UNCHANGED <<up, pos, open, closer, monitor>>
    BY <1>5 DEF ExecuteOpen
  <2>2. /\ trader.mkt \in Markets /\ ~HasOpen(trader.mkt) /\ exch[trader.mkt] = 0
    BY <2>1, OnlyTheEntry DEF Entered, Entering
  <2>3. PICK m \in Markets : m = trader.mkt
    BY <2>2
  <2>4. PICK fill \in 0 .. trader.lots :
          /\ \/ trader' = [trader EXCEPT !.pc = "replied", !.lots = fill]
             \/ trader' = [trader EXCEPT !.pc = "verify"]
          /\ exch' = [exch EXCEPT ![trader.mkt] = @ + fill]
    BY <1>5, Zenon DEF ExecuteOpen
  <2>5. exch'[m] = fill /\ \A n \in Markets : n # m => exch'[n] = exch[n]
    BY <2>2, <2>3, <2>4, Quantities
  <2>6. /\ trader'.mkt = m /\ trader'.id = trader.id
        /\ trader'.pc = "verify" \/ (trader'.pc = "replied" /\ trader'.lots = fill)
    BY <2>3, <2>4, TraderIs
  <2>7. EntryStep
    BY <2>1, <2>3, <2>5 DEF EntryStep
  <2>8. EntryApart'
    <3>1. ~HasOpen(trader.mkt)'
      BY <2>1, <2>2, <2>3, <2>6 DEF HasOpen
    <3> QED BY <2>1, <2>3, <2>6, <3>1 DEF ExchInv, EntryApart, Entering, Live
  <2>9. Entered(m)'
    BY <2>5, <2>6 DEF Entered
  <2> QED BY <2>1, <2>2, <2>3, <2>7, <2>8, <2>9, EntryKeeps DEF Entering
\* The position takes the size that is held.
<1>6. ASSUME trader.pc \in {"replied", "verify"},
             UNCHANGED <<up, open, exch, closer, monitor>>,
             NEW held \in Nat, held = exch[trader.mkt] \/ exch[trader.mkt] = 0,
             pos' = [pos EXCEPT ![trader.id].size = held],
             trader'.pc = "placing", trader'.mkt = trader.mkt, trader'.id = trader.id
      PROVE  ExchInv'
  <2>1. PICK m \in Markets : m = trader.mkt
    BY <1>6, OnlyTheEntry DEF Entering
  <2>2. PICK id \in Ids : id = trader.id
    BY <1>6 DEF Typed, Refs, TraderRefs, Used, Entering
  <2>3. id \notin open /\ pos[id].mkt = m /\ pos[id].mode = "live" /\ ~HasOpen(m)
        /\ \A j \in open : j \in Ids
    BY <1>6, <2>1, <2>2, OnMarkets DEF ExchInv, EntryApart, Entering, Live
  <2>4. /\ \A j \in Ids \ {id} : pos'[j] = pos[j]
        /\ pos'[id].mkt = m /\ pos'[id].mode = "live" /\ pos'[id].size = held
    BY <1>6, <2>2, <2>3 DEF Typed, TypeOK, MemoryOK, Position
  <2>5. EntryStep
    BY <1>6, <2>3, <2>4 DEF EntryStep
  <2>6. EntryApart'
    <3>1. ~HasOpen(trader.mkt)'
      BY <1>6, <2>1, <2>3, <2>4 DEF HasOpen
    <3> QED BY <1>6, <2>1, <2>2, <2>3, <2>4, <3>1 DEF EntryApart, Live
  <2>7. exch'[m] = 0 \/ Entered(m)'
    BY <1>6, <2>1, <2>2, <2>4 DEF Entered, Live
  <2> QED BY <1>6, <2>1, <2>5, <2>6, <2>7, EntryKeeps DEF Entering
<1>7. CASE OpenReply
  <2>1. trader.pc = "replied" /\ UNCHANGED <<up, open, exch, closer, monitor>>
    BY <1>7 DEF OpenReply
  <2>2. exch[trader.mkt] = 0 \/ exch[trader.mkt] = trader.lots
    BY <2>1, OnlyTheEntry DEF Entered, Entering
  <2>3. CASE trader.lots = 0
    BY <1>1, <1>7, <2>1, <2>2, <2>3 DEF OpenReply, TraderIdle
  <2>4. CASE trader.lots # 0
    <3>1. PICK held \in Nat : held = trader.lots
      BY Quantities
    <3>2. /\ pos' = [pos EXCEPT ![trader.id].size = held]
          /\ trader' = [trader EXCEPT !.pc = "placing"]
      BY <1>7, <2>4, <3>1 DEF OpenReply
    <3>3. trader'.pc = "placing" /\ trader'.mkt = trader.mkt /\ trader'.id = trader.id
      BY <3>2, TraderIs
    <3> QED BY <1>6, <2>1, <2>2, <3>1, <3>2, <3>3
  <2> QED BY <2>3, <2>4
<1>8. CASE VerifyOrder
  <2>1. trader.pc = "verify" /\ UNCHANGED <<up, open, exch, closer, monitor>>
    BY <1>8 DEF VerifyOrder
  <2>2. ~Fault("fetch") /\ ~Fault("glitch")
    BY DEF NothingBlinds, Fault
  <2>3. PICK held \in Nat : held = exch[trader.mkt]
    BY <2>1, OnlyTheEntry, Quantities DEF Entering
  <2>4. CASE held = 0
    BY <1>1, <1>8, <2>1, <2>2, <2>3, <2>4 DEF VerifyOrder, TraderIdle
  <2>5. CASE held # 0
    <3>1. /\ pos' = [pos EXCEPT ![trader.id].size = held]
          /\ trader' = [trader EXCEPT !.pc = "placing", !.lots = held]
      BY <1>8, <2>2, <2>3, <2>5 DEF VerifyOrder
    <3>2. trader'.pc = "placing" /\ trader'.mkt = trader.mkt /\ trader'.id = trader.id
      BY <3>1, TraderIs
    <3> QED BY <1>6, <2>1, <2>3, <3>1, <3>2
  <2> QED BY <2>4, <2>5
<1>9. CASE PlaceStop
  <2>1. /\ trader.pc = "placing" /\ UNCHANGED <<up, open, exch, closer, monitor>>
        /\ trader' = [trader EXCEPT !.pc = "placed"]
    BY <1>9 DEF PlaceStop
  <2>2. PICK m \in Markets : m = trader.mkt
    BY <2>1, OnlyTheEntry DEF Entering
  <2>3. PICK id \in Ids : id = trader.id
    BY <2>1 DEF Typed, Refs, TraderRefs, Used, Entering
  <2>4. pos' = pos \/ pos' = [pos EXCEPT ![id].stop = TRUE]
    BY <1>9, <2>3 DEF PlaceStop
  <2>5. /\ \A j \in Ids \ {id} : pos'[j] = pos[j]
        /\ pos'[id].mkt = pos[id].mkt /\ pos'[id].mode = pos[id].mode
        /\ pos'[id].size = pos[id].size
    BY <2>4 DEF Typed, TypeOK, MemoryOK, Position
  <2>6. trader'.pc = "placed" /\ trader'.mkt = trader.mkt /\ trader'.id = trader.id
    BY <2>1, TraderIs
  <2>7. id \notin open /\ \A j \in open : j \in Ids
    BY <2>1, <2>3, OnMarkets DEF ExchInv, EntryApart, Entering
  <2>8. EntryStep
    BY <2>1, <2>5, <2>7 DEF EntryStep
  <2>9. EntryApart'
    <3>1. ~HasOpen(trader.mkt)'
      BY <2>1, <2>5, <2>6, <2>7 DEF ExchInv, EntryApart, Entering, HasOpen
    <3> QED BY <2>1, <2>3, <2>5, <2>6, <2>7, <3>1 DEF ExchInv, EntryApart, Entering
  <2>10. exch'[m] = 0 \/ Entered(m)'
    BY <2>1, <2>2, <2>3, <2>5, <2>6, OnlyTheEntry DEF Entered, Live, Entering
  <2> QED BY <2>1, <2>2, <2>8, <2>9, <2>10, EntryKeeps DEF Entering
<1>10. CASE PersistOpen
  <2>1. /\ trader.pc = "placed" /\ trader' = [trader EXCEPT !.pc = "persisted"]
        /\ UNCHANGED <<up, pos, open, exch, closer, monitor>>
    BY <1>10 DEF PersistOpen
  <2>2. trader'.pc = "persisted" /\ trader'.mkt = trader.mkt /\ trader'.id = trader.id
    BY <2>1, TraderIs
  <2> QED BY <1>1, <2>1, <2>2
<1> QED
  BY <1>2, <1>3, <1>4, <1>5, <1>7, <1>8, <1>9, <1>10, TrackExch DEF TraderStep
-----------------------------------------------------------------------------
LEMMA RequestExch ==
  ASSUME Typed, ExchInv, MonitorAlone, Request
  PROVE  ExchInv'
<1>1. PICK m \in Markets : StartTrade(m)
  BY DEF Request, MonitorAlone, ContraryClose
<1>2. /\ trader.pc = "idle" /\ trader'.pc = "gate"
      /\ UNCHANGED <<up, pos, open, exch, closer, monitor>>
  BY <1>1 DEF StartTrade, TraderFree, TraderIdle, memory, exchange
<1>3. EntryStep
  BY <1>2 DEF EntryStep
<1>4. EntryApart'
  BY <1>2 DEF EntryApart, Entering
<1> QED BY <1>2, <1>3, <1>4, EntryKeeps DEF Entering

LEMMA WorldExch ==
  ASSUME Typed, ExchInv, NothingBlinds, World
  PROVE  ExchInv'
<1>1. ASSUME NEW id \in Ids, Expire(id)
      PROVE  ExchInv'
  <2>1. UNCHANGED <<up, pos, open, exch, trader, closer, monitor>>
    BY <1>1 DEF Expire, memory, exchange, tasks
  <2>2. OneCloser' /\ PollHolds'
    BY <2>1 DEF ExchInv, OneCloser, PollHolds
  <2> QED BY <2>1, <2>2, LookStep
<1>2. ASSUME NEW m \in Markets, ExchangeFlattens(m)
      PROVE  ExchInv'
  <2>1. /\ UNCHANGED <<up, pos, open, trader, closer, monitor>>
        /\ exch'[m] = 0 /\ \A n \in Markets \ {m} : exch'[n] = exch[n]
    BY <1>2, Quantities DEF ExchangeFlattens, memory, tasks
  <2>2. OneCloser' /\ EntryApart' /\ OneTrackedPerMarket'
    BY <2>1 DEF ExchInv, OneCloser, EntryApart, HasOpen, Live, OneTrackedPerMarket
  <2>3. \A n \in Markets : exch[n] = 0 => exch'[n] = 0
    BY <2>1
  <2>4. \A id \in monitor.left : pos[id].mkt \in Markets
    BY OnMarkets DEF ExchInv, OneCloser
  <2>5. PollHolds'
    BY <2>1, <2>3, <2>4, PollStep
  <2>6. ASSUME NEW n \in Markets, exch'[n] # 0
        PROVE  Entered(n)' \/ Tracked(n)'
    <3>1. exch'[n] = exch[n] /\ (Entered(n) \/ Tracked(n))
      BY <2>1, <2>6 DEF ExchInv, Known
    <3> QED BY <2>1, <3>1 DEF Entered, Tracked, LiveIn, Live, Sold
  <2> QED BY <2>1, <2>2, <2>5, <2>6 DEF ExchInv, Known
<1>3. ~Crash
  BY DEF Crash, Fault, NothingBlinds
<1> QED BY <1>1, <1>2, <1>3 DEF World

LEMMA InitExch == Init => ExchInv
BY DEF Init, ExchInv, OneCloser, EntryApart, OneTrackedPerMarket, Known, PollHolds, TraderIdle,
       CloserIdle, MonitorIdle, Entering, Closers

LEMMA NextExch ==
  ASSUME Typed, ExchInv, MonitorAlone, NothingBlinds, [Next]_vars
  PROVE  ExchInv'
<1>1. CASE Request BY <1>1, RequestExch
<1>2. CASE TraderStep BY <1>2, TraderStepExch
<1>3. ASSUME NEW c \in Closers, CloserStep(c) PROVE ExchInv' BY <1>3, CloserStepExch
<1>4. CASE MonitorStep BY <1>4, MonitorStepExch
<1>5. CASE World BY <1>5, WorldExch
<1>6. ~Restart
  BY DEF Restart, ExchInv
<1>7. CASE UNCHANGED vars
  <2>1. UNCHANGED <<up, pos, open, exch, trader, closer, monitor>>
    BY <1>7 DEF vars, memory, exchange, tasks
  <2>2. OneCloser' /\ PollHolds'
    BY <2>1 DEF ExchInv, OneCloser, PollHolds
  <2> QED BY <2>1, <2>2, LookStep
<1> QED BY <1>1, <1>2, <1>3, <1>4, <1>5, <1>6, <1>7 DEF Next

LEMMA ExchInvSafe ==
  ASSUME Typed, ExchInv
  PROVE  BookMatchesExchange
<1> SUFFICES ASSUME NEW m \in Markets, ~OrderInFlight(m), exch[m] # 0
             PROVE  \E id \in LiveIn(m) : LiveIn(m) = {id} /\ exch[m] = pos[id].size
  BY DEF BookMatchesExchange
<1>1. ~Entered(m)
  BY DEF Entered, OrderInFlight
<1>2. PICK id \in LiveIn(m) : exch[m] + Sold(id) = pos[id].size
  BY <1>1 DEF ExchInv, Known, Tracked
<1>3. id \in open /\ pos[id].mkt = m /\ id \in Ids
  BY <1>2, OnMarkets DEF LiveIn
<1>4. Sold(id) = 0
  BY <1>3, CallersAreClosers DEF Sold, OrderInFlight
<1>5. LiveIn(m) = {id}
  BY <1>2, <1>3 DEF ExchInv, OneTrackedPerMarket, LiveIn
<1>6. exch[m] = pos[id].size
  BY <1>2, <1>3, <1>4, Quantities
<1> QED BY <1>2, <1>5, <1>6

(* BookMatchesExchange: with the monitor as the only closer, an exchange   *)
(* that can be asked and no crash, whatever is held on a market at a       *)
(* moment without an order on its way is exactly the size of the one live  *)
(* position tracked there, through partial fills, rejected and lost orders *)
(* and failed writes (executor.open's and executor.close's bookkeeping).   *)
THEOREM BookMatches == MonitorAlone /\ NothingBlinds => (Spec => []BookMatchesExchange)
<1> SUFFICES ASSUME MonitorAlone /\ NothingBlinds PROVE Spec => []BookMatchesExchange
  OBVIOUS
<1>1. Init => ExchInv BY InitExch
<1>2. Typed /\ ExchInv /\ [Next]_vars => ExchInv' BY NextExch
<1>3. Typed /\ ExchInv => BookMatchesExchange BY ExchInvSafe
<1>4. Spec => []Typed BY TypeCorrect DEF Typed
<1> QED BY <1>1, <1>2, <1>3, <1>4, PTL DEF Spec
-----------------------------------------------------------------------------
(* An order is sent only to a market where nothing is held, so whatever is *)
(* found there after an order of unknown outcome is what it asked for.     *)
LEMMA ExchGrows ==
  ASSUME Typed, [Next]_vars, ~ExecuteOpen
  PROVE  \A m \in Markets : exch'[m] <= exch[m]
<1>0. \A m \in Markets : exch[m] \in Nat /\ exch[m] <= exch[m]
  BY Quantities
<1>1. CASE Request \/ MonitorStep \/ Restart \/ UNCHANGED vars
  <2>1. exch' = exch
    <3>1. CASE Request
      BY <3>1 DEF Request, StartTrade, ContraryClose, UserClose, exchange
    <3>2. CASE MonitorLooks
      BY <3>2 DEF MonitorLooks, FetchStates, StartReconcile, ReconcileSkip,
                  ReconcilePresent, ReconcileMiss, ScanSkip, ScanAsk, StartScan,
                  ScanRaises, EndScan, exchange
    <3>3. CASE (\E id \in Ids : ReconcileGone(id)) \/ FinishMark \/ ScanExit \/ ScanKeep
      BY <3>3 DEF ReconcileGone, FinishMark, ScanExit, ScanKeep, exchange
    <3>4. CASE Restart \/ UNCHANGED vars
      BY <3>4 DEF Restart, vars, exchange
    <3> QED BY <1>1, <3>1, <3>2, <3>3, <3>4 DEF MonitorStep, MonitorLooks
  <2> QED BY <1>0, <2>1
<1>2. CASE TraderStep
  <2>1. CASE PassCaps \/ RejectTrade \/ OpenReply \/ VerifyOrder
    BY <1>0, <2>1 DEF PassCaps, RejectTrade, OpenReply, VerifyOrder, exchange
  <2>2. ASSUME NEW id \in Ids, NEW lots \in 1 .. MaxLots, NEW mode \in Modes,
               SendOrder(id, lots, mode)
        PROVE  exch' = exch
    BY <2>2 DEF SendOrder, exchange
  <2>3. CASE PlaceStop \/ PersistOpen \/ Track
    BY <1>0, <2>3 DEF PlaceStop, PersistOpen, Track, exchange
  <2> QED BY <1>0, <1>2, <2>1, <2>2, <2>3 DEF TraderStep
<1>3. ASSUME NEW c \in Closers, CloserStep(c)
      PROVE  \A m \in Markets : exch'[m] <= exch[m]
  <2>1. CASE ExecuteClose(c)
    <3> DEFINE m == pos[closer[c].id].mkt
    <3>1. PICK sold \in 0 .. exch[m] : exch' = [exch EXCEPT ![m] = exch[m] - sold]
      BY <2>1, Zenon DEF ExecuteClose
    <3>2. m \in Markets
      BY <2>1 DEF ExecuteClose, Typed, Refs, CloserRefs, Used
    <3> HIDE DEF m
    <3>3. exch[m] \in Nat
      BY <1>0, <3>2
    <3>4. exch[m] - sold <= exch[m]
      BY <3>3
    <3> QED BY <1>0, <3>1, <3>2, <3>4, Quantities
  <2>2. CASE CloseUnfilled(c) \/ ClosePartial(c) \/ CloseFilled(c)
    BY <1>0, <2>2 DEF CloseUnfilled, ClosePartial, CloseFilled, exchange
  <2>3. CASE RecordClose(c) \/ PaperPriceRaises(c)
    BY <1>0, <2>3 DEF RecordClose, PaperPriceRaises, exchange
  <2>4. CASE FinishClose(c) \/ CloseRaises(c) \/ FinishPartial(c)
    BY <1>0, <2>4 DEF FinishClose, CloseRaises, FinishPartial, exchange
  <2> QED BY <1>3, <2>1, <2>2, <2>3, <2>4 DEF CloserStep
<1>4. CASE World
  BY <1>0, <1>4, Quantities DEF World, Expire, ExchangeFlattens, Crash, exchange
<1> QED BY <1>1, <1>2, <1>3, <1>4 DEF Next

LEMMA AdoptsKept ==
  ASSUME Typed, Typed', ExchInv, AdoptsNoMore, [Next]_vars PROVE AdoptsNoMore'
<1> SUFFICES ASSUME trader'.pc = "verify" PROVE exch'[trader'.mkt] <= trader'.lots
  BY DEF AdoptsNoMore
<1> DEFINE m == trader.mkt
<1>0. trader \in TraderState
  BY DEF Typed, TypeOK
<1>1. CASE ExecuteOpen
  <2>1. trader.pc = "sent" /\ m \in Markets
    BY <1>1 DEF ExecuteOpen, Typed, Refs, TraderRefs
  <2>2. ~Entered(m) /\ ~Tracked(m)
    BY <2>1 DEF Entered, Tracked, LiveIn, ExchInv, EntryApart, HasOpen, Entering
  <2>3. exch[m] = 0
    BY <2>1, <2>2 DEF ExchInv, Known
  <2>4. PICK fill \in 0 .. trader.lots :
          /\ \/ trader' = [trader EXCEPT !.pc = "replied", !.lots = fill]
             \/ trader' = [trader EXCEPT !.pc = "verify"]
          /\ exch' = [exch EXCEPT ![m] = @ + fill]
    BY <1>1 DEF ExecuteOpen
  <2>5. trader' = [trader EXCEPT !.pc = "verify"]
    BY <1>0, <2>4 DEF TraderState
  <2>6. trader'.mkt = m /\ trader'.lots = trader.lots
    BY <1>0, <2>5 DEF TraderState
  <2>7. trader.lots \in Nat
    BY Sizes
  <2>8. fill \in Nat /\ fill <= trader.lots
    BY <2>7
  <2>9. exch'[m] = fill
    BY <2>1, <2>3, <2>4, <2>8, Quantities
  <2> QED BY <2>6, <2>8, <2>9
<1>2. CASE ~ExecuteOpen
  <2>1. trader' = trader
    <3>1. CASE TraderStep
      <4>1. CASE PassCaps \/ RejectTrade
        BY <1>0, <4>1 DEF PassCaps, RejectTrade, TraderIdle, TraderState
      <4>4. CASE OpenReply
        BY <1>0, <4>4 DEF OpenReply, TraderIdle, TraderState
      <4>5. CASE VerifyOrder
        <5>1. exch[trader.mkt] \in Nat
          BY <4>5, Quantities DEF VerifyOrder, Typed, Refs, TraderRefs
        <5>2. PICK held \in Nat :
                \/ trader' = [trader EXCEPT !.pc = "placing", !.lots = held]
                \/ trader' = TraderIdle
          BY <4>5, <5>1 DEF VerifyOrder
        <5>3. CASE trader' = TraderIdle
          BY <5>3 DEF TraderIdle
        <5>4. CASE trader' = [trader EXCEPT !.pc = "placing", !.lots = held]
          BY <1>0, <5>4 DEF TraderState
        <5> QED BY <5>2, <5>3, <5>4
      <4>2. ASSUME NEW id \in Ids, NEW lots \in 1 .. MaxLots, NEW mode \in Modes,
                   SendOrder(id, lots, mode)
            PROVE  FALSE
        BY <1>0, <4>2 DEF SendOrder, TraderState
      <4>3. CASE PlaceStop \/ PersistOpen \/ Track
        BY <1>0, <4>3 DEF PlaceStop, PersistOpen, Track, TraderIdle, TraderState
      <4> QED BY <1>2, <3>1, <4>1, <4>2, <4>3, <4>4, <4>5 DEF TraderStep
    <3>2. CASE Request
      BY <3>2 DEF Request, StartTrade, ContraryClose, UserClose, TraderIdle
    <3>3. ASSUME NEW c \in Closers, CloserStep(c) PROVE trader' = trader
      BY <3>3, CloserLessens DEF Lessens, TraderIdle
    <3>4. CASE MonitorStep
      BY <3>4, MonitorLessens DEF Lessens, TraderIdle
    <3>5. CASE World
      BY <3>5, WorldLessens DEF Lessens, TraderIdle
    <3>6. CASE Restart \/ UNCHANGED vars
      BY <3>6 DEF Restart, vars, tasks
    <3> QED BY <3>1, <3>2, <3>3, <3>4, <3>5, <3>6 DEF Next
  <2>2. trader.pc = "verify" /\ m \in Markets
    BY <2>1 DEF Typed, Refs, TraderRefs
  <2>3. exch'[m] <= exch[m]
    BY <1>2, <2>2, ExchGrows
  <2>4. exch[m] <= trader.lots
    BY <2>2 DEF AdoptsNoMore
  <2>5. exch[m] \in Nat /\ exch'[m] \in Nat /\ trader.lots \in Nat
    BY <2>2, Quantities, Sizes DEF Typed, TypeOK, WorldOK
  <2> QED BY <2>1, <2>3, <2>4, <2>5
<1> QED BY <1>1, <1>2

(* ExposureWithinCap: in the same setting max_total_exposure holds at      *)
(* every moment, through adopted fills and failed writes, although the     *)
(* gate reads the budget before the order and fills change the size after. *)
THEOREM ExposureKeptLive == MonitorAlone /\ NothingBlinds => (Spec => []ExposureWithinCap)
<1> SUFFICES ASSUME MonitorAlone /\ NothingBlinds PROVE Spec => []ExposureWithinCap
  OBVIOUS
<1>1. Init => ExchInv /\ ExposureInv /\ AdoptsNoMore
  BY InitExch, InitExposure DEF Init, AdoptsNoMore, TraderIdle
<1>2. Typed /\ ExchInv /\ [Next]_vars => ExchInv' BY NextExch
<1>3. Typed /\ Typed' /\ ExchInv /\ ExposureInv /\ AdoptsNoMore /\ [Next]_vars
        => (ExposureInv /\ AdoptsNoMore)'
  <2> SUFFICES ASSUME Typed, Typed', ExchInv, ExposureInv, AdoptsNoMore, [Next]_vars
               PROVE  ExposureInv' /\ AdoptsNoMore'
    OBVIOUS
  <2>1. EntryUntracked /\ ~Restart
    BY DEF EntryUntracked, ExchInv, EntryApart, Restart
  <2> QED BY <2>1, ExposureKept, AdoptsKept
<1>4. Spec => []Typed BY TypeCorrect DEF Typed
<1>5. ExposureInv => ExposureWithinCap
  BY DEF ExposureInv
<1> QED BY <1>1, <1>2, <1>3, <1>4, <1>5, PTL DEF Spec
-----------------------------------------------------------------------------
(***************************************************************************)
(* The reconciler.  It records a close without sending an order, so it     *)
(* must be right that the exchange holds nothing, though an answer may be  *)
(* empty by mistake, any number of callers may close at once, and the      *)
(* process may die at any time.                                            *)
(***************************************************************************)

(* Orders are filled and writes succeed; answers may be empty by mistake.  *)
OrdersFill == Faults \subseteq {"crash", "glitch", "stop"}

Held(id) == exch[pos[id].mkt] # 0
Closes(c, id) == closer[c].pc # "idle" /\ closer[c].id = id
Sending(id) == \E c \in Closers : Closes(c, id) /\ closer[c].pc = "sent"

(* Only a live position has an order to send; once it was executed, its    *)
(* market is flat while it is tracked...                                   *)
Flattened ==
  /\ \A c \in Closers : closer[c].pc \notin {"unsaved", "unmarked"}
  /\ \A c \in Closers : closer[c].pc = "sent" => Live(closer[c].id)
  /\ \A c \in Closers, id \in open :
       Closes(c, id) /\ closer[c].pc # "sent" /\ Live(id) => ~Held(id)

(* ... and until then the guard of force_close is held: two closes of one  *)
(* position share it, and the first to end gives it back.                  *)
Guarded ==
  /\ \A id \in open : Sending(id) /\ Held(id) => id \in closing
  /\ \A id \in closing : \E c \in Closers : Closes(c, id) /\ closer[c].pc # "marked"

Polled == monitor.pc \in {"fetched", "reconcile"}

(* A position still held that was missed is being closed, or the poll that *)
(* missed it was the last one and a mistake, or this poll has seen it.     *)
Excused(id) ==
  \/ Sending(id)
  \/ monitor.glitched /\ (Polled => id \notin monitor.left)
  \/ /\ ~monitor.glitched /\ Polled
     /\ id \in monitor.left /\ pos[id].mkt \in monitor.seen

Missed ==
  /\ \A id \in open : misses[id] # 0 /\ Held(id) => Excused(id)
  /\ \A id \in Ids : misses[id] # 0 => Live(id) /\ OpenOrClosed(id)

(* What this poll says of the positions it is about.                       *)
PollTrue ==
  /\ Polled => \A id \in monitor.left : Live(id) /\ (id \notin open => misses[id] = 0)
  /\ Polled /\ ~monitor.known => monitor.left = {}
  /\ Polled /\ ~monitor.glitched =>
       \A id \in monitor.left \cap open : pos[id].mkt \in monitor.seen \/ ~Held(id)

DownForgets ==
  ~up => /\ \A id \in Ids : misses[id] = 0
         /\ \A c \in Closers : closer[c].pc = "idle"
         /\ monitor.pc = "idle"

GoneInv == Flattened /\ Guarded /\ Missed /\ PollTrue /\ DownForgets
-----------------------------------------------------------------------------
(* What a step may do to a position that exists, and to its market.        *)
Steady == \A id \in Ids : pos[id].status # "unused" =>
  /\ pos'[id].mkt = pos[id].mkt /\ pos'[id].mode = pos[id].mode
  /\ pos[id].status = "closed" => pos'[id].status = "closed"
NothingBought == \A id \in open : Held(id)' => Held(id)

(* A position newly tracked is one that nobody has dealt with yet.         *)
OnlyNewTracked == \A id \in open' \ open :
  /\ id \in Ids /\ misses[id] = 0 /\ id \notin monitor.left
  /\ \A c \in Closers : ~Closes(c, id)

LEMMA TrackedExist ==
  ASSUME Typed
  PROVE  /\ \A id \in open : id \in Ids /\ pos[id].status # "unused"
         /\ \A id \in monitor.left : id \in Ids /\ pos[id].status # "unused"
         /\ \A c \in Closers : closer[c].pc # "idle" =>
              closer[c].id \in Ids /\ pos[closer[c].id].status # "unused"
         /\ \A id \in Ids : OpenOrClosed(id) => pos[id].status # "unused"
BY DEF Typed, Refs, BookRefs, MonitorRefs, CloserRefs, Used, OpenOrClosed

LEMMA SteadyWhenUnchanged ==
  /\ pos' = pos => Steady
  /\ pos' = pos /\ exch' = exch => NothingBought
BY DEF Steady, NothingBought, Held

LEMMA SteadyWhenTouched ==
  ASSUME Typed, NEW id \in Ids, NEW r, pos' = [pos EXCEPT ![id] = r],
         pos[id].status # "unused" =>
           /\ r.mkt = pos[id].mkt /\ r.mode = pos[id].mode
           /\ r.status = pos[id].status \/ r.status = "closed"
  PROVE  Steady /\ (exch' = exch => NothingBought)
<1>1. \A j \in Ids : pos'[j] = IF j = id THEN r ELSE pos[j]
  BY DEF Typed, TypeOK, MemoryOK
<1>2. Steady
  BY <1>1 DEF Steady
<1>3. exch' = exch => NothingBought
  BY <1>2, TrackedExist DEF Steady, NothingBought, Held
<1> QED BY <1>2, <1>3

LEMMA TasksGoOn ==
  ASSUME Typed, GoneInv, Steady, NothingBought, OnlyNewTracked,
         UNCHANGED <<closer, closing>>
  PROVE  Flattened' /\ Guarded'
<1>1. \A c \in Closers, id \in open' : Closes(c, id)' => Closes(c, id) /\ id \in open
  BY DEF OnlyNewTracked, Closes
<1>2. \A id \in open : (Live(id)' <=> Live(id)) /\ (Held(id)' => Held(id))
  BY TrackedExist DEF Steady, NothingBought, Live
<1>3. \A c \in Closers : closer[c].pc = "sent" => Live(closer[c].id)'
  BY TrackedExist DEF GoneInv, Flattened, Steady, Live
<1>4. Flattened'
  BY <1>1, <1>2, <1>3 DEF GoneInv, Flattened
<1>5. \A id \in open' : Sending(id)' => Sending(id) /\ id \in open
  BY <1>1 DEF Sending
<1>6. Guarded'
  BY <1>2, <1>5 DEF GoneInv, Guarded, Closes
<1> QED BY <1>4, <1>6

LEMMA PollKept ==
  ASSUME Typed, GoneInv, Steady, NothingBought, OnlyNewTracked,
         \A id \in Ids : misses'[id] \in {0, misses[id]},
         \A id \in open \ open' : misses'[id] = 0,
         \A id \in open \cap open' : Held(id)' /\ Sending(id) => Sending(id)',
         \/ monitor' = monitor
         \/ ~Polled /\ ~Polled' /\ monitor'.glitched = monitor.glitched
  PROVE  Missed' /\ PollTrue'
<1>1. ASSUME NEW id \in open', misses'[id] # 0, Held(id)' PROVE Excused(id)'
  <2>1. id \in Ids /\ id \in open /\ misses[id] # 0 /\ Held(id)
    BY <1>1, TrackedExist DEF OnlyNewTracked, NothingBought
  <2>2. Excused(id) /\ pos'[id].mkt = pos[id].mkt
    BY <2>1, TrackedExist DEF GoneInv, Missed, Steady
  <2> QED BY <1>1, <2>1, <2>2 DEF Excused, Polled
<1>2. ASSUME NEW id \in Ids, misses'[id] # 0 PROVE Live(id)' /\ OpenOrClosed(id)'
  <2>1. misses[id] # 0 /\ Live(id) /\ OpenOrClosed(id)
    BY <1>2 DEF GoneInv, Missed
  <2> QED BY <1>2, <2>1, TrackedExist DEF Steady, Live, OpenOrClosed
<1>3. ASSUME Polled' PROVE PollTrue'
  <2>1. monitor' = monitor /\ Polled
    BY <1>3 DEF Polled
  <2>2. ASSUME NEW id \in monitor.left
        PROVE  /\ Live(id)' /\ (id \notin open' => misses'[id] = 0)
               /\ id \in open' => id \in open
    <3>1. id \in Ids /\ pos[id].status # "unused" /\ Live(id) /\ (id \notin open => misses[id] = 0)
      BY <2>1, TrackedExist DEF GoneInv, PollTrue
    <3> QED BY <3>1 DEF Steady, Live, OnlyNewTracked
  <2>3. \A id \in open : Held(id)' => Held(id) /\ pos'[id].mkt = pos[id].mkt
    BY TrackedExist DEF NothingBought, Steady
  <2>4. \A id \in open : pos'[id].mkt = pos[id].mkt
    BY TrackedExist DEF Steady
  <2> QED BY <2>1, <2>2, <2>3, <2>4 DEF GoneInv, PollTrue, Polled
<1>4. ~Polled' => PollTrue'
  BY DEF PollTrue
<1>5. Missed'
  BY <1>1, <1>2 DEF Missed
<1> QED BY <1>3, <1>4, <1>5

LEMMA QuietGone ==
  ASSUME Typed, GoneInv, Steady, NothingBought, OnlyNewTracked,
         open \subseteq open', UNCHANGED <<up, closing, misses, closer, monitor>>
  PROVE  GoneInv'
<1>1. Flattened' /\ Guarded'
  BY TasksGoOn
<1>2. \A id \in open : Sending(id) => Sending(id)'
  BY DEF Sending, Closes
<1>3. Missed' /\ PollTrue'
  BY <1>2, PollKept
<1>4. DownForgets'
  BY DEF GoneInv, DownForgets
<1> QED BY <1>1, <1>3, <1>4 DEF GoneInv
-----------------------------------------------------------------------------
(* A close that begins takes the guard.                                    *)
LEMMA BeginGone ==
  ASSUME Typed, GoneInv, NEW c \in Closers, closer[c].pc = "idle",
         NEW id \in Ids, pos[id].status # "unused",
         BeginClose(c, id), up, UNCHANGED <<up, pos, open, misses, exch>>,
         \/ monitor' = monitor
         \/ ~Polled /\ ~Polled' /\ monitor'.glitched = monitor.glitched
  PROVE  GoneInv'
<1>1. /\ closing' = closing \cup {id}
      /\ closer'[c].pc = IF Live(id) THEN "sent" ELSE "record"
      /\ closer'[c].id = id
      /\ \A k \in Closers \ {c} : closer'[k] = closer[k]
  BY DEF BeginClose, Typed, TypeOK
<1>2. Steady /\ NothingBought /\ OnlyNewTracked
  BY SteadyWhenUnchanged DEF OnlyNewTracked
<1>3. \A j \in open : Sending(j) => Sending(j)'
  BY <1>1 DEF Sending, Closes
<1>4. Missed' /\ PollTrue'
  BY <1>2, <1>3, PollKept
<1>5. \A j \in open : Sending(j)' => Sending(j) \/ j = id
  BY <1>1 DEF Sending, Closes
<1>6. Guarded'
  <2>1. \A j \in open' : Sending(j)' /\ Held(j)' => j \in closing'
    BY <1>1, <1>5 DEF GoneInv, Guarded, Held
  <2>2. ASSUME NEW j \in closing'
        PROVE  \E k \in Closers : Closes(k, j)' /\ closer'[k].pc # "marked"
    <3>1. CASE j = id
      BY <1>1, <3>1 DEF Closes
    <3>2. CASE j # id
      <4>1. PICK k \in Closers : Closes(k, j) /\ closer[k].pc # "marked"
        BY <1>1, <3>2 DEF GoneInv, Guarded
      <4> QED BY <1>1, <4>1 DEF Closes
    <3> QED BY <3>1, <3>2
  <2> QED BY <2>1, <2>2 DEF Guarded
<1>7. Flattened'
  BY <1>1 DEF GoneInv, Flattened, Closes, Held, Live
<1>8. DownForgets'
  BY DEF DownForgets
<1> QED BY <1>4, <1>6, <1>7, <1>8 DEF GoneInv

(* Once its order was executed, or none was needed, a close only books.    *)
LEMMA AdvanceGone ==
  ASSUME Typed, GoneInv, NEW c \in Closers, closer[c].pc \notin {"idle", "sent"},
         NEW pc \in {"replied", "booked", "record", "saved"},
         closer' = [closer EXCEPT ![c].pc = pc],
         Steady, NothingBought, up, UNCHANGED <<up, open, closing, misses, monitor>>
  PROVE  GoneInv'
<1>1. /\ closer'[c].pc = pc
      /\ closer'[c].id = closer[c].id
      /\ \A k \in Closers \ {c} : closer'[k] = closer[k]
  BY DEF Typed, TypeOK, CloserState
<1>2. OnlyNewTracked
  BY DEF OnlyNewTracked
<1>3. \A j \in open : Sending(j) <=> Sending(j)'
  BY <1>1 DEF Sending, Closes
<1>4. Missed' /\ PollTrue'
  BY <1>2, <1>3, PollKept
<1>5. \A j \in open : (Live(j)' <=> Live(j)) /\ (Held(j)' => Held(j))
  BY TrackedExist DEF Steady, NothingBought, Live
<1>6. Guarded'
  <2>1. \A k \in Closers, j \in Ids :
          Closes(k, j) /\ closer[k].pc # "marked" => Closes(k, j)' /\ closer'[k].pc # "marked"
    BY <1>1 DEF Closes
  <2> QED BY <1>3, <1>5, <2>1 DEF GoneInv, Guarded, Typed, TypeOK, MemoryOK
<1>7. Flattened'
  <2>1. \A k \in Closers : closer'[k].pc = "sent" => Live(closer[k].id)'
    BY <1>1, TrackedExist DEF GoneInv, Flattened, Steady, Live
  <2>2. \A k \in Closers, j \in open :
          Closes(k, j)' /\ closer'[k].pc # "sent" => Closes(k, j) /\ closer[k].pc # "sent"
    BY <1>1 DEF Closes
  <2>3. \A k \in Closers : closer'[k].pc \notin {"unsaved", "unmarked"}
    BY <1>1 DEF GoneInv, Flattened
  <2> QED BY <1>5, <2>1, <2>2, <2>3 DEF GoneInv, Flattened
<1>8. DownForgets'
  BY DEF DownForgets
<1> QED BY <1>4, <1>6, <1>7, <1>8 DEF GoneInv

(* A close that ends gives the guard back, for every close of the position:*)
(* whichever still waits for its order will find the market flat.          *)
LEMMA ReleaseGone ==
  ASSUME Typed, GoneInv, NEW c \in Closers, closer[c].pc \notin {"idle", "sent"},
         Release(c), up, UNCHANGED <<up, pos, exch, monitor>>,
         UNCHANGED <<open, misses>> \/ Drop(closer[c].id)
  PROVE  GoneInv'
<1> DEFINE id == closer[c].id
<1>1. /\ closer'[c].pc = "idle"
      /\ \A k \in Closers \ {c} : closer'[k] = closer[k]
      /\ closing' = closing \ {id}
  BY DEF Release, CloserIdle, Typed, TypeOK
<1>2. id \in Ids
  BY TrackedExist
<1>3. /\ open' \subseteq open
      /\ \A j \in open \ open' : misses'[j] = 0
      /\ \A j \in Ids : misses'[j] \in {0, misses[j]}
  BY <1>2 DEF Drop, Typed, TypeOK, MemoryOK
<1> HIDE DEF id
<1>4. Steady /\ NothingBought /\ OnlyNewTracked
  BY <1>3, SteadyWhenUnchanged DEF OnlyNewTracked
<1>5. \A j : Sending(j) <=> Sending(j)'
  BY <1>1 DEF Sending, Closes
<1>6. Missed' /\ PollTrue'
  BY <1>3, <1>4, <1>5, PollKept
<1>7. Guarded'
  <2>1. ASSUME NEW j \in open', Sending(j)', Held(j)' PROVE j \in closing'
    <3>1. Sending(j) /\ Held(j) /\ j \in open
      BY <1>3, <1>5, <2>1 DEF Held
    <3>2. Live(j) /\ j \in closing
      BY <3>1 DEF GoneInv, Flattened, Guarded, Sending, Closes
    <3>3. j # id
      BY <3>1, <3>2 DEF GoneInv, Flattened, Closes, id
    <3> QED BY <1>1, <3>2, <3>3
  <2>2. ASSUME NEW j \in closing'
        PROVE  \E k \in Closers : Closes(k, j)' /\ closer'[k].pc # "marked"
    <3>1. PICK k \in Closers : Closes(k, j) /\ closer[k].pc # "marked"
      BY <1>1 DEF GoneInv, Guarded
    <3>2. k # c
      BY <1>1, <3>1 DEF Closes, id
    <3> QED BY <1>1, <3>1, <3>2 DEF Closes
  <2> QED BY <2>1, <2>2 DEF Guarded
<1>8. Flattened'
  BY <1>1, <1>3 DEF GoneInv, Flattened, Closes, Held, Live
<1>9. DownForgets'
  BY DEF DownForgets
<1> QED BY <1>6, <1>7, <1>8, <1>9 DEF GoneInv

(* The order of a close flattens the market.                               *)
LEMMA ExecuteGone ==
  ASSUME OrdersFill, Typed, GoneInv, NEW c \in Closers, ExecuteClose(c)
  PROVE  GoneInv'
<1> DEFINE id == closer[c].id
           m  == pos[closer[c].id].mkt
<1>1. /\ UNCHANGED <<up, pos, open, closing, misses, monitor>> /\ up
      /\ closer[c].pc = "sent"
  BY Zenon DEF ExecuteClose, memory
<1>2. id \in Ids /\ pos[id].mkt \in Markets
  BY <1>1 DEF Typed, Refs, CloserRefs, Used
<1>3. PICK sold \in 0 .. exch[m], fill \in 0 .. exch[m] :
        /\ \/ sold = exch[m]
           \/ Fault("partial")
           \/ Fault("reject")
        /\ exch' = [exch EXCEPT ![m] = exch[m] - sold]
        /\ closer' = [closer EXCEPT ![c].pc = "replied", ![c].fill = fill]
  BY Zenon DEF ExecuteClose
<1>4. exch' = [exch EXCEPT ![m] = exch[m] - exch[m]]
  BY <1>3 DEF OrdersFill, Fault
<1>5. /\ closer'[c].pc = "replied" /\ closer'[c].id = id
      /\ \A k \in Closers \ {c} : closer'[k] = closer[k]
  BY <1>3 DEF Typed, TypeOK, CloserState
<1>6. exch'[pos[id].mkt] = 0 /\ \A k \in Markets : k # pos[id].mkt => exch'[k] = exch[k]
  BY <1>2, <1>4, Quantities
<1> HIDE DEF id, m
<1>7. \A j \in open : (Held(j)' => Held(j)) /\ (j = id => ~Held(j)')
  BY <1>1, <1>6, OnMarkets DEF Held
<1>8. Steady /\ NothingBought /\ OnlyNewTracked
  BY <1>1, <1>7, SteadyWhenUnchanged DEF NothingBought, OnlyNewTracked
<1>9. \A j \in open : (Sending(j)' => Sending(j)) /\ (Held(j)' /\ Sending(j) => Sending(j)')
  BY <1>5, <1>7 DEF Sending, Closes, id
<1>10. Missed' /\ PollTrue'
  BY <1>1, <1>8, <1>9, PollKept
<1>11. Guarded'
  <2>1. \A k \in Closers, j \in Ids :
          Closes(k, j) /\ closer[k].pc # "marked" => Closes(k, j)' /\ closer'[k].pc # "marked"
    BY <1>5 DEF Closes, id
  <2> QED BY <1>1, <1>7, <1>9, <2>1 DEF GoneInv, Guarded, Typed, TypeOK, MemoryOK
<1>12. Flattened'
  <2>1. \A k \in Closers, j \in open :
          Closes(k, j)' /\ closer'[k].pc # "sent" =>
            j = id \/ (Closes(k, j) /\ closer[k].pc # "sent")
    BY <1>5 DEF Closes, id
  <2>2. \A k \in Closers : /\ closer'[k].pc \notin {"unsaved", "unmarked"}
                           /\ closer'[k].pc = "sent" => Live(closer[k].id) /\ closer'[k].id = closer[k].id
    BY <1>5 DEF GoneInv, Flattened
  <2> QED BY <1>1, <1>7, <2>1, <2>2 DEF GoneInv, Flattened, Live
<1>13. DownForgets'
  BY <1>1 DEF DownForgets
<1> QED BY <1>10, <1>11, <1>12, <1>13 DEF GoneInv

LEMMA CloserStepGone ==
  ASSUME OrdersFill, Typed, GoneInv, NEW c \in Closers, CloserStep(c)
  PROVE  GoneInv'
<1> DEFINE id == closer[c].id
<1>1. closer[c].pc # "idle" => id \in Ids /\ pos[id] \in Position
  BY TrackedExist DEF Typed, TypeOK, MemoryOK
<1>2. ~Fault("mid") /\ ~Fault("db") /\ closer[c].pc # "unsaved"
  BY DEF OrdersFill, Fault, GoneInv, Flattened
<1>3. CASE ExecuteClose(c)
  BY <1>3, ExecuteGone
<1>4. CASE CloseUnfilled(c)
  BY <1>4, ReleaseGone DEF CloseUnfilled, exchange
<1>5. CASE ClosePartial(c)
  <2>1. pos' = [pos EXCEPT ![id] = Sliced(id, closer[c].fill)] /\ closer[c].pc = "replied"
    BY <1>5 DEF ClosePartial
  <2>2. LET r == Sliced(id, closer[c].fill) IN
          r.mkt = pos[id].mkt /\ r.mode = pos[id].mode /\ r.status = pos[id].status
    BY <1>1, <2>1 DEF Sliced, Position
  <2>3. Steady /\ NothingBought
    BY <1>1, <1>5, <2>1, <2>2, SteadyWhenTouched DEF ClosePartial, exchange
  <2> QED BY <1>5, <2>3, AdvanceGone DEF ClosePartial
<1>6. CASE CloseFilled(c)
  <2>1. pos' = [pos EXCEPT ![id] = [pos[id] EXCEPT !.stop = FALSE]] /\ closer[c].pc = "replied"
    BY <1>6 DEF CloseFilled
  <2>2. Steady /\ NothingBought
    BY <1>1, <1>6, <2>1, SteadyWhenTouched DEF CloseFilled, Position
  <2> QED BY <1>6, <2>2, AdvanceGone DEF CloseFilled
<1>7. CASE RecordClose(c)
  <2>1. closer[c].pc = "record" /\ UNCHANGED <<up, open, closing, misses, exch, monitor>> /\ up
    BY <1>7 DEF RecordClose, exchange
  <2>2. CASE pos[id].status = "closed"
    <3>1. pos' = pos /\ closer' = [closer EXCEPT ![c].pc = "saved"]
      BY <1>7, <2>2 DEF RecordClose
    <3> QED BY <2>1, <3>1, SteadyWhenUnchanged, AdvanceGone
  <2>3. CASE pos[id].status # "closed"
    <3>1. MarkRecorded(id) /\ closer' = [closer EXCEPT ![c].pc = UpsertOutcome]
      BY <1>7, <2>3 DEF RecordClose
    <3>2. UpsertOutcome = "saved"
      BY <1>2, <3>1 DEF MarkRecorded, UpsertOk, UpsertRaises, NoFault, UpsertOutcome
    <3>3. Steady /\ NothingBought
      BY <1>1, <2>1, <3>1, SteadyWhenTouched DEF MarkRecorded, Recorded, Position
    <3> QED BY <2>1, <3>1, <3>2, <3>3, AdvanceGone
  <2> QED BY <2>2, <2>3
<1>8. CASE PaperPriceRaises(c)
  BY <1>2, <1>8 DEF PaperPriceRaises
<1>9. CASE FinishClose(c)
  BY <1>9, ReleaseGone DEF FinishClose, exchange
<1>10. CASE CloseRaises(c)
  BY <1>2, <1>10 DEF CloseRaises
<1>11. CASE FinishPartial(c)
  BY <1>11, ReleaseGone DEF FinishPartial, exchange
<1> QED BY <1>3, <1>4, <1>5, <1>6, <1>7, <1>8, <1>9, <1>10, <1>11, Zenon DEF CloserStep
-----------------------------------------------------------------------------
(* An entry buys on a market where nothing is tracked, and what it tracks  *)
(* nobody has dealt with.                                                  *)
LEMMA TraderStepGone ==
  ASSUME Typed, IInv, GoneInv, TraderStep PROVE GoneInv'
<1> USE DEF exchange, memory
<1>1. \A id \in open : id \in Ids /\ pos[id].status # "unused"
  BY TrackedExist
<1>2. trader.pc \in Entering => trader.id \in Ids /\ pos[trader.id] \in Position
  BY DEF Typed, TypeOK, MemoryOK, Refs, TraderRefs, Used
<1>3. open' = open => OnlyNewTracked
  BY DEF OnlyNewTracked
<1>4. ASSUME UNCHANGED <<up, pos, open, closing, misses, exch, closer, monitor>>
      PROVE  GoneInv'
  BY <1>3, <1>4, QuietGone, SteadyWhenUnchanged
<1>5. CASE PassCaps
  BY <1>4, <1>5 DEF PassCaps
<1>6. CASE RejectTrade
  BY <1>4, <1>6 DEF RejectTrade
<1>7. ASSUME NEW id \in Ids, NEW lots \in 1 .. MaxLots, NEW mode \in Modes,
             SendOrder(id, lots, mode)
      PROVE  GoneInv'
  <2>1. pos[id].status = "unused"
    BY <1>7 DEF SendOrder
  <2>2. UNCHANGED <<up, open, closing, misses, exch, closer, monitor>>
    BY <1>7 DEF SendOrder
  <2>3. Steady /\ NothingBought
    BY <1>7, <2>1, <2>2, SteadyWhenTouched DEF SendOrder
  <2> QED BY <1>3, <2>2, <2>3, QuietGone
<1>8. CASE ExecuteOpen
  <2>1. UNCHANGED <<up, pos, open, closing, misses, closer, monitor>>
    BY <1>8 DEF ExecuteOpen
  <2>2. \A m : m # trader.mkt => exch'[m] = exch[m]
    BY <1>8 DEF ExecuteOpen, Typed, TypeOK, WorldOK
  <2>3. \A id \in open : pos[id].mkt # trader.mkt
    BY <1>8 DEF ExecuteOpen, IInv, EntryInv, EntryFree, Entering, HasOpen
  <2>4. Steady /\ NothingBought
    BY <2>1, <2>2, <2>3, SteadyWhenUnchanged DEF NothingBought, Held
  <2> QED BY <1>3, <2>1, <2>4, QuietGone
<1>9. CASE OpenReply
  <2>1. UNCHANGED <<up, open, closing, misses, exch, closer, monitor>> /\ trader.pc \in Entering
    BY <1>9 DEF OpenReply, Entering
  <2>2. pos' = pos \/ pos' = [pos EXCEPT ![trader.id] = [pos[trader.id] EXCEPT !.size = trader.lots]]
    BY <1>9 DEF OpenReply
  <2>3. Steady /\ NothingBought
    BY <1>2, <2>1, <2>2, SteadyWhenUnchanged, SteadyWhenTouched DEF Position
  <2> QED BY <1>3, <2>1, <2>3, QuietGone
<1>10. CASE VerifyOrder
  <2>1. UNCHANGED <<up, open, closing, misses, exch, closer, monitor>> /\ trader.pc \in Entering
    BY <1>10, Zenon DEF VerifyOrder, Entering
  <2>2. pos' = pos \/ pos' = [pos EXCEPT ![trader.id] = [pos[trader.id] EXCEPT !.size = exch[trader.mkt]]]
    BY <1>10 DEF VerifyOrder
  <2>3. Steady /\ NothingBought
    BY <1>2, <2>1, <2>2, SteadyWhenUnchanged, SteadyWhenTouched DEF Position
  <2> QED BY <1>3, <2>1, <2>3, QuietGone
<1>11. CASE PlaceStop
  <2>1. UNCHANGED <<up, open, closing, misses, exch, closer, monitor>> /\ trader.pc \in Entering
    BY <1>11 DEF PlaceStop, Entering
  <2>2. pos' = pos \/ pos' = [pos EXCEPT ![trader.id] = [pos[trader.id] EXCEPT !.stop = TRUE]]
    BY <1>11 DEF PlaceStop
  <2>3. Steady /\ NothingBought
    BY <1>2, <2>1, <2>2, SteadyWhenUnchanged, SteadyWhenTouched DEF Position
  <2> QED BY <1>3, <2>1, <2>3, QuietGone
<1>12. CASE PersistOpen
  BY <1>4, <1>12 DEF PersistOpen
<1>13. CASE Track
  <2>1. UNCHANGED <<up, pos, closing, misses, exch, closer, monitor>>
    BY <1>13 DEF Track
  <2>2. open' = open \cup {trader.id} /\ trader.pc \in Entering
    BY <1>13 DEF Track, Entering
  <2>3. trader.id \in Ids /\ ~OpenOrClosed(trader.id)
    BY <1>2, <2>2 DEF IInv, EntryInv, EntryNew, OpenOrClosed
  <2>4. OnlyNewTracked
    BY <2>2, <2>3 DEF OnlyNewTracked, GoneInv, Missed, IInv, TaskInv, TasksOpen, Closes
  <2> QED BY <2>1, <2>2, <2>4, SteadyWhenUnchanged, QuietGone
<1> QED BY <1>5, <1>6, <1>7, <1>8, <1>9, <1>10, <1>11, <1>12, <1>13 DEF TraderStep

LEMMA RequestGone ==
  ASSUME Typed, GoneInv, Request PROVE GoneInv'
<1>1. ASSUME NEW c \in Closers, NEW id \in Ids, ForceClose(c, id), up,
             UNCHANGED <<up, pos, open, misses, exch, monitor>>
      PROVE  GoneInv'
  BY <1>1, TrackedExist, BeginGone DEF ForceClose
<1>2. ASSUME NEW m \in Markets, StartTrade(m) PROVE GoneInv'
  BY <1>2, QuietGone, SteadyWhenUnchanged DEF StartTrade, memory, exchange, OnlyNewTracked
<1>3. ASSUME NEW id \in Ids, ContraryClose(id) PROVE GoneInv'
  BY <1>1, <1>3, CallersAreClosers DEF ContraryClose, TraderFree, exchange
<1>4. ASSUME NEW id \in Ids, NEW u \in Users, UserClose(u, id) PROVE GoneInv'
  <2>1. u \in Closers
    BY DEF Closers
  <2> QED BY <1>1, <1>4, <2>1 DEF UserClose, exchange
<1> QED BY <1>2, <1>3, <1>4 DEF Request

LEMMA WorldGone ==
  ASSUME Typed, GoneInv, World PROVE GoneInv'
<1>1. ASSUME NEW id \in Ids, Expire(id) PROVE GoneInv'
  BY <1>1, QuietGone, SteadyWhenUnchanged DEF Expire, memory, exchange, tasks, OnlyNewTracked
<1>2. ASSUME NEW m \in Markets, ExchangeFlattens(m) PROVE GoneInv'
  <2>1. UNCHANGED <<up, pos, open, closing, misses, closer, monitor>>
    BY <1>2 DEF ExchangeFlattens, memory, tasks
  <2>2. \A k \in Markets : exch[k] = 0 => exch'[k] = 0
    BY <1>2, Quantities DEF ExchangeFlattens
  <2>3. NothingBought
    BY <2>1, <2>2, OnMarkets DEF NothingBought, Held
  <2> QED BY <2>1, <2>3, QuietGone, SteadyWhenUnchanged DEF OnlyNewTracked
<1>3. CASE Crash
  BY <1>3 DEF Crash, CloserIdle, MonitorIdle, GoneInv, Flattened, Guarded, Missed, PollTrue,
              Polled, DownForgets
<1> QED BY <1>1, <1>2, <1>3 DEF World

(* A restart has missed nothing yet.                                       *)
LEMMA RestartGone ==
  ASSUME Typed, GoneInv, Restart PROVE GoneInv'
<1>1. /\ UNCHANGED <<closing, misses, closer, monitor>> /\ up' = TRUE
      /\ \A id \in Ids : misses[id] = 0
      /\ \A c \in Closers : closer[c].pc = "idle"
      /\ monitor.pc = "idle"
  BY DEF Restart, tasks, GoneInv, DownForgets
<1>2. open' \subseteq Ids
  BY DEF Restart, OpenRows
<1>3. Flattened' /\ Guarded'
  BY <1>1 DEF GoneInv, Flattened, Guarded, Sending, Closes
<1>4. Missed' /\ PollTrue' /\ DownForgets'
  BY <1>1, <1>2 DEF Missed, PollTrue, Polled, DownForgets
<1> QED BY <1>3, <1>4 DEF GoneInv
-----------------------------------------------------------------------------
(* One position visited by the reconciler: if it is now missed and held,   *)
(* the answer was a mistake or its close is on the way.                    *)
LEMMA VisitGone ==
  ASSUME Typed, IInv, GoneInv, Steady, NothingBought, UNCHANGED open,
         NEW id \in monitor.left, monitor.pc = "reconcile",
         monitor' = [monitor EXCEPT !.left = @ \ {id}],
         \A j \in Ids \ {id} : misses'[j] = misses[j],
         misses'[id] # 0 /\ id \in open /\ Held(id) => Sending(id) \/ monitor.glitched,
         \A j \in open : Sending(j) => Sending(j)'
  PROVE  Missed' /\ PollTrue'
<1>1. /\ monitor'.pc = monitor.pc /\ monitor'.left = monitor.left \ {id}
      /\ monitor'.seen = monitor.seen /\ monitor'.known = monitor.known
      /\ monitor'.glitched = monitor.glitched
  BY DEF Typed, TypeOK, MonitorState
<1>2. Polled /\ Polled'
  BY <1>1 DEF Polled
<1>3. \A j \in open : j \in Ids /\ pos'[j].mkt = pos[j].mkt /\ (Held(j)' => Held(j))
  BY TrackedExist DEF Steady, NothingBought
<1>4. ASSUME NEW j \in open, misses'[j] # 0, Held(j)' PROVE Excused(j)'
  <2>1. CASE j = id
    BY <1>1, <1>3, <1>4, <2>1 DEF Excused
  <2>2. CASE j # id
    <3>1. Excused(j)
      BY <1>3, <1>4, <2>2 DEF GoneInv, Missed
    <3> QED BY <1>1, <1>2, <1>3, <2>2, <3>1 DEF Excused
  <2> QED BY <2>1, <2>2
<1>5. ASSUME NEW j \in Ids, misses'[j] # 0 PROVE Live(j)' /\ OpenOrClosed(j)'
  <2>1. Live(j) /\ OpenOrClosed(j)
    BY <1>2, <1>5 DEF GoneInv, Missed, PollTrue, IInv, TaskInv, TasksOpen
  <2> QED BY <2>1, TrackedExist DEF Steady, Live, OpenOrClosed
<1>6. Missed'
  BY <1>4, <1>5 DEF Missed
<1>7. \A j \in monitor.left : Live(j)' /\ j \in Ids
  BY <1>2, TrackedExist DEF GoneInv, PollTrue, Steady, Live
<1>8. PollTrue'
  BY <1>1, <1>2, <1>3, <1>7 DEF GoneInv, PollTrue
<1> QED BY <1>6, <1>8

LEMMA LookGone ==
  ASSUME Typed, GoneInv, up, UNCHANGED <<up, pos, open, closing, exch, closer>>,
         Missed', PollTrue'
  PROVE  GoneInv'
<1>1. Flattened' /\ Guarded'
  BY TasksGoOn, SteadyWhenUnchanged DEF OnlyNewTracked
<1> QED BY <1>1 DEF GoneInv, DownForgets

(* Between polls nothing is decided.                                       *)
LEMMA ScanGone ==
  ASSUME Typed, GoneInv, up, UNCHANGED <<up, pos, open, closing, misses, exch, closer>>,
         ~Polled, ~Polled', monitor'.glitched = monitor.glitched
  PROVE  GoneInv'
<1>1. \A id \in open : Sending(id) => Sending(id)'
  BY DEF Sending, Closes
<1>2. \A id \in Ids : misses'[id] \in {0, misses[id]}
  OBVIOUS
<1>3. Missed' /\ PollTrue'
  BY <1>1, <1>2, PollKept, SteadyWhenUnchanged DEF OnlyNewTracked
<1> QED BY <1>3, LookGone

(* A position reconciled away is flat.                                     *)
LEMMA GoneIsHeldByNobody ==
  ASSUME Typed, GoneInv, NEW id \in Ids, ReconcileGone(id)
  PROVE  id \in open /\ ~Held(id)
<1>1. /\ monitor.pc = "reconcile" /\ id \in monitor.left
      /\ id \notin closing /\ pos[id].mkt \notin monitor.seen
      /\ misses[id] + 1 >= Debounce
  BY Zenon DEF ReconcileGone, MonitorAt
<1>2. misses[id] # 0 /\ Polled
  BY <1>1 DEF Debounce, Polled, Typed, TypeOK, MemoryOK
<1>3. id \in open
  BY <1>1, <1>2 DEF GoneInv, PollTrue
<1>4. Held(id) => Excused(id)
  BY <1>2, <1>3 DEF GoneInv, Missed
<1>5. ~(Sending(id) /\ Held(id))
  BY <1>1, <1>3 DEF GoneInv, Guarded
<1> QED BY <1>1, <1>2, <1>3, <1>4, <1>5 DEF Excused

LEMMA ReconcileGoneGone ==
  ASSUME OrdersFill, Typed, IInv, GoneInv, NEW id \in Ids, ReconcileGone(id)
  PROVE  GoneInv'
<1>1. /\ up /\ UNCHANGED <<up, open, closing, exch>> /\ closer["monitor"].pc = "idle"
      /\ monitor.pc = "reconcile" /\ id \in monitor.left
      /\ monitor' = [monitor EXCEPT !.left = @ \ {id}]
      /\ misses' = [misses EXCEPT ![id] = 2]
  BY Zenon DEF ReconcileGone, MonitorAt, exchange
<1>2. id \in open /\ ~Held(id)
  BY GoneIsHeldByNobody
<1>3. /\ Steady /\ NothingBought
      /\ closer' = [closer EXCEPT !["monitor"] = [pc |-> "marked", id |-> id, fill |-> 0]]
  <2>1. CASE pos[id].status = "closed"
    BY <1>1, <2>1, SteadyWhenUnchanged DEF ReconcileGone
  <2>2. CASE pos[id].status # "closed"
    <3>1. /\ MarkRecorded(id)
          /\ closer' = [closer EXCEPT !["monitor"] =
               [pc |-> IF UpsertOutcome = "saved" THEN "marked" ELSE "unmarked",
                id |-> id, fill |-> 0]]
      BY <2>2 DEF ReconcileGone
    <3>2. UpsertOutcome = "saved"
      BY <3>1 DEF MarkRecorded, UpsertOk, UpsertRaises, NoFault, UpsertOutcome, OrdersFill, Fault
    <3>3. pos' = [pos EXCEPT ![id] = Recorded(id)] /\ pos[id] \in Position
      BY <3>1 DEF MarkRecorded, Typed, TypeOK, MemoryOK
    <3>4. Steady /\ NothingBought
      BY <1>1, <3>3, SteadyWhenTouched DEF Recorded, Position
    <3> QED BY <3>1, <3>2, <3>4
  <2> QED BY <2>1, <2>2
<1>4. /\ closer'["monitor"].pc = "marked" /\ closer'["monitor"].id = id
      /\ \A k \in Closers \ {"monitor"} : closer'[k] = closer[k]
  BY <1>3, CallersAreClosers DEF Typed, TypeOK
<1>5. \A j : Sending(j) <=> Sending(j)'
  BY <1>1, <1>4 DEF Sending, Closes
<1>6. Missed' /\ PollTrue'
  BY <1>1, <1>2, <1>3, <1>5, VisitGone DEF Typed, TypeOK, MemoryOK
<1>7. \A j \in open : (Live(j)' <=> Live(j)) /\ (Held(j)' => Held(j))
  BY <1>3, TrackedExist DEF Steady, NothingBought, Live
<1>8. Guarded'
  <2>1. \A k \in Closers : \A j : Closes(k, j) /\ closer[k].pc # "marked" =>
                              Closes(k, j)' /\ closer'[k].pc # "marked"
    BY <1>1, <1>4 DEF Closes
  <2> QED BY <1>1, <1>5, <1>7, <2>1 DEF GoneInv, Guarded
<1>9. Flattened'
  <2>1. \A k \in Closers, j \in open : Closes(k, j)' /\ closer'[k].pc # "sent" =>
                                         j = id \/ (Closes(k, j) /\ closer[k].pc # "sent")
    BY <1>4 DEF Closes
  <2>2. \A k \in Closers : closer'[k].pc = "sent" => Live(closer[k].id)' /\ closer'[k] = closer[k]
    BY <1>3, <1>4, TrackedExist DEF GoneInv, Flattened, Steady, Live
  <2>3. \A k \in Closers : closer'[k].pc \notin {"unsaved", "unmarked"}
    BY <1>4 DEF GoneInv, Flattened
  <2>4. \A k \in Closers : closer'[k].pc = "sent" => Live(closer[k].id)' /\ closer'[k].id = closer[k].id
    BY <2>2
  <2> QED BY <1>1, <1>2, <1>7, <2>1, <2>3, <2>4 DEF GoneInv, Flattened, Live
<1> QED BY <1>1, <1>6, <1>8, <1>9 DEF GoneInv, DownForgets

LEMMA FinishMarkGone ==
  ASSUME Typed, GoneInv, FinishMark PROVE GoneInv'
<1> DEFINE id == closer["monitor"].id
<1>1. /\ up /\ UNCHANGED <<up, pos, closing, exch, monitor>> /\ Drop(id)
      /\ closer["monitor"].pc = "marked"
      /\ closer' = [closer EXCEPT !["monitor"] = CloserIdle]
  BY CallersAreClosers DEF FinishMark, exchange, GoneInv, Flattened
<1>2. /\ closer'["monitor"].pc = "idle"
      /\ \A k \in Closers \ {"monitor"} : closer'[k] = closer[k]
  BY <1>1, CallersAreClosers DEF CloserIdle, Typed, TypeOK
<1>3. id \in Ids
  BY <1>1, TrackedExist, CallersAreClosers
<1>4. /\ open' \subseteq open
      /\ \A j \in open \ open' : misses'[j] = 0
      /\ \A j \in Ids : misses'[j] \in {0, misses[j]}
  BY <1>1, <1>3 DEF Drop, Typed, TypeOK, MemoryOK
<1> HIDE DEF id
<1>5. Steady /\ NothingBought /\ OnlyNewTracked
  BY <1>1, <1>4, SteadyWhenUnchanged DEF OnlyNewTracked
<1>6. \A j : Sending(j) <=> Sending(j)'
  BY <1>1, <1>2 DEF Sending, Closes
<1>7. Missed' /\ PollTrue'
  BY <1>1, <1>4, <1>5, <1>6, PollKept
<1>8. Guarded'
  <2>1. \A k \in Closers : \A j : Closes(k, j) /\ closer[k].pc # "marked" =>
                              Closes(k, j)' /\ closer'[k].pc # "marked"
    BY <1>1, <1>2 DEF Closes
  <2> QED BY <1>1, <1>4, <1>6, <2>1 DEF GoneInv, Guarded, Held
<1>9. Flattened'
  BY <1>1, <1>2, <1>4 DEF GoneInv, Flattened, Closes, Held, Live
<1> QED BY <1>1, <1>7, <1>8, <1>9 DEF GoneInv, DownForgets

LEMMA MonitorStepGone ==
  ASSUME OrdersFill, Typed, IInv, GoneInv, MonitorStep PROVE GoneInv'
<1> USE DEF memory, exchange
<1>1. \A j : UNCHANGED closer /\ Sending(j) => Sending(j)'
  BY DEF Sending, Closes
<1>2. \A id \in Ids : misses[id] \in 0 .. 2
  BY DEF Typed, TypeOK, MemoryOK
<1>3. CASE FetchStates
  <2>1. up /\ UNCHANGED <<up, pos, open, closing, misses, exch, closer>> /\ ~Polled
    BY <1>3, Zenon DEF FetchStates, MonitorAt, Polled
  <2>2. PICK ask \in {"none", "answer", "glitch"} :
          /\ ask = "none" => LiveOpen = {} /\
               monitor' = [monitor EXCEPT !.pc = "reconcile", !.left = {},
                                          !.known = FALSE, !.seen = {}]
          /\ ask = "answer" =>
               monitor' = [monitor EXCEPT !.pc = "fetched", !.left = LiveOpen,
                                          !.known = TRUE, !.seen = {m \in Markets : exch[m] > 0},
                                          !.glitched = FALSE]
          /\ ask = "glitch" => ~monitor.glitched /\
               monitor' = [monitor EXCEPT !.pc = "fetched", !.left = LiveOpen,
                                          !.known = TRUE, !.seen = {}, !.glitched = TRUE]
    <3>1. ~Fault("fetch")
      BY DEF OrdersFill, Fault
    <3> QED BY <1>3, <3>1, Zenon DEF FetchStates
  <2>3. \A id \in open : Held(id) => pos[id].mkt \in {m \in Markets : exch[m] > 0}
    BY OnMarkets, Quantities DEF Held
  <2>4. \A id \in open : misses[id] # 0 /\ Held(id) => Live(id) /\ (Sending(id) \/ monitor.glitched)
    BY <2>1, TrackedExist DEF GoneInv, Missed, Excused
  <2>5. CASE ask = "none"
    <3>1. /\ monitor'.pc = "reconcile" /\ monitor'.left = {} /\ LiveOpen = {}
          /\ monitor'.known = FALSE /\ monitor'.seen = {} /\ monitor'.glitched = monitor.glitched
      BY <2>2, <2>5 DEF Typed, TypeOK, MonitorState
    <3>2. Missed'
      BY <2>1, <2>4, <3>1 DEF GoneInv, Missed, LiveOpen, Live, OpenOrClosed, Held
    <3>3. PollTrue'
      BY <3>1 DEF PollTrue
    <3> QED BY <2>1, <3>2, <3>3, LookGone
  <2>6. CASE ask = "answer"
    <3>1. /\ monitor'.pc = "fetched" /\ monitor'.left = LiveOpen
          /\ monitor'.known = TRUE /\ monitor'.seen = {m \in Markets : exch[m] > 0}
          /\ monitor'.glitched = FALSE
      BY <2>2, <2>6 DEF Typed, TypeOK, MonitorState
    <3>2. Missed'
      <4>1. \A id \in open : misses[id] # 0 /\ Held(id) => Excused(id)'
        BY <2>1, <2>3, <2>4, <3>1 DEF Excused, Polled, LiveOpen
      <4> QED BY <2>1, <4>1 DEF GoneInv, Missed, Live, OpenOrClosed, Held
    <3>3. PollTrue'
      BY <2>1, <2>3, <3>1 DEF PollTrue, LiveOpen, Live, Held
    <3> QED BY <2>1, <3>2, <3>3, LookGone
  <2>7. CASE ask = "glitch"
    <3>1. /\ monitor'.pc = "fetched" /\ monitor'.left = LiveOpen
          /\ monitor'.known = TRUE /\ monitor'.glitched = TRUE /\ ~monitor.glitched
      BY <2>2, <2>7 DEF Typed, TypeOK, MonitorState
    <3>2. Missed'
      <4>1. \A id \in open : misses[id] # 0 /\ Held(id) => Excused(id)'
        BY <1>1, <2>1, <2>4, <3>1 DEF Excused
      <4> QED BY <2>1, <4>1 DEF GoneInv, Missed, Live, OpenOrClosed, Held
    <3>3. PollTrue'
      BY <2>1, <3>1 DEF PollTrue, LiveOpen, Live
    <3> QED BY <2>1, <3>2, <3>3, LookGone
  <2> QED BY <2>5, <2>6, <2>7
<1>4. CASE StartReconcile
  <2>1. /\ up /\ UNCHANGED <<up, pos, open, closing, misses, exch, closer>>
        /\ monitor.pc = "fetched"
        /\ monitor' = [monitor EXCEPT !.pc = "reconcile", !.left = @ \cap open]
    BY <1>4 DEF StartReconcile, MonitorAt
  <2>2. /\ monitor'.pc = "reconcile" /\ monitor'.left = monitor.left \cap open
        /\ monitor'.known = monitor.known /\ monitor'.seen = monitor.seen
        /\ monitor'.glitched = monitor.glitched
    BY <2>1 DEF Typed, TypeOK, MonitorState
  <2>3. \A id \in open : Excused(id) => Excused(id)'
    BY <1>1, <2>1, <2>2 DEF Excused, Polled
  <2>4. Missed'
    BY <2>1, <2>3 DEF GoneInv, Missed, Live, OpenOrClosed, Held
  <2>5. PollTrue'
    BY <2>1, <2>2 DEF GoneInv, PollTrue, Polled, Live, Held
  <2> QED BY <2>1, <2>4, <2>5, LookGone
<1>5. ASSUME NEW id \in Ids, ReconcileSkip(id) PROVE GoneInv'
  <2>1. /\ up /\ UNCHANGED <<up, pos, open, closing, misses, exch, closer>>
        /\ monitor.pc = "reconcile" /\ id \in monitor.left /\ ReconcileSkips(id)
        /\ monitor' = [monitor EXCEPT !.left = @ \ {id}]
    BY <1>5 DEF ReconcileSkip, MonitorAt
  <2>2. Polled /\ Live(id) /\ monitor.known
    BY <2>1 DEF Polled, GoneInv, PollTrue
  <2>3. id \in closing => Sending(id) \/ id \notin open \/ ~Held(id)
    BY <2>2 DEF GoneInv, Guarded, Flattened, Sending
  <2>4. misses[id] # 0 /\ id \in open /\ Held(id) => Sending(id)
    BY <2>1, <2>2, <2>3 DEF ReconcileSkips
  <2>5. Missed' /\ PollTrue'
    BY <1>1, <2>1, <2>4, VisitGone, SteadyWhenUnchanged
  <2> QED BY <2>1, <2>5, LookGone
<1>6. ASSUME NEW id \in Ids, ReconcilePresent(id) PROVE GoneInv'
  <2>1. /\ up /\ UNCHANGED <<up, pos, open, closing, exch, closer>>
        /\ monitor.pc = "reconcile" /\ id \in monitor.left
        /\ misses' = [misses EXCEPT ![id] = 0]
        /\ monitor' = [monitor EXCEPT !.left = @ \ {id}]
    BY <1>6 DEF ReconcilePresent, MonitorAt
  <2>2. misses'[id] = 0 /\ \A j \in Ids \ {id} : misses'[j] = misses[j]
    BY <2>1 DEF Typed, TypeOK, MemoryOK
  <2>3. Missed' /\ PollTrue'
    BY <1>1, <2>1, <2>2, VisitGone, SteadyWhenUnchanged
  <2> QED BY <2>1, <2>3, LookGone
<1>7. ASSUME NEW id \in Ids, ReconcileMiss(id) PROVE GoneInv'
  <2>1. /\ up /\ UNCHANGED <<up, pos, open, closing, exch, closer>>
        /\ monitor.pc = "reconcile" /\ id \in monitor.left
        /\ pos[id].mkt \notin monitor.seen
        /\ misses' = [misses EXCEPT ![id] = misses[id] + 1]
        /\ monitor' = [monitor EXCEPT !.left = @ \ {id}]
    BY <1>7 DEF ReconcileMiss, MonitorAt
  <2>2. \A j \in Ids \ {id} : misses'[j] = misses[j]
    BY <2>1 DEF Typed, TypeOK, MemoryOK
  <2>3. id \in open /\ Held(id) => monitor.glitched
    BY <2>1 DEF GoneInv, PollTrue, Polled
  <2>4. Missed' /\ PollTrue'
    BY <1>1, <2>1, <2>2, <2>3, VisitGone, SteadyWhenUnchanged
  <2> QED BY <2>1, <2>4, LookGone
<1>8. ASSUME NEW id \in Ids, ReconcileGone(id) PROVE GoneInv'
  BY <1>8, ReconcileGoneGone
<1>9. ASSUME NEW id \in Ids, ScanSkip(id) \/ ScanAsk(id) PROVE GoneInv'
  <2>1. /\ up /\ UNCHANGED <<up, pos, open, closing, misses, exch, closer>> /\ monitor.pc = "scan"
        /\ monitor'.pc \in {"scan", "price"} /\ monitor'.glitched = monitor.glitched
    BY <1>9 DEF ScanSkip, ScanAsk, MonitorAt, Typed, TypeOK, MonitorState
  <2> QED BY <2>1, ScanGone DEF Polled
<1>10. CASE FinishMark
  BY <1>10, FinishMarkGone
<1>11. CASE StartScan
  <2>1. /\ up /\ UNCHANGED <<up, pos, open, closing, misses, exch, closer>>
        /\ monitor.pc = "reconcile" /\ monitor.left = {}
        /\ monitor'.pc = "scan" /\ monitor'.glitched = monitor.glitched
    BY <1>11 DEF StartScan, MonitorAt, Typed, TypeOK, MonitorState
  <2>2. \A id \in open : Excused(id) => Excused(id)'
    BY <1>1, <2>1 DEF Excused, Polled
  <2>3. Missed'
    BY <2>1, <2>2 DEF GoneInv, Missed, Live, OpenOrClosed, Held
  <2>4. PollTrue'
    BY <2>1 DEF PollTrue, Polled
  <2> QED BY <2>1, <2>3, <2>4, LookGone
<1>12. CASE ScanExit
  <2>1. /\ up /\ UNCHANGED <<up, pos, open, misses, exch>>
        /\ monitor.pc = "price" /\ closer["monitor"].pc = "idle"
        /\ BeginClose("monitor", monitor.id)
        /\ monitor'.pc = "scan" /\ monitor'.glitched = monitor.glitched
    BY <1>12 DEF ScanExit, MonitorAt, Typed, TypeOK, MonitorState
  <2>2. monitor.id \in Ids /\ pos[monitor.id].status # "unused"
    BY <2>1 DEF Typed, Refs, MonitorRefs, Used
  <2> QED BY <2>1, <2>2, BeginGone, CallersAreClosers DEF Polled
<1>13. CASE ScanKeep
  <2>1. /\ up /\ UNCHANGED <<up, pos, open, closing, misses, exch, closer>> /\ monitor.pc = "price"
        /\ monitor'.pc = "scan" /\ monitor'.glitched = monitor.glitched
    BY <1>13 DEF ScanKeep, MonitorAt, Typed, TypeOK, MonitorState
  <2> QED BY <2>1, ScanGone DEF Polled
<1>14. CASE ScanRaises
  BY <1>14 DEF ScanRaises, OrdersFill, Fault
<1>15. CASE EndScan
  <2>1. /\ up /\ UNCHANGED <<up, pos, open, closing, misses, exch, closer>> /\ monitor.pc = "scan"
        /\ monitor'.pc = "idle" /\ monitor'.glitched = monitor.glitched
    BY <1>15 DEF EndScan, MonitorAt, MonitorIdle
  <2> QED BY <2>1, ScanGone DEF Polled
<1> QED BY <1>3, <1>4, <1>5, <1>6, <1>7, <1>8, <1>9, <1>10, <1>11, <1>12, <1>13, <1>14, <1>15
        DEF MonitorStep
-----------------------------------------------------------------------------
LEMMA InitGone == Init => GoneInv
  BY DEF Init, GoneInv, Flattened, Guarded, Missed, PollTrue, Polled, DownForgets, Sending,
         Closes, CloserIdle, MonitorIdle

LEMMA NextGone ==
  ASSUME OrdersFill PROVE Typed /\ IInv /\ GoneInv /\ [Next]_vars => GoneInv'
<1> SUFFICES ASSUME Typed, IInv, GoneInv, [Next]_vars PROVE GoneInv'
  OBVIOUS
<1>1. CASE UNCHANGED vars
  BY <1>1, QuietGone, SteadyWhenUnchanged DEF vars, memory, exchange, tasks, OnlyNewTracked
<1>2. CASE Request     BY <1>2, RequestGone
<1>3. CASE TraderStep  BY <1>3, TraderStepGone
<1>4. ASSUME NEW c \in Closers, CloserStep(c) PROVE GoneInv'
  BY <1>4, CloserStepGone
<1>5. CASE MonitorStep BY <1>5, MonitorStepGone
<1>6. CASE World       BY <1>6, WorldGone
<1>7. CASE Restart     BY <1>7, RestartGone
<1> QED BY <1>1, <1>2, <1>3, <1>4, <1>5, <1>6, <1>7 DEF Next

(* A close is recorded without an order only when the exchange holds       *)
(* nothing, across crashes, closes by others at the same time and empty    *)
(* answers, for any number of positions, markets and callers.              *)
THEOREM ReconcilesFlat == OrdersFill => (Spec => NeverReconcileLiveExposure)
<1> SUFFICES ASSUME OrdersFill PROVE Spec => NeverReconcileLiveExposure
  OBVIOUS
<1>1. Init => GoneInv BY InitGone
<1>2. Typed /\ IInv /\ GoneInv /\ [Next]_vars => GoneInv' BY NextGone
<1>3. Typed /\ GoneInv => \A id \in Ids : ReconcileGone(id) => exch[pos[id].mkt] = 0
  BY GoneIsHeldByNobody DEF Held
<1>4. Spec => []Typed BY TypeCorrect DEF Typed
<1>5. Spec => []IInv BY BookSafe DEF OrdersFill, WritesSucceed
<1> QED BY <1>1, <1>2, <1>3, <1>4, <1>5, PTL DEF Spec, NeverReconcileLiveExposure
-----------------------------------------------------------------------------
(***************************************************************************)
(* The ledger.  What an upsert writes is the Position object as it stands, *)
(* so the table implements the ledger if that object is what the ledger    *)
(* says: not booked before it is entered, open until its one close is      *)
(* recorded.                                                               *)
(***************************************************************************)

(* A tracked position is open but for the moment between its record and    *)
(* its drop.                                                               *)
OpenUntilDropped == \A id \in open :
  \/ pos[id].status = "open"
  \/ closer["monitor"].pc \in {"saved", "marked"} /\ closer["monitor"].id = id

NothingBooked == trader.pc \in Entering => pos[trader.id].realized = 0

NoneFailed == closer["monitor"].pc \notin {"unsaved", "unmarked"}

DownStops == ~up => /\ closer["monitor"].pc = "idle"
                    /\ monitor.left = {} /\ monitor.pc = "idle"

LedgerInv == OneCloser /\ OpenUntilDropped /\ NothingBooked /\ NoneFailed /\ DownStops

(* Steps that leave the book's tasks and statuses alone.                   *)
LEMMA QuietLedger ==
  ASSUME LedgerInv, UNCHANGED <<up, open, closer, monitor>>,
         \A id \in open : pos'[id].status = pos[id].status,
         NothingBooked'
  PROVE  LedgerInv'
BY DEF LedgerInv, OneCloser, OpenUntilDropped, NoneFailed, DownStops

(* A step of the monitor's close: only its own position may be closed, and *)
(* it is dropped before the monitor goes on.                               *)
LEMMA CloseLedger ==
  ASSUME Typed, IInv, LedgerInv, up, UNCHANGED <<up, trader>>,
         NEW id \in open, id = closer["monitor"].id, closer["monitor"].pc # "idle",
         \A c \in Closers \ {"monitor"} : closer'[c] = closer[c],
         \A j \in Ids \ {id} : pos'[j] = pos[j],
         \/ closer'["monitor"].pc = "idle" /\ open' = open \ {id}
         \/ /\ closer'["monitor"].pc = "idle" /\ open' = open
            /\ closer["monitor"].pc \notin {"saved", "marked"} /\ pos' = pos
         \/ /\ closer'["monitor"].pc \in {"replied", "booked", "record"} /\ open' = open
            /\ closer["monitor"].pc \notin {"saved", "marked"}
            /\ closer'["monitor"].id = id /\ pos'[id].status = pos[id].status
         \/ /\ closer'["monitor"].pc = "saved" /\ closer'["monitor"].id = id
            /\ closer["monitor"].pc \notin {"saved", "marked"} /\ open' = open,
         \/ monitor' = monitor
         \/ monitor'.pc = "idle" /\ monitor'.left = {}
  PROVE  LedgerInv'
<1>1. \A j \in open : j \in Ids
  BY OnMarkets
<1>2. OneCloser'
  BY OneCloserStays DEF LedgerInv
<1>3. OpenUntilDropped'
  BY <1>1 DEF LedgerInv, OpenUntilDropped
<1>4. trader.pc \in Entering => trader.id \in Ids \ {id}
  BY DEF Typed, Refs, TraderRefs, Used, IInv, EntryInv, EntryNew
<1>5. NothingBooked'
  BY <1>4 DEF LedgerInv, NothingBooked
<1>6. NoneFailed' /\ DownStops'
  BY DEF NoneFailed, DownStops
<1> QED BY <1>2, <1>3, <1>5, <1>6 DEF LedgerInv

LEMMA CloserStepLedger ==
  ASSUME WritesSucceed, Typed, IInv, LedgerInv, NEW c \in Closers, CloserStep(c)
  PROVE  LedgerInv'
<1> USE DEF memory, exchange
<1>1. c = "monitor" /\ closer["monitor"].pc # "idle" /\ up
  <2>1. closer[c].pc # "idle" /\ up
    BY Zenon
       DEF CloserStep, ExecuteClose, CloseUnfilled, ClosePartial, CloseFilled, RecordClose,
           PaperPriceRaises, FinishClose, CloseRaises, FinishPartial
  <2> QED BY <2>1 DEF LedgerInv, OneCloser
<1>2. PICK id \in open : id = closer["monitor"].id
  BY <1>1 DEF LedgerInv, OneCloser
<1>3. id \in Ids /\ pos \in [Ids -> Position] /\ pos[id] \in Position
  BY OnMarkets DEF Typed, TypeOK, MemoryOK
(* What a step does to the close itself.                                   *)
<1>4. ASSUME NEW pc, closer' = [closer EXCEPT ![c].pc = pc]
      PROVE  /\ \A k \in Closers \ {"monitor"} : closer'[k] = closer[k]
             /\ closer'["monitor"].pc = pc /\ closer'["monitor"].id = id
  BY <1>1, <1>2, <1>4, CallersAreClosers DEF Typed, TypeOK, CloserState
<1>5. ASSUME Release(c)
      PROVE  /\ \A k \in Closers \ {"monitor"} : closer'[k] = closer[k]
             /\ closer'["monitor"].pc = "idle"
  BY <1>1, <1>5, CloserFreed
<1>6. CASE ExecuteClose(c)
  <2>1. closer["monitor"].pc = "sent" /\ UNCHANGED <<up, pos, open, trader, monitor>>
    BY <1>1, <1>6, Zenon DEF ExecuteClose
  <2>2. PICK fill : closer' = [closer EXCEPT ![c].pc = "replied", ![c].fill = fill]
    BY <1>6, Zenon DEF ExecuteClose
  <2>3. /\ \A k \in Closers \ {"monitor"} : closer'[k] = closer[k]
        /\ closer'["monitor"].pc = "replied" /\ closer'["monitor"].id = id
    BY <1>1, <1>2, <2>2, CallersAreClosers DEF Typed, TypeOK, CloserState
  <2> QED BY <1>1, <1>2, <2>1, <2>3, CloseLedger
<1>7. CASE CloseUnfilled(c)
  <2>1. closer["monitor"].pc = "replied" /\ UNCHANGED <<up, pos, open, trader, monitor>>
    BY <1>1, <1>7 DEF CloseUnfilled
  <2> QED BY <1>1, <1>2, <1>5, <1>7, <2>1, CloseLedger DEF CloseUnfilled
<1>8. CASE ClosePartial(c)
  <2>1. /\ closer["monitor"].pc = "replied" /\ UNCHANGED <<up, open, trader, monitor>>
        /\ pos' = [pos EXCEPT ![id] = Sliced(id, closer["monitor"].fill)]
        /\ closer' = [closer EXCEPT ![c].pc = "booked"]
    BY <1>1, <1>2, <1>8 DEF ClosePartial
  <2>2. (\A j \in Ids \ {id} : pos'[j] = pos[j]) /\ pos'[id].status = pos[id].status
    BY <1>3, <2>1 DEF Sliced, Position
  <2> QED BY <1>1, <1>2, <1>4, <2>1, <2>2, CloseLedger
<1>9. CASE CloseFilled(c)
  <2>1. /\ closer["monitor"].pc = "replied" /\ UNCHANGED <<up, open, trader, monitor>>
        /\ pos' = [pos EXCEPT ![id].stop = FALSE]
        /\ closer' = [closer EXCEPT ![c].pc = "record"]
    BY <1>1, <1>2, <1>9 DEF CloseFilled
  <2>2. (\A j \in Ids \ {id} : pos'[j] = pos[j]) /\ pos'[id].status = pos[id].status
    BY <1>3, <2>1 DEF Position
  <2> QED BY <1>1, <1>2, <1>4, <2>1, <2>2, CloseLedger
<1>10. CASE RecordClose(c)
  <2>1. /\ closer["monitor"].pc = "record" /\ UNCHANGED <<up, open, trader, monitor>>
        /\ IF pos[id].status = "closed"
           THEN closer' = [closer EXCEPT ![c].pc = "saved"] /\ UNCHANGED <<pos, row, faults>>
           ELSE MarkRecorded(id) /\ closer' = [closer EXCEPT ![c].pc = UpsertOutcome]
    BY <1>1, <1>2, <1>10 DEF RecordClose
  <2>2. MarkRecorded(id) => UpsertOutcome = "saved"
    BY UpsertSucceeds DEF MarkRecorded, UpsertOk, NoFault, UpsertOutcome
  <2>3. closer' = [closer EXCEPT ![c].pc = "saved"] /\ \A j \in Ids \ {id} : pos'[j] = pos[j]
    BY <1>3, <2>1, <2>2 DEF MarkRecorded
  <2>4. /\ \A k \in Closers \ {"monitor"} : closer'[k] = closer[k]
        /\ closer'["monitor"].pc = "saved" /\ closer'["monitor"].id = id
    BY <1>4, <2>3
  <2>5. UNCHANGED <<up, open, trader, monitor>> /\ closer["monitor"].pc = "record"
    BY <2>1
  <2> QED BY <1>1, <1>2, <2>3, <2>4, <2>5, CloseLedger
<1>11. CASE PaperPriceRaises(c)
  <2>1. /\ closer["monitor"].pc = "record" /\ UNCHANGED <<up, pos, open, trader>>
        /\ monitor'.pc = "idle" /\ monitor'.left = {}
    BY <1>1, <1>11 DEF PaperPriceRaises, AbortPass, MonitorIdle
  <2> QED BY <1>1, <1>2, <1>5, <1>11, <2>1, CloseLedger DEF PaperPriceRaises
<1>12. CASE FinishClose(c)
  <2>1. closer["monitor"].pc = "saved" /\ UNCHANGED <<up, pos, trader, monitor>> /\ open' = open \ {id}
    BY <1>1, <1>2, <1>12 DEF FinishClose, Drop
  <2> QED BY <1>1, <1>2, <1>5, <1>12, <2>1, CloseLedger DEF FinishClose
<1>13. CASE CloseRaises(c)
  BY <1>1, <1>13 DEF CloseRaises, LedgerInv, NoneFailed
<1>14. CASE FinishPartial(c)
  <2>1. closer["monitor"].pc = "booked" /\ UNCHANGED <<up, pos, open, trader, monitor>>
    BY <1>1, <1>14 DEF FinishPartial
  <2> QED BY <1>1, <1>2, <1>5, <1>14, <2>1, CloseLedger DEF FinishPartial
<1> QED BY <1>6, <1>7, <1>8, <1>9, <1>10, <1>11, <1>12, <1>13, <1>14, Zenon DEF CloserStep

LEMMA MonitorStepLedger ==
  ASSUME WritesSucceed, Typed, IInv, LedgerInv, MonitorStep PROVE LedgerInv'
<1> USE DEF memory, exchange
<1>1. ASSUME up, UNCHANGED <<up, pos, open, trader, closer>>,
             monitor'.left \subseteq monitor.left \/ monitor'.left \subseteq open,
             closer["monitor"].pc = "idle",
             monitor'.pc = "price" => monitor'.id \in open \ monitor'.left
      PROVE  LedgerInv'
  <2>1. OneCloser'
    BY <1>1 DEF LedgerInv, OneCloser
  <2>2. OpenUntilDropped' /\ NothingBooked' /\ NoneFailed' /\ DownStops'
    BY <1>1 DEF LedgerInv, OpenUntilDropped, NothingBooked, NoneFailed, DownStops
  <2> QED BY <2>1, <2>2 DEF LedgerInv
<1>2. CASE FetchStates
  <2>1. /\ up /\ closer["monitor"].pc = "idle" /\ UNCHANGED <<up, pos, open, trader, closer>>
        /\ monitor'.left \in {{}, LiveOpen} /\ monitor'.pc \in {"fetched", "reconcile"}
    BY <1>2 DEF FetchStates, MonitorAt, Typed, TypeOK, MonitorState
  <2> QED BY <1>1, <2>1 DEF LiveOpen
<1>3. CASE StartReconcile
  BY <1>1, <1>3 DEF StartReconcile, MonitorAt, Typed, TypeOK, MonitorState
<1>4. ASSUME NEW id \in Ids, ReconcileSkip(id) PROVE LedgerInv'
  BY <1>1, <1>4 DEF ReconcileSkip, MonitorAt, Typed, TypeOK, MonitorState
<1>5. ASSUME NEW id \in Ids, ReconcilePresent(id) PROVE LedgerInv'
  BY <1>1, <1>5 DEF ReconcilePresent, MonitorAt, Typed, TypeOK, MonitorState
<1>6. ASSUME NEW id \in Ids, ReconcileMiss(id) PROVE LedgerInv'
  BY <1>1, <1>6 DEF ReconcileMiss, MonitorAt, Typed, TypeOK, MonitorState
<1>7. ASSUME NEW id \in Ids, ReconcileGone(id) PROVE LedgerInv'
  <2>1. /\ up /\ UNCHANGED <<up, open, trader>> /\ closer["monitor"].pc = "idle"
        /\ monitor.pc = "reconcile" /\ id \in monitor.left
        /\ monitor' = [monitor EXCEPT !.left = @ \ {id}]
    BY <1>7, Zenon DEF ReconcileGone, MonitorAt
  <2>2. id \in open /\ pos[id].status = "open"
    BY <2>1 DEF LedgerInv, OneCloser, OpenUntilDropped
  <2>3. /\ pos' = [pos EXCEPT ![id] = Recorded(id)]
        /\ closer' = [closer EXCEPT !["monitor"] = [pc |-> "marked", id |-> id, fill |-> 0]]
    BY <1>7, <2>2, UpsertSucceeds
       DEF ReconcileGone, MarkRecorded, UpsertOk, NoFault, UpsertOutcome
  <2>4. /\ closer'["monitor"].pc = "marked" /\ closer'["monitor"].id = id
        /\ \A k \in Closers \ {"monitor"} : closer'[k] = closer[k]
    BY <2>3, CallersAreClosers DEF Typed, TypeOK
  <2>5. monitor'.pc = "reconcile" /\ monitor'.left = monitor.left \ {id}
    BY <2>1 DEF Typed, TypeOK, MonitorState
  <2>6. \A j \in Ids \ {id} : pos'[j] = pos[j]
    BY <2>3 DEF Typed, TypeOK, MemoryOK
  <2>7. \A j \in open : j \in Ids
    BY OnMarkets
  <2>8. OneCloser'
    BY <2>1, <2>2, <2>4, <2>5 DEF LedgerInv, OneCloser
  <2>9. OpenUntilDropped'
    BY <2>1, <2>4, <2>6, <2>7 DEF LedgerInv, OpenUntilDropped
  <2>10. trader.pc \in Entering => trader.id \in Ids \ {id}
    BY <2>2 DEF Typed, Refs, TraderRefs, Used, IInv, EntryInv, EntryNew
  <2>11. NothingBooked' /\ NoneFailed' /\ DownStops'
    BY <2>1, <2>4, <2>6, <2>10 DEF LedgerInv, NothingBooked, NoneFailed, DownStops
  <2> QED BY <2>8, <2>9, <2>11 DEF LedgerInv
<1>8. ASSUME NEW id \in Ids, ScanSkip(id) PROVE LedgerInv'
  BY <1>1, <1>8 DEF ScanSkip, MonitorAt, Typed, TypeOK, MonitorState
<1>9. ASSUME NEW id \in Ids, ScanAsk(id) PROVE LedgerInv'
  <2>1. /\ up /\ closer["monitor"].pc = "idle" /\ UNCHANGED <<up, pos, open, trader, closer>>
        /\ id \in monitor.left /\ monitor'.left = monitor.left \ {id} /\ monitor'.id = id
    BY <1>9 DEF ScanAsk, MonitorAt, Typed, TypeOK, MonitorState
  <2>2. id \in open
    BY <2>1 DEF LedgerInv, OneCloser
  <2> QED BY <1>1, <2>1, <2>2
<1>10. CASE FinishMark
  <2>1. closer["monitor"].pc = "marked"
    BY <1>10 DEF FinishMark, LedgerInv, NoneFailed
  <2>2. PICK id \in open : id = closer["monitor"].id
    BY <2>1 DEF LedgerInv, OneCloser
  <2>3. /\ up /\ UNCHANGED <<up, pos, trader, monitor>> /\ open' = open \ {id}
        /\ closer' = [closer EXCEPT !["monitor"] = CloserIdle]
    BY <1>10, <2>1, <2>2 DEF FinishMark, Drop
  <2>4. /\ closer'["monitor"].pc = "idle"
        /\ \A k \in Closers \ {"monitor"} : closer'[k] = closer[k]
    BY <2>3, CallersAreClosers DEF CloserIdle, Typed, TypeOK
  <2> QED BY <2>1, <2>2, <2>3, <2>4, CloseLedger
<1>11. CASE StartScan
  BY <1>1, <1>11 DEF StartScan, MonitorAt, Typed, TypeOK, MonitorState
<1>12. CASE ScanExit
  <2>1. /\ up /\ UNCHANGED <<up, pos, open, trader>> /\ closer["monitor"].pc = "idle"
        /\ monitor.pc = "price" /\ monitor'.pc = "scan" /\ monitor'.left = monitor.left
    BY <1>12 DEF ScanExit, MonitorAt, Typed, TypeOK, MonitorState
  <2>2. /\ closer'["monitor"].pc \in {"sent", "record"} /\ closer'["monitor"].id = monitor.id
        /\ \A k \in Closers \ {"monitor"} : closer'[k] = closer[k]
    BY <1>12, CallersAreClosers DEF ScanExit, BeginClose, Typed, TypeOK
  <2>3. OneCloser'
    BY <2>1, <2>2 DEF LedgerInv, OneCloser
  <2>4. OpenUntilDropped' /\ NothingBooked' /\ NoneFailed' /\ DownStops'
    BY <2>1, <2>2 DEF LedgerInv, OpenUntilDropped, NothingBooked, NoneFailed, DownStops
  <2> QED BY <2>3, <2>4 DEF LedgerInv
<1>13. CASE ScanKeep
  BY <1>1, <1>13 DEF ScanKeep, MonitorAt, Typed, TypeOK, MonitorState
<1>14. CASE ScanRaises
  BY <1>1, <1>14 DEF ScanRaises, AbortPass, MonitorIdle, MonitorAt
<1>15. CASE EndScan
  BY <1>1, <1>15 DEF EndScan, MonitorIdle, MonitorAt
<1> QED BY <1>2, <1>3, <1>4, <1>5, <1>6, <1>7, <1>8, <1>9, <1>10, <1>11, <1>12, <1>13, <1>14, <1>15
        DEF MonitorStep

LEMMA TraderStepLedger ==
  ASSUME Typed, IInv, LedgerInv, TraderStep PROVE LedgerInv'
<1> USE DEF memory, exchange
<1>1. \A id \in open : id \in Ids /\ pos[id].status # "unused"
  BY TrackedExist
<1>2. trader.pc \in Entering =>
        /\ trader.id \in Ids \ open /\ pos[trader.id] \in Position
        /\ pos[trader.id].status = "open" /\ pos[trader.id].realized = 0
  BY DEF Typed, TypeOK, MemoryOK, Refs, TraderRefs, Used, IInv, EntryInv, EntryNew, LedgerInv,
         NothingBooked
<1>3. ASSUME NEW id \in Ids, NEW r, pos' = [pos EXCEPT ![id] = r]
      PROVE  pos'[id] = r /\ \A j \in Ids \ {id} : pos'[j] = pos[j]
  BY <1>3 DEF Typed, TypeOK, MemoryOK
<1>4. ASSUME UNCHANGED <<up, pos, open, closer, monitor>>,
             trader'.pc \in Entering => trader.pc \in Entering /\ trader'.id = trader.id
      PROVE  LedgerInv'
  BY <1>2, <1>4, QuietLedger DEF NothingBooked
<1>5. ASSUME UNCHANGED <<up, open, closer, monitor>>, trader'.id = trader.id,
             trader.pc \in Entering,
             pos'[trader.id].realized = pos[trader.id].realized,
             \A j \in Ids \ {trader.id} : pos'[j] = pos[j]
      PROVE  LedgerInv'
  BY <1>1, <1>2, <1>5, QuietLedger DEF NothingBooked
<1>6. CASE PassCaps
  BY <1>4, <1>6 DEF PassCaps, Typed, TypeOK, TraderState, Entering
<1>7. CASE RejectTrade
  BY <1>4, <1>7 DEF RejectTrade, TraderIdle, Entering
<1>8. ASSUME NEW id \in Ids, NEW lots \in 1 .. MaxLots, NEW mode \in Modes,
             SendOrder(id, lots, mode)
      PROVE  LedgerInv'
  <2>1. /\ pos[id].status = "unused" /\ UNCHANGED <<up, open, closer, monitor>>
        /\ trader'.id = id
    BY <1>8 DEF SendOrder, Typed, TypeOK, TraderState
  <2>2. pos'[id].realized = 0 /\ \A j \in Ids \ {id} : pos'[j] = pos[j]
    <3> DEFINE r == [Unused EXCEPT !.mkt = trader.mkt, !.mode = mode,
                                   !.status = "open", !.size = lots]
    <3>1. pos' = [pos EXCEPT ![id] = r] /\ r.realized = 0
      BY <1>8 DEF SendOrder, Unused
    <3> HIDE DEF r
    <3> QED BY <1>3, <3>1
  <2> QED BY <1>1, <2>1, <2>2, QuietLedger DEF NothingBooked
<1>9. CASE ExecuteOpen
  BY <1>4, <1>9 DEF ExecuteOpen, Typed, TypeOK, TraderState, Entering
<1>10. CASE OpenReply
  <2>1. CASE trader.lots = 0
    BY <1>4, <1>10, <2>1 DEF OpenReply, TraderIdle, Entering
  <2>2. CASE trader.lots # 0
    <3>1. pos' = [pos EXCEPT ![trader.id] = [pos[trader.id] EXCEPT !.size = trader.lots]]
      BY <1>10, <2>2 DEF OpenReply
    <3>2. UNCHANGED <<up, open, closer, monitor>> /\ trader'.id = trader.id /\ trader.pc \in Entering
      BY <1>10, <2>2 DEF OpenReply, Entering, Typed, TypeOK, TraderState
    <3>3. /\ pos'[trader.id].realized = pos[trader.id].realized
          /\ \A j \in Ids \ {trader.id} : pos'[j] = pos[j]
      BY <1>2, <1>3, <3>1, <3>2 DEF Position
    <3> QED BY <1>5, <3>2, <3>3
  <2> QED BY <2>1, <2>2
<1>11. CASE VerifyOrder
  <2>1. UNCHANGED <<up, open, closer, monitor>> /\ trader.pc \in Entering
    BY <1>11, Zenon DEF VerifyOrder, Entering
  <2>2. CASE trader' = TraderIdle /\ UNCHANGED pos
    BY <1>4, <2>1, <2>2 DEF TraderIdle, Entering
  <2>3. CASE /\ trader' = [trader EXCEPT !.pc = "placing", !.lots = exch[trader.mkt]]
             /\ pos' = [pos EXCEPT ![trader.id].size = exch[trader.mkt]]
    <3>1. pos' = [pos EXCEPT ![trader.id] = [pos[trader.id] EXCEPT !.size = exch[trader.mkt]]]
      BY <2>3
    <3>2. trader'.id = trader.id
      BY <2>3 DEF Typed, TypeOK, TraderState
    <3>3. /\ pos'[trader.id].realized = pos[trader.id].realized
          /\ \A j \in Ids \ {trader.id} : pos'[j] = pos[j]
      BY <1>2, <1>3, <2>1, <3>1 DEF Position
    <3> QED BY <1>5, <2>1, <3>2, <3>3
  <2> QED BY <1>11, <2>2, <2>3, Zenon DEF VerifyOrder
<1>12. CASE PlaceStop
  <2>1. UNCHANGED <<up, open, closer, monitor>> /\ trader'.id = trader.id /\ trader.pc \in Entering
    BY <1>12 DEF PlaceStop, Entering, Typed, TypeOK, TraderState
  <2>2. pos' = pos \/ pos' = [pos EXCEPT ![trader.id] = [pos[trader.id] EXCEPT !.stop = TRUE]]
    BY <1>12 DEF PlaceStop
  <2>3. /\ pos'[trader.id].realized = pos[trader.id].realized
        /\ \A j \in Ids \ {trader.id} : pos'[j] = pos[j]
    BY <1>2, <1>3, <2>1, <2>2 DEF Position
  <2> QED BY <1>5, <2>1, <2>3
<1>13. CASE PersistOpen
  BY <1>4, <1>13 DEF PersistOpen, Typed, TypeOK, TraderState, Entering
<1>14. CASE Track
  <2>1. /\ up /\ UNCHANGED <<up, pos, closer, monitor>> /\ trader' = TraderIdle
        /\ open' = open \cup {trader.id} /\ trader.pc \in Entering
    BY <1>14 DEF Track, Entering
  <2>2. OneCloser'
    BY <2>1 DEF LedgerInv, OneCloser
  <2>3. OpenUntilDropped' /\ NothingBooked' /\ NoneFailed' /\ DownStops'
    BY <1>2, <2>1
       DEF LedgerInv, OpenUntilDropped, NothingBooked, NoneFailed, DownStops, TraderIdle, Entering
  <2> QED BY <2>2, <2>3 DEF LedgerInv
<1> QED BY <1>6, <1>7, <1>8, <1>9, <1>10, <1>11, <1>12, <1>13, <1>14 DEF TraderStep

LEMMA OtherStepsLedger ==
  ASSUME MonitorAlone, Typed, IInv, LedgerInv, Request \/ World \/ Restart \/ UNCHANGED vars
  PROVE  LedgerInv'
<1> USE DEF memory, exchange, tasks
<1>1. ASSUME UNCHANGED <<up, pos, open, closer, monitor>>,
             trader' = trader \/ trader'.pc = "gate"
      PROVE  LedgerInv'
  BY <1>1, QuietLedger DEF LedgerInv, NothingBooked, Entering
<1>2. ASSUME NEW m \in Markets, StartTrade(m) PROVE LedgerInv'
  BY <1>1, <1>2 DEF StartTrade, TraderIdle
<1>3. ASSUME NEW id \in Ids PROVE ~ContraryClose(id) /\ \A u \in Users : ~UserClose(u, id)
  BY DEF MonitorAlone, ContraryClose
<1>4. ASSUME NEW id \in Ids, Expire(id) PROVE LedgerInv'
  BY <1>1, <1>4 DEF Expire
<1>5. ASSUME NEW m \in Markets, ExchangeFlattens(m) PROVE LedgerInv'
  BY <1>1, <1>5 DEF ExchangeFlattens
<1>6. CASE Crash
  BY <1>6, CallersAreClosers
     DEF Crash, LedgerInv, OneCloser, OpenUntilDropped, NothingBooked, NoneFailed, DownStops,
         TraderIdle, CloserIdle, MonitorIdle, Entering
<1>7. CASE Restart
  <2>1. /\ UNCHANGED <<trader, closer, monitor>> /\ up' /\ open' = OpenRows /\ ~up
        /\ \A id \in OpenRows : pos'[id] = row[id]
    BY <1>7 DEF Restart, OpenRows
  <2>2. OneCloser' /\ NoneFailed' /\ DownStops'
    BY <2>1 DEF LedgerInv, OneCloser, NoneFailed, DownStops
  <2>3. OpenUntilDropped'
    BY <2>1 DEF OpenUntilDropped, OpenRows
  <2>4. NothingBooked'
    BY <2>1 DEF IInv, BookInv, DownIdle, NothingBooked, Entering
  <2> QED BY <2>2, <2>3, <2>4 DEF LedgerInv
<1>8. CASE UNCHANGED vars
  BY <1>1, <1>8 DEF vars
<1> QED BY <1>2, <1>3, <1>4, <1>5, <1>6, <1>7, <1>8 DEF Request, World

LEMMA InitLedger == Init => LedgerInv
  BY CallersAreClosers
     DEF Init, LedgerInv, OneCloser, OpenUntilDropped, NothingBooked, NoneFailed, DownStops,
         TraderIdle, CloserIdle, MonitorIdle, Entering

LEMMA NextLedger ==
  ASSUME MonitorAlone, WritesSucceed
  PROVE  Typed /\ IInv /\ LedgerInv /\ [Next]_vars => LedgerInv'
<1> SUFFICES ASSUME Typed, IInv, LedgerInv, [Next]_vars PROVE LedgerInv'
  OBVIOUS
<1>1. CASE TraderStep  BY <1>1, TraderStepLedger
<1>2. ASSUME NEW c \in Closers, CloserStep(c) PROVE LedgerInv'
  BY <1>2, CloserStepLedger
<1>3. CASE MonitorStep BY <1>3, MonitorStepLedger
<1>4. CASE Request \/ World \/ Restart \/ UNCHANGED vars
  BY <1>4, OtherStepsLedger
<1> QED BY <1>1, <1>2, <1>3, <1>4 DEF Next
-----------------------------------------------------------------------------
(* The table as the ledger sees it.                                        *)
Entry(r) == [status |-> r.status, mkt |-> r.mkt, size |-> r.size, realized |-> r.realized]
Table == [id \in Ids |-> [ status   |-> row[id].status,
                           mkt      |-> row[id].mkt,
                           size     |-> row[id].size,
                           realized |-> row[id].realized ]]

LEMMA Rewritten ==
  ASSUME Typed, NEW id \in Ids, NEW r, row' = [row EXCEPT ![id] = r]
  PROVE  Table' = [Table EXCEPT ![id] = Entry(r)]
BY DEF Table, Entry, Typed, TypeOK, WorldOK

LEMMA TableIs ==
  ASSUME NEW id \in Ids
  PROVE  /\ Table[id] = Entry(row[id])
         /\ Table[id].status = row[id].status /\ Table[id].size = row[id].size
         /\ Table[id].mkt = row[id].mkt /\ Table[id].realized = row[id].realized
BY DEF Table, Entry

LEMMA OpenEntriesAre ==
  /\ Ledger!OpenEntries = OpenRows
  /\ Ledger!Cardinality(OpenRows) = Cardinality(OpenRows)
<1>1. Ledger!OpenEntries = OpenRows
  BY DEF Ledger!OpenEntries, OpenRows
<1>2. Ledger!Cardinality(OpenRows) = Cardinality(OpenRows)
  BY DEF Ledger!Cardinality, Cardinality
<1> QED BY <1>1, <1>2

(* A position is entered when it is first persisted: on a free market, and *)
(* within the cap.                                                         *)
LEMMA PersistEnters ==
  ASSUME WritesSucceed, Typed, IInv, LedgerInv, PersistOpen
  PROVE  Ledger!Next
<1>0. PICK id \in Ids : id = trader.id
  BY DEF PersistOpen, Entering, Typed, Refs, TraderRefs, Used
<1>1. /\ up /\ trader.pc = "placed" /\ row' = [row EXCEPT ![id] = pos[id]]
  BY <1>0, UpsertSucceeds DEF PersistOpen, UpsertOk
<1>2. /\ id \in Ids /\ pos[id] \in Position /\ pos[id].status = "open"
      /\ pos[id].mkt = trader.mkt /\ trader.mkt \in Markets
      /\ pos[id].realized = 0 /\ row[id].status = "unused" /\ id = trader.id
  BY <1>0, <1>1 DEF Entering, Typed, TypeOK, MemoryOK, Refs, TraderRefs, Used, IInv, EntryInv, EntryNew,
              LedgerInv, NothingBooked
<1>3. OpenRows \subseteq open
  BY <1>1 DEF IInv, BookInv, RowsTracked, Persisted
<1>4. Cardinality(OpenRows) < MaxOpen
  <2>1. BelowCap /\ open \cup OpenRows = open
    BY <1>1, <1>3 DEF IInv, EntryInv, EntryFree, Entering
  <2>2. /\ Cardinality(OpenRows) \in Nat /\ Cardinality(OpenRows) <= Cardinality(open)
        /\ Cardinality(open) \in Nat
    BY <2>1, FewerFit
  <2> QED BY <2>1, <2>2, ConstantsAssumption DEF BelowCap
<1>5. \A other \in OpenRows : row[other].mkt # trader.mkt
  <2>1. ~HasOpen(trader.mkt)
    BY <1>1 DEF IInv, EntryInv, EntryFree, Entering
  <2> QED BY <1>3, <2>1 DEF HasOpen, OpenRows, Typed, Refs, RowRefs
<1>6. Table' = [Table EXCEPT ![id] =
        [status |-> "open", mkt |-> trader.mkt, size |-> pos[id].size, realized |-> 0]]
  <2>1. Table' = [Table EXCEPT ![id] = Entry(pos[id])]
    BY <1>1, Rewritten
  <2> QED BY <1>2, <2>1 DEF Entry
<1>7. Table'[id].size = pos[id].size
  <2>1. Table'[id].size = row'[id].size
    BY DEF Table
  <2> QED BY <1>1, <2>1 DEF Typed, TypeOK, WorldOK
<1>8. Ledger!Enter(id, trader.mkt, Table'[id].size)
  <2>1. \A other \in OpenRows : Table[other].mkt # trader.mkt
    BY <1>5, TableIs DEF OpenRows
  <2>2. Table[id].status = "unused"
    BY <1>2, TableIs
  <2>3. /\ Table[id].status = "unused"
        /\ Ledger!Cardinality(Ledger!OpenEntries) < MaxOpen
        /\ \A other \in Ledger!OpenEntries : Table[other].mkt # trader.mkt
        /\ Table' = [Table EXCEPT ![id] =
             [status |-> "open", mkt |-> trader.mkt, size |-> Table'[id].size, realized |-> 0]]
    BY <1>4, <1>6, <1>7, <2>1, <2>2, OpenEntriesAre
  <2> QED BY <2>3 DEF Ledger!Enter, Table
<1> QED BY <1>2, <1>8 DEF Ledger!Next, Table

(* The row of a tracked position is the position.                          *)
LEMMA RowOf ==
  ASSUME Typed, IInv, LedgerInv, NEW id \in open
  PROVE  /\ id \in Ids /\ pos[id] \in Position
         /\ row[id].status = pos[id].status /\ row[id].mkt = pos[id].mkt
         /\ row[id].size = pos[id].size /\ row[id].realized = pos[id].realized
         /\ closer["monitor"].pc \notin {"saved", "marked"} => pos[id].status = "open"
<1>1. id \in Ids /\ pos[id].status # "unused" /\ pos[id] \in Position
  BY TrackedExist DEF Typed, TypeOK, MemoryOK
<1>2. Agree(id)
  BY <1>1 DEF IInv, BookInv, RowsAgree
<1>3. row[id].mkt = pos[id].mkt
  BY <1>1, <1>2 DEF Agree, Typed, Refs, RowRefs
<1>4. closer["monitor"].pc \notin {"saved", "marked"} => pos[id].status = "open"
  BY DEF LedgerInv, OpenUntilDropped
<1> QED BY <1>1, <1>2, <1>3, <1>4 DEF Agree

(* What an entry becomes, field by field.                                  *)
Entries == [ status : {"unused", "open", "closed"}, mkt : Markets \cup {NoMarket},
             size : Nat, realized : Nat ]

LEMMA SameEntry ==
  ASSUME NEW e \in Entries, NEW f \in Entries,
         e.status = f.status, e.mkt = f.mkt, e.size = f.size, e.realized = f.realized
  PROVE  e = f
BY DEF Entries

LEMMA EntryAmended ==
  ASSUME NEW e \in Entries, NEW n \in Nat, NEW b \in Nat
  PROVE  /\ [e EXCEPT !.size = n, !.realized = b] =
              [status |-> e.status, mkt |-> e.mkt, size |-> n, realized |-> b]
         /\ [e EXCEPT !.status = "closed", !.realized = b] =
              [status |-> "closed", mkt |-> e.mkt, size |-> e.size, realized |-> b]
<1> DEFINE f == [e EXCEPT !.size = n, !.realized = b]
           g == [e EXCEPT !.status = "closed", !.realized = b]
<1>1. /\ f \in Entries
      /\ f.status = e.status /\ f.mkt = e.mkt /\ f.size = n /\ f.realized = b
  BY DEF Entries
<1>2. /\ g \in Entries
      /\ g.status = "closed" /\ g.mkt = e.mkt /\ g.size = e.size /\ g.realized = b
  BY DEF Entries
<1>3. /\ [status |-> e.status, mkt |-> e.mkt, size |-> n, realized |-> b] \in Entries
      /\ [status |-> "closed", mkt |-> e.mkt, size |-> e.size, realized |-> b] \in Entries
  BY DEF Entries
<1> HIDE DEF f, g
<1>4. f = [status |-> e.status, mkt |-> e.mkt, size |-> n, realized |-> b]
  BY <1>1, <1>3, SameEntry
<1>5. g = [status |-> "closed", mkt |-> e.mkt, size |-> e.size, realized |-> b]
  BY <1>2, <1>3, SameEntry
<1> QED BY <1>4, <1>5 DEF f, g

(* A partial close books a slice.                                          *)
LEMMA PartialSlices ==
  ASSUME WritesSucceed, Typed, IInv, LedgerInv, NEW c \in Closers, ClosePartial(c)
  PROVE  Ledger!Next
<1>1. c = "monitor" /\ closer["monitor"].pc = "replied"
  BY DEF ClosePartial, LedgerInv, OneCloser
<1>2. PICK id \in open : id = closer["monitor"].id
  BY <1>1 DEF LedgerInv, OneCloser
<1>3. PICK k \in Nat : k = closer["monitor"].fill
  BY Quantities, CallersAreClosers
<1>4. /\ 0 < k /\ k < pos[id].size
      /\ row' = [row EXCEPT ![id] = Sliced(id, k)]
  BY <1>1, <1>2, <1>3, UpsertSucceeds DEF ClosePartial, UpsertOk
<1>5. /\ id \in Ids /\ pos[id] \in Position /\ pos[id].status = "open"
      /\ Table[id] = Entry(pos[id])
  BY <1>1, RowOf, TableIs DEF Entry
<1>6. Entry(Sliced(id, k)) = [ status |-> "open", mkt |-> pos[id].mkt,
                               size |-> pos[id].size - k, realized |-> pos[id].realized + k ]
  BY <1>5 DEF Entry, Sliced, Position
<1>7. Table' = [Table EXCEPT ![id] = Entry(Sliced(id, k))]
  BY <1>4, <1>5, Rewritten
<1>8. /\ Table'[id].size = pos[id].size - k /\ Table[id].size = pos[id].size
      /\ Table[id].size - Table'[id].size = k
  BY <1>3, <1>5, <1>6, <1>7 DEF Entry, Table, Position
<1>9. Table' = [Table EXCEPT ![id].size = @ - k, ![id].realized = @ + k]
  <2>1. /\ Table[id] \in Entries /\ Table[id].status = "open"
        /\ Table[id].mkt = pos[id].mkt /\ Table[id].size = pos[id].size
        /\ Table[id].realized = pos[id].realized
    BY <1>5 DEF Entry, Entries, Position
  <2>2. pos[id].size - k \in Nat /\ pos[id].realized + k \in Nat
    BY <1>3, <1>4, <1>5 DEF Position
  <2>3. [Table[id] EXCEPT !.size = pos[id].size - k, !.realized = pos[id].realized + k] =
          [ status |-> Table[id].status, mkt |-> Table[id].mkt,
            size |-> pos[id].size - k, realized |-> pos[id].realized + k ]
    BY <2>1, <2>2, EntryAmended, Zenon
  <2>4. Entry(Sliced(id, k)) = [Table[id] EXCEPT !.size = pos[id].size - k,
                                                 !.realized = pos[id].realized + k]
    BY <1>6, <2>1, <2>3, Zenon
  <2>5. Entry(Sliced(id, k)) = [Table[id] EXCEPT !.size = @ - k, !.realized = @ + k]
    BY <2>1, <2>4, Zenon
  <2> QED BY <1>7, <2>5 DEF Table
<1>10. Ledger!Slice(id, k)
  <2>1. id \in OpenRows /\ k < Table[id].size
    BY <1>1, <1>4, <1>5, <1>8, RowOf DEF OpenRows
  <2> QED BY <1>9, <2>1, OpenEntriesAre DEF Ledger!Slice, Table
<1>11. Ledger!Slice(id, Table[id].size - Table'[id].size)
  BY <1>8, <1>10, Zenon DEF Ledger!Slice
<1> QED BY <1>5, <1>11, Zenon DEF Ledger!Next, Table

(* Recording a close, by an order or by the reconciler, books the rest.    *)
LEMMA RecordCloses ==
  ASSUME WritesSucceed, Typed, IInv, LedgerInv, NEW id \in open,
         closer["monitor"].pc \notin {"saved", "marked"}, MarkRecorded(id)
  PROVE  Ledger!Next
<1>1. /\ id \in Ids /\ pos[id] \in Position /\ pos[id].status = "open"
      /\ Table[id] = Entry(pos[id]) /\ id \in OpenRows
  BY RowOf, TableIs DEF Entry, OpenRows
<1>2. row' = [row EXCEPT ![id] = Recorded(id)]
  BY UpsertSucceeds DEF MarkRecorded, UpsertOk
<1>3. Table' = [Table EXCEPT ![id] = Entry(Recorded(id))]
  BY <1>1, <1>2, Rewritten
<1>4. Table[id] = [ status |-> "open", mkt |-> pos[id].mkt, size |-> pos[id].size,
                    realized |-> pos[id].realized ]
  BY <1>1 DEF Entry
<1>5. Entry(Recorded(id)) = [Table[id] EXCEPT !.status = "closed", !.realized = @ + Table[id].size]
  <2>1. /\ Table[id] \in Entries /\ Table[id].mkt = pos[id].mkt
        /\ Table[id].size = pos[id].size /\ Table[id].realized = pos[id].realized
    BY <1>1 DEF Entry, Entries, Position
  <2>2. pos[id].realized + pos[id].size \in Nat
    BY <1>1 DEF Position
  <2>3. Entry(Recorded(id)) = [ status |-> "closed", mkt |-> pos[id].mkt, size |-> pos[id].size,
                                realized |-> pos[id].realized + pos[id].size ]
    BY <1>1 DEF Entry, Recorded, Position
  <2>4. [Table[id] EXCEPT !.status = "closed", !.realized = pos[id].realized + pos[id].size] =
          [ status |-> "closed", mkt |-> Table[id].mkt, size |-> Table[id].size,
            realized |-> pos[id].realized + pos[id].size ]
    BY <2>1, <2>2, EntryAmended, Zenon
  <2>5. Entry(Recorded(id)) = [Table[id] EXCEPT !.status = "closed",
                                                !.realized = pos[id].realized + pos[id].size]
    BY <2>1, <2>3, <2>4, Zenon
  <2> QED BY <2>1, <2>5, Zenon
<1>6. Table' = [Table EXCEPT ![id].status = "closed", ![id].realized = @ + Table[id].size]
  BY <1>3, <1>5 DEF Table
<1>7. Ledger!Close(id)
  BY <1>1, <1>6, OpenEntriesAre DEF Ledger!Close, Table
<1> QED BY <1>1, <1>7 DEF Ledger!Next

(* The peak that a scan writes is no part of the ledger.                   *)
LEMMA KeepChangesNothing ==
  ASSUME WritesSucceed, Typed, IInv, LedgerInv, ScanKeep
  PROVE  UNCHANGED Table
<1>1. PICK id \in open : id = monitor.id
  BY DEF ScanKeep, MonitorAt, LedgerInv, OneCloser
<1>2. row' = row \/ row' = [row EXCEPT ![id] = pos[id]]
  BY <1>1, UpsertSucceeds DEF ScanKeep, UpsertOk
<1>3. CASE row' = row
  BY <1>3 DEF Table
<1>4. CASE row' = [row EXCEPT ![id] = pos[id]]
  <2>1. id \in Ids /\ Table[id] = Entry(pos[id])
    BY <1>1, RowOf, TableIs DEF Entry
  <2>2. Table' = [Table EXCEPT ![id] = Table[id]]
    BY <1>4, <2>1, Rewritten
  <2> QED BY <2>1, <2>2 DEF Table
<1> QED BY <1>2, <1>3, <1>4

LEMMA InitImplements == Init => /\ Table = [id \in Ids |-> Ledger!Blank]
BY DEF Init, Table, Unused, Ledger!Blank

(* Each step is a step of the ledger, or leaves the table as it was.       *)
LEMMA StepImplements ==
  ASSUME MonitorAlone, WritesSucceed, Typed, IInv, LedgerInv, [Next]_vars
  PROVE  Ledger!Next \/ UNCHANGED Table
<1> USE DEF memory, exchange, tasks
<1>1. row' = row => UNCHANGED Table
  BY DEF Table
<1>2. CASE TraderStep
  <2>1. CASE PersistOpen
    BY <2>1, PersistEnters
  <2>2. CASE ~PersistOpen
    <3>1. row' = row
      BY <1>2, <2>2
         DEF TraderStep, PassCaps, RejectTrade, SendOrder, ExecuteOpen, OpenReply, VerifyOrder,
             PlaceStop, Track
    <3> QED BY <1>1, <3>1
  <2> QED BY <2>1, <2>2
<1>3. ASSUME NEW c \in Closers, CloserStep(c) PROVE Ledger!Next \/ UNCHANGED Table
  <2>1. CASE ClosePartial(c)
    BY <2>1, PartialSlices
  <2>2. CASE RecordClose(c)
    <3>1. c = "monitor" /\ closer["monitor"].pc = "record" /\ closer["monitor"].id \in open
      BY <2>2 DEF RecordClose, LedgerInv, OneCloser
    <3>2. row' = row \/ MarkRecorded(closer["monitor"].id)
      BY <2>2, <3>1 DEF RecordClose
    <3> QED BY <1>1, <3>1, <3>2, RecordCloses
  <2>3. CASE ~ClosePartial(c) /\ ~RecordClose(c)
    <3>1. row' = row
      BY <1>3, <2>3
         DEF CloserStep, ExecuteClose, CloseUnfilled, CloseFilled, PaperPriceRaises, FinishClose,
             CloseRaises, FinishPartial
    <3> QED BY <1>1, <3>1
  <2> QED BY <2>1, <2>2, <2>3
<1>4. CASE MonitorStep
  <2>1. ASSUME NEW id \in Ids, ReconcileGone(id) PROVE Ledger!Next \/ UNCHANGED Table
    <3>1. closer["monitor"].pc = "idle" /\ id \in open
      BY <2>1 DEF ReconcileGone, MonitorAt, LedgerInv, OneCloser
    <3>2. row' = row \/ MarkRecorded(id)
      BY <2>1 DEF ReconcileGone
    <3> QED BY <1>1, <3>1, <3>2, RecordCloses
  <2>2. CASE ScanKeep
    BY <2>2, KeepChangesNothing
  <2>3. CASE ~ScanKeep /\ \A id \in Ids : ~ReconcileGone(id)
    <3>1. row' = row
      BY <1>4, <2>3
         DEF MonitorStep, FetchStates, StartReconcile, ReconcileSkip, ReconcilePresent, ReconcileMiss,
             ScanSkip, ScanAsk, FinishMark, StartScan, ScanExit, ScanRaises, EndScan
    <3> QED BY <1>1, <3>1
  <2> QED BY <2>1, <2>2, <2>3
<1>5. CASE Request \/ World \/ Restart \/ UNCHANGED vars
  <2>1. row' = row
    BY <1>5 DEF Request, StartTrade, ContraryClose, UserClose, World, Expire, ExchangeFlattens, Crash,
                Restart, vars
  <2> QED BY <1>1, <2>1
<1> QED BY <1>2, <1>3, <1>4, <1>5 DEF Next

(* Every behaviour of the book is a behaviour of the ledger: whatever the  *)
(* exchange answers, wherever the process dies and comes back, the rows    *)
(* that save_position writes enter a position once, on a free market and   *)
(* within the cap, book its lots in slices and each exactly once, and      *)
(* leave a closed entry alone.  The monitor is the only one that closes,   *)
(* and a write to the database succeeds.                                   *)
THEOREM KeepsTheLedger == MonitorAlone /\ WritesSucceed => (Spec => ImplementsLedger)
<1> SUFFICES ASSUME MonitorAlone /\ WritesSucceed PROVE Spec => ImplementsLedger
  OBVIOUS
<1>1. Init => LedgerInv
  BY InitLedger
<1>2. Typed /\ IInv /\ LedgerInv /\ [Next]_vars => LedgerInv'
  BY NextLedger
<1>3. Init => Ledger!Init
  BY InitImplements DEF Ledger!Init, Table
<1>4. Typed /\ IInv /\ LedgerInv /\ [Next]_vars => Ledger!Next \/ UNCHANGED Table
  BY StepImplements
<1>5. Spec => []Typed BY TypeCorrect DEF Typed
<1>6. Spec => []IInv BY BookSafe
<1> QED BY <1>1, <1>2, <1>3, <1>4, <1>5, <1>6, PTL DEF Spec, ImplementsLedger, Ledger!Spec, Table
=============================================================================
