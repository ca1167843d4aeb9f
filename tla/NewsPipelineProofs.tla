-------------------------- MODULE NewsPipelineProofs --------------------------
(***************************************************************************)
(* What shutdown and restart keep, for every set of headlines, every bound *)
(* of the queues and every interleaving of feeds, tasks and writes.        *)
(*                                                                         *)
(* None of them is inductive.  A drain that loses nothing rests on         *)
(* what each phase has waited for (Draining) and on how far a headline's   *)
(* writes are when its task is where it is (Recorded).  That no headline   *)
(* is traded on twice rests on the dedup memory holding whatever ever got  *)
(* a task (Remembered), over a restart because a headline is on record     *)
(* before its position can be (NewsFirst).  That a burst is read in its    *)
(* order rests on the buffer rising, with every headline in it past its    *)
(* verdict (InBuffer), so that a headline enters it once.                  *)
(*                                                                         *)
(* Last, that the feed of the headlines skips none (TelegramFeed).         *)
(***************************************************************************)
EXTENDS NewsPipeline, TelegramFeed, FiniteSetTheorems, SequenceTheorems, TLAPS

Stages == InTask \cup {"none", "done"}
Phases == {"running", "procs", "trades", "writes", "closed", "down"}

NewsTypes ==
  /\ phase \in Phases
  /\ seen \in Seq(Items)
  /\ stage \in [Items -> Stages]
  /\ starts \in [Items -> Nat]
  /\ writes \in Seq(Writes)

Tasks == {Write("task", i) : i \in Active}

(* What each phase of the drain has waited for.                            *)
Draining ==
  /\ phase = "procs" => Tasks \subseteq waiting
  /\ phase \in {"trades", "writes", "closed"} => Active = {}
  /\ phase = "writes" => Range(writes) \subseteq waiting
  /\ phase = "closed" => writes = <<>>

(* A write that was issued: done, or on its way.                           *)
Issued(kind, i) == Write(kind, i) \in table \cup Range(writes)

Solo == {"none", "queued", "analyzing"}

Recorded ==
  \A i \in Items :
    /\ stage[i] # "none" => Issued("news", i)
    /\ starts[i] > 0 => stage[i] # "none"
    /\ stage[i] \notin Solo => Issued("analysis", i)

DrainInv == NewsTypes /\ Draining /\ Recorded
-----------------------------------------------------------------------------
(* Sequences as queues.                                                    *)
LEMMA RangeAppend ==
  ASSUME NEW S, NEW s \in Seq(S), NEW e \in S
  PROVE  Append(s, e) \in Seq(S) /\ Range(Append(s, e)) = Range(s) \cup {e}
<1>1. /\ Append(s, e) \in Seq(S)
      /\ Len(Append(s, e)) = Len(s) + 1
      /\ \A i \in 1 .. Len(s) : Append(s, e)[i] = s[i]
      /\ Append(s, e)[Len(s) + 1] = e
  BY AppendProperties
<1>2. Len(s) \in Nat /\ 1 .. Len(s) + 1 = 1 .. Len(s) \cup {Len(s) + 1}
  BY LenProperties
<1>3. Range(Append(s, e)) = {Append(s, e)[i] : i \in 1 .. Len(s) + 1}
  BY <1>1, RangeEquality
<1>4. Range(s) = {s[i] : i \in 1 .. Len(s)}
  BY RangeEquality
<1>5. \A x : x \in Range(Append(s, e)) <=> x \in Range(s) \cup {e}
  BY <1>1, <1>2, <1>3, <1>4
<1> QED BY <1>1, <1>5

LEMMA RangeTail ==
  ASSUME NEW S, NEW s \in Seq(S), s # <<>>
  PROVE  /\ Head(s) \in S /\ Tail(s) \in Seq(S)
         /\ Range(s) = {Head(s)} \cup Range(Tail(s))
<1>1. /\ Head(s) \in S /\ Tail(s) \in Seq(S)
      /\ Len(Tail(s)) = Len(s) - 1
      /\ \A i \in 1 .. Len(Tail(s)) : Tail(s)[i] = s[i + 1]
  BY HeadTailProperties
<1>2. Len(s) \in Nat \ {0} /\ Head(s) = s[1]
  BY EmptySeq
<1>3. /\ Range(s) = {s[i] : i \in 1 .. Len(s)}
      /\ Range(Tail(s)) = {Tail(s)[i] : i \in 1 .. Len(Tail(s))}
  BY <1>1, RangeEquality
<1>4. \A x \in Range(Tail(s)) : x \in Range(s)
  BY <1>1, <1>2, <1>3
<1>5. s[1] \in Range(s)
  BY <1>2, <1>3
<1>6. ASSUME NEW i \in 1 .. Len(s), i # 1
      PROVE  s[i] \in Range(Tail(s))
  <2>1. i - 1 \in 1 .. Len(Tail(s)) /\ Tail(s)[i - 1] = s[i]
    BY <1>1, <1>2, <1>6
  <2> QED BY <1>3, <2>1
<1>7. \A x : x \in Range(s) <=> x \in {Head(s)} \cup Range(Tail(s))
  BY <1>2, <1>3, <1>4, <1>5, <1>6
<1> QED BY <1>1, <1>7

LEMMA RangeEmpty == Range(<<>>) = {}
BY DEF Range

(* What Dedup remembers is a sequence of headlines, all of them when there *)
(* is room.                                                                *)
LEMMA RememberIs ==
  ASSUME NEW s \in Seq(Items), NEW i \in Items
  PROVE  /\ Remember(s, i) \in Seq(Items)
         /\ Len(s) < Memory => Remember(s, i) = Append(s, i)
<1>1. Memory \in Nat \ {0}
  BY NewsAssumption
<1>2. /\ Append(s, i) \in Seq(Items)
      /\ Len(s) \in Nat /\ Len(Append(s, i)) = Len(s) + 1
      /\ \A k \in 1 .. Len(Append(s, i)) : Append(s, i)[k] \in Items
  BY AppendProperties, LenProperties, ElementOfSeq
<1>3. CASE Len(Append(s, i)) > Memory
  <2> DEFINE t == Append(s, i)
             m == Len(t) - Memory + 1
  <2>1. m \in Int /\ Len(t) \in Int /\ \A k \in m .. Len(t) : t[k] \in Items
    BY <1>1, <1>2, <1>3
  <2>2. SubSeq(t, m, Len(t)) \in Seq(Items)
    BY <2>1, SubSeqProperties
  <2> QED BY <1>1, <1>2, <1>3, <2>2 DEF Remember, LastN
<1>4. CASE ~(Len(Append(s, i)) > Memory)
  BY <1>2, <1>4 DEF Remember
<1> QED BY <1>1, <1>2, <1>3, <1>4

(* The store's connection takes the write that was issued first.           *)
LEMMA WriteIs ==
  ASSUME NEW kind \in {"news", "analysis", "decision", "position"}, NEW i \in Items
  PROVE  /\ Write(kind, i) \in Writes
         /\ Write(kind, i).kind = kind /\ Write(kind, i).item = i
BY DEF Write, Writes

LEMMA SameWrite ==
  ASSUME NEW k, NEW l, NEW i, NEW j, Write(k, i) = Write(l, j)
  PROVE  k = l /\ i = j
<1>1. Write(k, i).kind = k /\ Write(k, i).item = i /\ Write(l, j).kind = l /\ Write(l, j).item = j
  BY DEF Write
<1> QED BY <1>1

LEMMA IssueAppends ==
  ASSUME NewsTypes, NEW kind \in {"news", "analysis", "decision", "position"},
         NEW i \in Items, Persist(kind, i)
  PROVE  /\ writes' = Append(writes, Write(kind, i))
         /\ writes' \in Seq(Writes)
         /\ Range(writes') = Range(writes) \cup {Write(kind, i)}
BY WriteIs, RangeAppend DEF Persist, NewsTypes
-----------------------------------------------------------------------------
(* What a step of a processing task does, whichever it is.                 *)
TaskMoves(i) ==
  /\ stage[i] \in InTask
  /\ UNCHANGED <<phase, seen, starts, table, waiting>>
  /\ \E s \in InTask \cup {"done"} : stage' = [stage EXCEPT ![i] = s]
  /\ writes' \in Seq(Writes)
  /\ \/ writes' = writes /\ (stage[i] \in Solo => stage'[i] \in Solo)
     \/ \E kind \in {"analysis", "decision", "position"} :
          /\ writes' = Append(writes, Write(kind, i))
          /\ Range(writes') = Range(writes) \cup {Write(kind, i)}
          /\ stage[i] \in Solo => kind = "analysis"

LEMMA TaskStepMoves ==
  ASSUME NewsTypes, NEW i \in Items, TaskStep(i)
  PROVE  TaskMoves(i)
<1> USE DEF InTask, Analysis, Trade, Solo
<1>1. CASE BeginAnalysis(i)
  BY <1>1 DEF BeginAnalysis, TaskMoves, NewsTypes
<1>2. CASE SoloVerdict(i)
  BY <1>2, IssueAppends DEF SoloVerdict, TaskMoves, NewsTypes
<1>3. CASE BurstVerdict(i)
  BY <1>3, IssueAppends DEF BurstVerdict, TaskMoves, NewsTypes
<1>4. CASE CombinedVerdict(i)
  BY <1>4, IssueAppends DEF CombinedVerdict, TaskMoves, NewsTypes
<1>5. CASE TakeLock(i)
  BY <1>5 DEF TakeLock, TaskMoves, NewsTypes
<1>6. CASE ExitContrary(i)
  BY <1>6 DEF ExitContrary, TaskMoves, NewsTypes
<1>7. CASE Decide(i)
  BY <1>7, IssueAppends DEF Decide, TaskMoves, NewsTypes
<1>8. CASE OrderFails(i)
  BY <1>8 DEF OrderFails, TaskMoves, NewsTypes
<1>9. CASE OrderFills(i)
  BY <1>9, IssueAppends DEF OrderFills, TaskMoves, NewsTypes
<1>10. CASE Track(i)
  BY <1>10 DEF Track, TaskMoves, NewsTypes
<1> QED
  BY <1>1, <1>2, <1>3, <1>4, <1>5, <1>6, <1>7, <1>8, <1>9, <1>10 DEF TaskStep

(* And what a delivery does.                                               *)
Delivers(i) ==
  /\ phase = "running"
  /\ UNCHANGED <<phase, table, waiting>>
  /\ writes' = Append(writes, Write("news", i))
  /\ writes' \in Seq(Writes)
  /\ Range(writes') = Range(writes) \cup {Write("news", i)}
  /\ \/ i \in Range(seen) /\ UNCHANGED <<seen, stage, starts>>
     \/ i \notin Range(seen) /\ seen' = Remember(seen, i) /\ UNCHANGED <<stage, starts>>
     \/ /\ i \notin Range(seen)
        /\ seen' = Remember(seen, i)
        /\ stage' = [stage EXCEPT ![i] = "queued"]
        /\ starts' = [starts EXCEPT ![i] = @ + 1]

LEMMA IngestDelivers ==
  ASSUME NewsTypes, NEW i \in Items, Ingest(i)
  PROVE  Delivers(i)
<1>1. CASE SkipDuplicate(i)
  BY <1>1, IssueAppends DEF SkipDuplicate, Deliver, Delivers
<1>2. CASE SkipFiltered(i)
  BY <1>2, IssueAppends DEF SkipFiltered, Deliver, Delivers
<1>3. CASE StartProcess(i)
  BY <1>3, IssueAppends DEF StartProcess, Deliver, Delivers
<1> QED BY <1>1, <1>2, <1>3 DEF Ingest

LEMMA TheOrder ==
  /\ DrainOrder[1] = "procs" /\ DrainOrder[2] = "trades" /\ DrainOrder[3] = "writes"
  /\ Len(DrainOrder) = 3 /\ 1 .. Len(DrainOrder) = {1, 2, 3}
BY DEF DrainOrder

(* A headline whose task is over, or that never had one, is not active.    *)
LEMMA QuietTrades ==
  ASSUME Active = {}
  PROVE  {j \in Items : stage[j] \in Trade} = {}
BY DEF Active, InTask

(* What the steps of the drain change.                                     *)
Advances ==
  /\ UNCHANGED <<seen, stage, starts, writes, table>>
  /\ \/ phase = "running" /\ phase' = "procs" /\ waiting' = Tasks
     \/ phase = "procs" /\ phase' = "trades" /\ waiting \cap Tasks = {}
     \/ phase = "trades" /\ phase' = "writes" /\ waiting' = Range(writes)
     \/ phase = "writes" /\ phase' = "closed" /\ waiting \cap Range(writes) = {}

LEMMA DrainAdvances ==
  ASSUME Stop \/ Drained
  PROVE  Advances
<1> USE TheOrder
<1>1. CASE Stop
  BY <1>1 DEF Stop, Advances, InFlight, Tasks
<1>2. CASE Drained
  <2>1. PICK k \in {1, 2, 3} :
          /\ phase = DrainOrder[k]
          /\ waiting \cap InFlight(phase) = {}
          /\ IF k = 3
             THEN phase' = "closed" /\ waiting' = {}
             ELSE phase' = DrainOrder[k + 1] /\ waiting' = InFlight(DrainOrder[k + 1])
          /\ UNCHANGED <<delivered, seen, stage, starts, buffer, prior, writes, table, boots>>
    BY <1>2 DEF Drained
  <2>2. CASE k = 1
    BY <2>1, <2>2 DEF Advances, InFlight, Tasks
  <2>3. CASE k = 2
    BY <2>1, <2>3 DEF Advances, InFlight
  <2>4. CASE k = 3
    BY <2>1, <2>4 DEF Advances, InFlight
  <2> QED BY <2>2, <2>3, <2>4
<1> QED BY <1>1, <1>2

(* What the end of a process, and the start of the next, leave in memory.  *)
Emptied ==
  /\ phase' \in {"down", "running"}
  /\ phase' = "down" => seen' = <<>>
  /\ phase' = "running" => seen' \in Restored
  /\ stage' = [i \in Items |-> "none"]
  /\ starts' = [i \in Items |-> 0]
  /\ writes' = <<>>
  /\ UNCHANGED table

LEMMA RestartEmpties ==
  ASSUME Crash \/ Boot
  PROVE  Emptied
BY DEF Crash, Boot, Emptied, EmptyMemory

LEMMA RestoredType ==
  ASSUME NEW ids \in Restored
  PROVE  ids \in Seq(Items)
<1>1. ids \in [1 .. Cardinality(Newest) -> Newest] /\ Newest \subseteq Items
  BY DEF Restored, InOrder, Newest
<1>2. Cardinality(Newest) \in Nat
  BY <1>1, NewsAssumption, FS_Subset, FS_CardinalityType
<1>3. ids \in [1 .. Cardinality(Newest) -> Items]
  BY <1>1
<1> QED BY <1>2, <1>3, SeqDef
-----------------------------------------------------------------------------
LEMMA NextIs ==
  ASSUME NewsTypes, [Next]_vars
  PROVE  \/ \E i \in Items : Delivers(i) \/ TaskMoves(i)
         \/ StoreWrites
         \/ Advances
         \/ Emptied
         \/ UNCHANGED vars
<1>1. CASE \E i \in Items : Ingest(i) \/ TaskStep(i)
  BY <1>1, IngestDelivers, TaskStepMoves
<1>2. CASE Stop \/ Drained
  BY <1>2, DrainAdvances
<1>3. CASE Crash \/ Boot
  BY <1>3, RestartEmpties
<1> QED BY <1>1, <1>2, <1>3 DEF Next

LEMMA StoreMoves ==
  ASSUME NewsTypes, StoreWrites
  PROVE  /\ UNCHANGED <<phase, seen, stage, starts, waiting>>
         /\ writes # <<>>
         /\ writes' = Tail(writes)
         /\ writes' \in Seq(Writes)
         /\ table' = table \cup {Head(writes)}
         /\ Range(writes) = {Head(writes)} \cup Range(writes')
BY RangeTail DEF StoreWrites, NewsTypes

LEMMA TypesStep ==
  ASSUME NewsTypes, [Next]_vars
  PROVE  NewsTypes'
<1> USE DEF NewsTypes, Phases, Stages, InTask, Analysis, Trade
<1>1. ASSUME NEW i \in Items, Delivers(i)
      PROVE  NewsTypes'
  <2>1. seen' \in Seq(Items)
    BY <1>1, RememberIs DEF Delivers
  <2>2. stage' \in [Items -> Stages]
    BY <1>1 DEF Delivers
  <2>3. starts' \in [Items -> Nat]
    BY <1>1 DEF Delivers
  <2> QED BY <1>1, <2>1, <2>2, <2>3 DEF Delivers
<1>2. ASSUME NEW i \in Items, TaskMoves(i)
      PROVE  NewsTypes'
  BY <1>2 DEF TaskMoves
<1>3. CASE StoreWrites
  BY <1>3, StoreMoves
<1>4. CASE Advances
  BY <1>4 DEF Advances
<1>5. CASE Emptied
  <2>1. seen' \in Seq(Items)
    <3>1. CASE phase' = "down"
      BY <1>5, <3>1, EmptySeq DEF Emptied
    <3>2. CASE phase' = "running"
      BY <1>5, <3>2, RestoredType DEF Emptied
    <3> QED BY <1>5, <3>1, <3>2 DEF Emptied
  <2>2. phase' \in Phases
    BY <1>5 DEF Emptied
  <2>3. stage' \in [Items -> Stages]
    BY <1>5 DEF Emptied
  <2>4. starts' \in [Items -> Nat]
    BY <1>5 DEF Emptied
  <2>5. writes' \in Seq(Writes)
    BY <1>5, EmptySeq DEF Emptied
  <2> QED BY <2>1, <2>2, <2>3, <2>4, <2>5
<1>6. CASE UNCHANGED vars
  BY <1>6 DEF vars, process
<1> QED BY <1>1, <1>2, <1>3, <1>4, <1>5, <1>6, NextIs

(* A task that moves was active, and nothing becomes active by its move.   *)
LEMMA ActiveShrinks ==
  ASSUME NewsTypes, NEW i \in Items, TaskMoves(i)
  PROVE  i \in Active /\ Active' \subseteq Active
BY DEF TaskMoves, Active, NewsTypes, InTask, Stages

LEMMA DrainingStep ==
  ASSUME NewsTypes, Draining, [Next]_vars
  PROVE  Draining'
<1>1. ASSUME NEW i \in Items, Delivers(i)
      PROVE  Draining'
  BY <1>1 DEF Delivers, Draining
<1>2. ASSUME NEW i \in Items, TaskMoves(i)
      PROVE  Draining'
  <2>1. Active # {} /\ Tasks' \subseteq Tasks
    BY <1>2, ActiveShrinks DEF Tasks, Write
  <2>2. phase' = phase /\ waiting' = waiting
    BY <1>2 DEF TaskMoves
  <2> QED BY <2>1, <2>2 DEF Draining
<1>3. CASE StoreWrites
  <2>1. UNCHANGED Active /\ UNCHANGED Tasks
    BY <1>3, StoreMoves DEF Active, Tasks
  <2> QED BY <1>3, <2>1, StoreMoves DEF Draining
<1>4. CASE Advances
  <2>1. UNCHANGED Active /\ UNCHANGED Tasks
    BY <1>4 DEF Advances, Active, Tasks
  <2>2. Tasks = {} => Active = {}
    BY DEF Tasks
  <2>3. Range(writes) = {} => writes = <<>>
    <3>1. SUFFICES ASSUME writes # <<>>
                   PROVE  Range(writes) # {}
      OBVIOUS
    <3>2. Range(writes) = {Head(writes)} \cup Range(Tail(writes))
      BY <3>1, RangeTail DEF NewsTypes
    <3> QED BY <3>2
  <2>4. waiting \cap Tasks = {} /\ Tasks \subseteq waiting => Tasks = {}
    OBVIOUS
  <2>5. waiting \cap Range(writes) = {} /\ Range(writes) \subseteq waiting
          => Range(writes) = {}
    OBVIOUS
  <2> QED BY <1>4, <2>1, <2>2, <2>3, <2>4, <2>5 DEF Advances, Draining
<1>5. CASE Emptied
  BY <1>5 DEF Emptied, Draining
<1>6. CASE UNCHANGED vars
  BY <1>6 DEF vars, process, Draining, Active, Tasks
<1> QED BY <1>1, <1>2, <1>3, <1>4, <1>5, <1>6, NextIs

(* Nothing that was issued is lost while the process lives.                *)
LEMMA StaysIssued ==
  ASSUME NewsTypes,
         \/ \E i \in Items : Delivers(i) \/ TaskMoves(i)
         \/ StoreWrites
         \/ Advances
         \/ UNCHANGED vars
  PROVE  table \cup Range(writes) \subseteq (table \cup Range(writes))'
<1>1. ASSUME NEW i \in Items, Delivers(i)
      PROVE  table \cup Range(writes) \subseteq (table \cup Range(writes))'
  BY <1>1 DEF Delivers
<1>2. ASSUME NEW i \in Items, TaskMoves(i)
      PROVE  table \cup Range(writes) \subseteq (table \cup Range(writes))'
  BY <1>2 DEF TaskMoves
<1>3. CASE StoreWrites
  BY <1>3, StoreMoves
<1>4. CASE Advances \/ UNCHANGED vars
  BY <1>4 DEF Advances, vars, process
<1> QED BY <1>1, <1>2, <1>3, <1>4

LEMMA RecordedStep ==
  ASSUME NewsTypes, Recorded, [Next]_vars
  PROVE  Recorded'
<1> USE DEF Issued
<1>1. ASSUME NEW i \in Items, Delivers(i)
      PROVE  Recorded'
  <2>1. table \cup Range(writes) \subseteq (table \cup Range(writes))'
    BY <1>1, StaysIssued
  <2>2. Issued("news", i)'
    BY <1>1 DEF Delivers
  <2>3. /\ \A j \in Items \ {i} : stage'[j] = stage[j] /\ starts'[j] = starts[j]
        /\ \/ stage'[i] = stage[i] /\ starts'[i] = starts[i]
           \/ stage'[i] = "queued"
    BY <1>1 DEF Delivers, NewsTypes
  <2> QED BY <2>1, <2>2, <2>3 DEF Recorded, Solo
<1>2. ASSUME NEW i \in Items, TaskMoves(i)
      PROVE  Recorded'
  <2>1. table \cup Range(writes) \subseteq (table \cup Range(writes))'
    BY <1>2, StaysIssued
  <2>2. /\ \A j \in Items \ {i} : stage'[j] = stage[j]
        /\ stage[i] \in InTask /\ stage'[i] \in InTask \cup {"done"}
        /\ starts' = starts
    BY <1>2 DEF TaskMoves, NewsTypes
  <2>3. \/ stage[i] \in Solo => stage'[i] \in Solo
        \/ stage[i] \notin Solo
        \/ Issued("analysis", i)'
    BY <1>2 DEF TaskMoves
  <2> QED
    BY <2>1, <2>2, <2>3 DEF Recorded, InTask, Analysis, Trade
<1>3. CASE StoreWrites \/ Advances \/ UNCHANGED vars
  <2>1. table \cup Range(writes) \subseteq (table \cup Range(writes))'
    BY <1>3, StaysIssued
  <2>2. UNCHANGED <<stage, starts>>
    BY <1>3, StoreMoves DEF Advances, vars, process
  <2> QED BY <2>1, <2>2 DEF Recorded
<1>4. CASE Emptied
  BY <1>4 DEF Emptied, Recorded, Solo
<1> QED BY <1>1, <1>2, <1>3, <1>4, NextIs

LEMMA InitDrain == Init => DrainInv
BY RangeEmpty DEF Init, DrainInv, NewsTypes, Phases, Stages, Draining, Recorded, Active, InTask,
   Analysis, Trade, Solo

LEMMA StepDrain == DrainInv /\ [Next]_vars => DrainInv'
BY TypesStep, DrainingStep, RecordedStep DEF DrainInv

LEMMA DrainInvSafe == DrainInv => DrainCatchesAll
<1> SUFFICES ASSUME DrainInv, phase = "closed"
             PROVE  /\ Active = {}
                    /\ writes = <<>>
                    /\ \A i \in Items : starts[i] > 0 =>
                         {Write("news", i), Write("analysis", i)} \subseteq table
  BY DEF DrainCatchesAll
<1>1. Active = {} /\ writes = <<>>
  BY DEF DrainInv, Draining
<1>2. ASSUME NEW i \in Items, starts[i] > 0
      PROVE  Issued("news", i) /\ Issued("analysis", i)
  <2>1. stage[i] # "none" /\ stage[i] \notin InTask
    BY <1>1, <1>2 DEF DrainInv, Recorded, Active
  <2>2. stage[i] \notin Solo
    BY <2>1 DEF Solo, InTask, Analysis
  <2> QED BY <2>1, <2>2 DEF DrainInv, Recorded
<1>3. table \cup Range(writes) = table
  BY <1>1, RangeEmpty
<1> QED BY <1>1, <1>2, <1>3 DEF Issued

(* DrainCatchesAll: whenever the process closes its store, no processing   *)
(* task is left, every write issued is done, and each headline that got a  *)
(* task has itself and its analysis on record (Pipeline.drain, "Ordered so *)
(* each later group catches tasks spawned by the earlier one").            *)
THEOREM DrainLosesNothing == Spec => []DrainCatchesAll
<1>1. Init => DrainInv
  BY InitDrain
<1>2. DrainInv /\ [Next]_vars => DrainInv'
  BY StepDrain
<1>3. DrainInv => DrainCatchesAll
  BY DrainInvSafe
<1> QED BY <1>1, <1>2, <1>3, PTL DEF Spec
-----------------------------------------------------------------------------
(* Whatever got a task, or a position, is in the dedup memory...           *)
Remembered ==
  phase # "down" =>
    \A i \in Items : i \notin Range(seen) =>
      stage[i] = "none" /\ ~Issued("position", i)

(* ... and a restart finds it there, for it is on record before its        *)
(* position is.                                                            *)
NewsFirst ==
  \A i \in Items :
    /\ Write("position", i) \in table => Write("news", i) \in table
    /\ \A n \in 1 .. Len(writes) : writes[n] = Write("position", i) =>
         Write("news", i) \in table \/ \E m \in 1 .. n - 1 : writes[m] = Write("news", i)

OnceInv == DrainInv /\ IsInjective(seen) /\ Remembered /\ NewsFirst

(* The dedup memory holds as many ids as there are headlines.              *)
Roomy == Cardinality(Items) <= Memory

LEMMA ItemsFinite == IsFiniteSet(Items) /\ Cardinality(Items) \in Nat /\ Memory \in Nat
BY NewsAssumption, FS_CardinalityType

LEMMA RoomForOne ==
  ASSUME Roomy, NEW s \in Seq(Items), IsInjective(s), NEW i \in Items \ Range(s)
  PROVE  Len(s) < Memory
<1>1. Len(s) \in Nat /\ DOMAIN s = 1 .. Len(s) /\ s \in [1 .. Len(s) -> Items]
  BY LenProperties
<1>2. \A k \in 1 .. Len(s) : s[k] \in Items \ {i}
  BY <1>1 DEF Range
<1>3. s \in Injection(1 .. Len(s), Items \ {i})
  BY <1>1, <1>2 DEF Injection, IsInjective
<1>4. IsFiniteSet(Items \ {i}) /\ Cardinality(Items \ {i}) = Cardinality(Items) - 1
  BY ItemsFinite, FS_RemoveElement
<1>5. Cardinality(1 .. Len(s)) <= Cardinality(Items \ {i})
  BY <1>3, <1>4, FS_Injection
<1>6. Cardinality(1 .. Len(s)) = Len(s)
  BY <1>1, FS_Interval
<1> QED BY <1>1, <1>4, <1>5, <1>6, ItemsFinite DEF Roomy

LEMMA AppendDistinct ==
  ASSUME NEW s \in Seq(Items), IsInjective(s), NEW i \in Items \ Range(s)
  PROVE  IsInjective(Append(s, i))
<1>1. /\ Len(s) \in Nat /\ DOMAIN s = 1 .. Len(s)
      /\ Append(s, i) \in Seq(Items)
      /\ Len(Append(s, i)) = Len(s) + 1
      /\ \A k \in 1 .. Len(s) : Append(s, i)[k] = s[k]
      /\ Append(s, i)[Len(s) + 1] = i
  BY LenProperties, AppendProperties
<1>2. DOMAIN Append(s, i) = 1 .. Len(s) + 1
  BY <1>1, LenProperties
<1>3. \A k \in 1 .. Len(s) : s[k] # i
  BY <1>1 DEF Range
<1>4. \A a, b \in 1 .. Len(s) : s[a] = s[b] => a = b
  BY <1>1 DEF IsInjective
<1>5. ASSUME NEW a \in 1 .. Len(s) + 1, NEW b \in 1 .. Len(s) + 1,
             Append(s, i)[a] = Append(s, i)[b]
      PROVE  a = b
  <2>1. CASE a \in 1 .. Len(s) /\ b \in 1 .. Len(s)
    BY <1>1, <1>4, <1>5, <2>1
  <2>2. CASE a = Len(s) + 1 /\ b \in 1 .. Len(s)
    BY <1>1, <1>3, <1>5, <2>2
  <2>3. CASE a \in 1 .. Len(s) /\ b = Len(s) + 1
    BY <1>1, <1>3, <1>5, <2>3
  <2> QED BY <1>1, <2>1, <2>2, <2>3
<1> QED BY <1>2, <1>5 DEF IsInjective

(* What the next process starts with: every headline on record, once.      *)
LEMMA RestoredAll ==
  ASSUME Roomy, NEW ids \in Restored
  PROVE  /\ IsInjective(ids)
         /\ \A i \in Items : Write("news", i) \in table => i \in Range(ids)
<1> DEFINE N == Newest
           n == Cardinality(N)
           onRecord == {i \in Items : Write("news", i) \in table}
<1>1. /\ ids \in [1 .. n -> N]
      /\ \A a, b \in 1 .. n : a < b => ids[a] < ids[b]
  BY DEF Restored, InOrder
<1>2. N \subseteq Items /\ IsFiniteSet(N) /\ n \in Nat
  BY ItemsFinite, FS_Subset, FS_CardinalityType DEF Newest
<1>3. \A a, b \in 1 .. n : ids[a] = ids[b] => a = b
  <2>1. \A x \in N : x \in Nat
    BY <1>2, NewsAssumption
  <2>2. \A a \in 1 .. n : a \in Int /\ ids[a] \in Nat
    BY <1>1, <1>2, <2>1
  <2>3. \A a, b \in 1 .. n : ids[a] = ids[b] => ~(a < b) /\ ~(b < a)
    BY <1>1, <2>2
  <2> QED BY <2>2, <2>3
<1>4. ids \in Injection(1 .. n, N)
  BY <1>1, <1>3 DEF Injection, IsInjective
<1>5. IsInjective(ids)
  BY <1>4 DEF Injection
<1>6. Cardinality(1 .. n) = n
  BY <1>2, FS_Interval
<1>7. ids \in Surjection(1 .. n, N)
  BY <1>2, <1>4, <1>6, FS_Injection
<1>8. \A x \in N : x \in Range(ids)
  BY <1>1, <1>7 DEF Surjection, Range
<1>9. onRecord \subseteq N
  <2> SUFFICES ASSUME NEW i \in onRecord
               PROVE  Cardinality({j \in onRecord : j > i}) < Memory
    BY DEF Newest
  <2>1. i \in Nat
    BY NewsAssumption
  <2>2. {j \in onRecord : j > i} \subseteq Items \ {i}
    BY <2>1
  <2>3. IsFiniteSet(Items \ {i}) /\ Cardinality(Items \ {i}) = Cardinality(Items) - 1
    BY ItemsFinite, FS_RemoveElement
  <2>4. Cardinality({j \in onRecord : j > i}) <= Cardinality(Items \ {i})
    BY <2>2, <2>3, FS_Subset
  <2>5. IsFiniteSet({j \in onRecord : j > i})
    BY <2>2, <2>3, FS_Subset
  <2>6. Cardinality({j \in onRecord : j > i}) \in Nat
    BY <2>5, FS_CardinalityType
  <2> QED BY <2>3, <2>4, <2>6, ItemsFinite DEF Roomy
<1> QED BY <1>5, <1>8, <1>9

(* The memory keeps what it has and gains what is delivered.               *)
LEMMA SeenGrows ==
  ASSUME Roomy, NewsTypes, IsInjective(seen), NEW i \in Items \ Range(seen),
         seen' = Remember(seen, i)
  PROVE  IsInjective(seen)' /\ Range(seen)' = Range(seen) \cup {i}
<1>1. seen' = Append(seen, i)
  BY RoomForOne, RememberIs DEF NewsTypes
<1> QED
  BY <1>1, AppendDistinct, RangeAppend DEF NewsTypes

LEMMA DeliveryRemembers ==
  ASSUME Roomy, NewsTypes, IsInjective(seen), NEW i \in Items, Delivers(i)
  PROVE  /\ IsInjective(seen)'
         /\ Range(seen)' = Range(seen) \cup {i}
         /\ \A j \in Items \ {i} : stage'[j] = stage[j] /\ starts'[j] = starts[j]
<1>1. CASE i \in Range(seen) /\ UNCHANGED <<seen, stage, starts>>
  BY <1>1
<1>2. CASE i \notin Range(seen) /\ seen' = Remember(seen, i) /\ UNCHANGED <<stage, starts>>
  BY <1>2, SeenGrows
<1>3. CASE /\ i \notin Range(seen)
           /\ seen' = Remember(seen, i)
           /\ stage' = [stage EXCEPT ![i] = "queued"]
           /\ starts' = [starts EXCEPT ![i] = @ + 1]
  BY <1>3, SeenGrows DEF NewsTypes
<1> QED BY <1>1, <1>2, <1>3 DEF Delivers

LEMMA RememberedStep ==
  ASSUME Roomy, OnceInv, [Next]_vars
  PROVE  IsInjective(seen)' /\ Remembered'
<1> NewsTypes
  BY DEF OnceInv, DrainInv
<1> USE DEF Issued
<1>1. ASSUME NEW i \in Items, Delivers(i)
      PROVE  IsInjective(seen)' /\ Remembered'
  <2>1. \A j \in Items : Write("position", j) # Write("news", i)
    BY SameWrite
  <2>2. phase # "down" /\ table' = table /\ Range(writes') = Range(writes) \cup {Write("news", i)}
    BY <1>1 DEF Delivers
  <2> QED BY <1>1, <2>1, <2>2, DeliveryRemembers DEF OnceInv, Remembered
<1>2. ASSUME NEW i \in Items, TaskMoves(i)
      PROVE  IsInjective(seen)' /\ Remembered'
  <2>1. /\ UNCHANGED <<phase, seen, table>>
        /\ \A j \in Items \ {i} : stage'[j] = stage[j]
        /\ stage[i] # "none"
    BY <1>2 DEF TaskMoves, NewsTypes, InTask, Analysis, Trade
  <2>2. \E kind \in {"analysis", "decision", "position"} :
          Range(writes') \subseteq Range(writes) \cup {Write(kind, i)}
    BY <1>2 DEF TaskMoves
  <2>3. \A j \in Items \ {i} : \A kind : Write("position", j) # Write(kind, i)
    BY SameWrite
  <2>4. \A j \in Items \ {i} : Issued("position", j)' => Issued("position", j)
    BY <2>1, <2>2, <2>3
  <2>5. phase # "down" => i \in Range(seen)
    BY <2>1 DEF OnceInv, Remembered
  <2> QED BY <2>1, <2>4, <2>5 DEF OnceInv, Remembered
<1>3. CASE StoreWrites
  <2>1. (table \cup Range(writes))' = table \cup Range(writes)
    BY <1>3, StoreMoves
  <2> QED BY <1>3, <2>1, StoreMoves DEF OnceInv, Remembered
<1>4. CASE Advances
  BY <1>4 DEF Advances, OnceInv, Remembered
<1>5. CASE Emptied
  <2>1. CASE phase' = "down"
    BY <1>5, <2>1 DEF Emptied, Remembered, IsInjective
  <2>2. CASE phase' = "running"
    <3>1. IsInjective(seen)' /\ \A i \in Items : Write("news", i) \in table => i \in Range(seen')
      BY <1>5, <2>2, RestoredAll DEF Emptied
    <3>2. ASSUME NEW i \in Items, i \notin Range(seen')
          PROVE  stage'[i] = "none" /\ ~Issued("position", i)'
      <4>1. Write("position", i) \notin table
        BY <3>1, <3>2 DEF OnceInv, NewsFirst
      <4> QED BY <1>5, <4>1, RangeEmpty DEF Emptied
    <3> QED BY <3>1, <3>2 DEF Remembered
  <2> QED BY <1>5, <2>1, <2>2 DEF Emptied
<1>6. CASE UNCHANGED vars
  BY <1>6 DEF vars, process, OnceInv, Remembered
<1> QED BY <1>1, <1>2, <1>3, <1>4, <1>5, <1>6, NextIs

(* A write joins the queue behind the headline it is about.                *)
LEMMA JoinsBehind ==
  ASSUME NewsTypes, NewsFirst, NEW i \in Items, Issued("news", i), NEW w \in Writes,
         w.item = i, writes' = Append(writes, w), table' = table
  PROVE  NewsFirst'
<1>1. /\ Len(writes) \in Nat /\ Len(writes') = Len(writes) + 1
      /\ \A k \in 1 .. Len(writes) : writes'[k] = writes[k]
      /\ writes'[Len(writes) + 1] = w
  BY LenProperties, AppendProperties DEF NewsTypes
<1> SUFFICES ASSUME NEW j \in Items, NEW n \in 1 .. Len(writes'),
                    writes'[n] = Write("position", j)
             PROVE  \/ Write("news", j) \in table
                    \/ \E m \in 1 .. n - 1 : writes'[m] = Write("news", j)
  BY DEF NewsFirst
<1>2. CASE n \in 1 .. Len(writes)
  <2>1. writes[n] = Write("position", j)
    BY <1>1, <1>2
  <2>2. \A m \in 1 .. n - 1 : m \in 1 .. Len(writes)
    BY <1>1, <1>2
  <2> QED BY <1>1, <1>2, <2>1, <2>2 DEF NewsFirst
<1>3. CASE n = Len(writes) + 1
  <2>1. j = i
    <3>1. Write("position", j).item = j
      BY DEF Write
    <3> QED BY <1>1, <1>3, <3>1
  <2>2. CASE Write("news", i) \in Range(writes)
    <3>1. PICK m \in 1 .. Len(writes) : writes[m] = Write("news", i)
      BY <2>2, RangeEquality DEF NewsTypes
    <3>2. m \in 1 .. n - 1 /\ writes'[m] = Write("news", i)
      BY <1>1, <1>3, <3>1
    <3> QED BY <2>1, <3>2
  <2> QED BY <2>1, <2>2 DEF Issued
<1> QED BY <1>1, <1>2, <1>3

LEMMA NewsFirstStep ==
  ASSUME OnceInv, [Next]_vars
  PROVE  NewsFirst'
<1> NewsTypes /\ NewsFirst
  BY DEF OnceInv, DrainInv
<1>1. ASSUME NEW i \in Items, Delivers(i)
      PROVE  NewsFirst'
  <2>1. /\ Len(writes) \in Nat /\ Len(writes') = Len(writes) + 1
        /\ \A k \in 1 .. Len(writes) : writes'[k] = writes[k]
        /\ writes'[Len(writes) + 1] = Write("news", i)
        /\ table' = table
    BY <1>1, WriteIs, LenProperties, AppendProperties DEF NewsTypes, Delivers
  <2> SUFFICES ASSUME NEW j \in Items, NEW n \in 1 .. Len(writes'),
                      writes'[n] = Write("position", j)
               PROVE  \/ Write("news", j) \in table
                      \/ \E m \in 1 .. n - 1 : writes'[m] = Write("news", j)
    BY <2>1 DEF NewsFirst
  <2>2. n # Len(writes) + 1
    BY <2>1, SameWrite
  <2>3. n \in 1 .. Len(writes) /\ writes[n] = Write("position", j)
    BY <2>1, <2>2
  <2>4. \A m \in 1 .. n - 1 : m \in 1 .. Len(writes)
    BY <2>1, <2>3
  <2> QED BY <2>1, <2>3, <2>4 DEF NewsFirst
<1>2. ASSUME NEW i \in Items, TaskMoves(i)
      PROVE  NewsFirst'
  <2>1. table' = table /\ stage[i] # "none"
    BY <1>2 DEF TaskMoves, InTask, Analysis, Trade
  <2>2. CASE writes' = writes
    BY <2>1, <2>2 DEF NewsFirst
  <2>3. ASSUME NEW kind \in {"analysis", "decision", "position"},
               writes' = Append(writes, Write(kind, i))
        PROVE  NewsFirst'
    <3>1. Issued("news", i)
      BY <2>1 DEF OnceInv, DrainInv, Recorded
    <3>2. Write(kind, i) \in Writes /\ Write(kind, i).item = i
      BY WriteIs
    <3> QED BY <2>1, <2>3, <3>1, <3>2, JoinsBehind
  <2> QED BY <1>2, <2>2, <2>3 DEF TaskMoves
<1>3. CASE StoreWrites
  <2>1. /\ Len(writes) \in Nat \ {0} /\ Len(writes') = Len(writes) - 1
        /\ \A k \in 1 .. Len(writes') : writes'[k] = writes[k + 1]
        /\ table' = table \cup {writes[1]}
    <3>1. writes # <<>> /\ writes' = Tail(writes) /\ table' = table \cup {Head(writes)}
      BY <1>3, StoreMoves
    <3>2. Len(writes) \in Nat \ {0} /\ Head(writes) = writes[1]
      BY <3>1, EmptySeq DEF NewsTypes
    <3>3. /\ Len(Tail(writes)) = Len(writes) - 1
          /\ \A k \in 1 .. Len(Tail(writes)) : Tail(writes)[k] = writes[k + 1]
      BY <3>1, HeadTailProperties DEF NewsTypes
    <3> QED BY <3>1, <3>2, <3>3
  <2>2. ASSUME NEW j \in Items, Write("position", j) \in table'
        PROVE  Write("news", j) \in table'
    <3>1. CASE Write("position", j) = writes[1]
      <4>1. 1 \in 1 .. Len(writes) /\ 1 .. 1 - 1 = {}
        BY <2>1
      <4> QED BY <2>1, <3>1, <4>1 DEF NewsFirst
    <3> QED BY <2>1, <2>2, <3>1 DEF NewsFirst
  <2>3. ASSUME NEW j \in Items, NEW n \in 1 .. Len(writes'),
               writes'[n] = Write("position", j)
        PROVE  \/ Write("news", j) \in table'
               \/ \E m \in 1 .. n - 1 : writes'[m] = Write("news", j)
    <3>1. n + 1 \in 1 .. Len(writes) /\ writes[n + 1] = Write("position", j)
      BY <2>1, <2>3
    <3>2. CASE Write("news", j) \in table
      BY <2>1, <3>2
    <3>3. ASSUME NEW m \in 1 .. n + 1 - 1, writes[m] = Write("news", j)
          PROVE  \/ Write("news", j) \in table'
                 \/ \E q \in 1 .. n - 1 : writes'[q] = Write("news", j)
      <4>1. CASE m = 1
        BY <2>1, <3>3, <4>1
      <4>2. CASE m # 1
        <5>1. m - 1 \in 1 .. n - 1 /\ m - 1 \in 1 .. Len(writes') /\ m - 1 + 1 = m
          BY <2>1, <3>1, <4>2
        <5>2. writes'[m - 1] = Write("news", j)
          BY <2>1, <3>3, <5>1
        <5> QED BY <5>1, <5>2
      <4> QED BY <4>1, <4>2
    <3> QED BY <3>1, <3>2, <3>3 DEF NewsFirst
  <2> QED BY <2>2, <2>3 DEF NewsFirst
<1>4. CASE Advances
  BY <1>4 DEF Advances, NewsFirst
<1>5. CASE Emptied
  <2>1. 1 .. Len(<<>>) = {}
    BY EmptySeq
  <2> QED BY <1>5, <2>1 DEF Emptied, NewsFirst
<1>6. CASE UNCHANGED vars
  BY <1>6 DEF vars, process, NewsFirst
<1> QED BY <1>1, <1>2, <1>3, <1>4, <1>5, <1>6, NextIs

LEMMA InitOnce == Init => OnceInv
<1> SUFFICES ASSUME Init PROVE OnceInv
  OBVIOUS
<1>1. DrainInv
  BY InitDrain
<1>2. 1 .. Len(<<>>) = {}
  BY EmptySeq
<1>3. seen = <<>> /\ writes = <<>> /\ table = {} /\ stage = [i \in Items |-> "none"]
  BY DEF Init
<1> QED BY <1>1, <1>2, <1>3, RangeEmpty DEF OnceInv, IsInjective, Remembered, Issued, NewsFirst

(* Only a headline the memory does not hold gets a task.                   *)
LEMMA StepTradesOnce ==
  ASSUME OnceInv, [Next]_vars, NEW i \in Items, starts'[i] > starts[i]
  PROVE  Write("position", i) \notin table
<1> NewsTypes
  BY DEF OnceInv, DrainInv
<1>0. starts[i] \in Nat
  BY DEF NewsTypes
<1>1. ASSUME NEW j \in Items, Delivers(j)
      PROVE  Write("position", i) \notin table
  <2>1. i = j /\ i \notin Range(seen) /\ phase # "down"
    BY <1>0, <1>1 DEF Delivers, NewsTypes
  <2> QED BY <2>1 DEF OnceInv, Remembered, Issued
<1>2. ASSUME NEW j \in Items, TaskMoves(j)
      PROVE  FALSE
  BY <1>0, <1>2 DEF TaskMoves
<1>3. CASE StoreWrites \/ Advances \/ UNCHANGED vars
  BY <1>0, <1>3, StoreMoves DEF Advances, vars, process
<1>4. CASE Emptied
  BY <1>0, <1>4 DEF Emptied
<1> QED BY <1>1, <1>2, <1>3, <1>4, NextIs

LEMMA OnceStep ==
  ASSUME Roomy, OnceInv, [Next]_vars
  PROVE  OnceInv'
<1>1. DrainInv'
  BY StepDrain DEF OnceInv
<1>2. IsInjective(seen)' /\ Remembered'
  BY RememberedStep
<1>3. NewsFirst'
  BY NewsFirstStep
<1> QED BY <1>1, <1>2, <1>3 DEF OnceInv

(* EnteredOnce: while the dedup memory has room for every headline, one    *)
(* that led to a position on record gets no task again, whatever is        *)
(* delivered twice and however often the process dies and is started again *)
(* (Dedup, and the restart that seeds it from the news table).             *)
THEOREM TradedOnce == Roomy => (Spec => EnteredOnce)
<1> SUFFICES ASSUME Roomy PROVE Spec => EnteredOnce
  OBVIOUS
<1>1. Init => OnceInv
  BY InitOnce
<1>2. OnceInv /\ [Next]_vars => OnceInv'
  BY OnceStep
<1>3. OnceInv /\ [Next]_vars =>
        [\A i \in Items : starts'[i] > starts[i] => Write("position", i) \notin table]_vars
  BY StepTradesOnce
<1> QED BY <1>1, <1>2, <1>3, PTL DEF Spec, EnteredOnce
-----------------------------------------------------------------------------
(***************************************************************************)
(* Bursts.  The buffer is in the order of publication, and whoever is in   *)
(* it has had its verdict: so nobody is ever analyzed with itself.         *)
(***************************************************************************)
Rising(s)   == s \in Seq(Items) /\ \A a, b \in 1 .. Len(s) : a < b => s[a] < s[b]
Before(s, i) == \A a \in 1 .. Len(s) : s[a] < i

InBuffer ==
  /\ Rising(buffer)
  /\ \A a \in 1 .. Len(buffer) : stage[buffer[a]] \notin Solo

PriorOrdered ==
  /\ DOMAIN prior = Items
  /\ \A i \in Items : Rising(prior[i]) /\ Before(prior[i], i)

BurstInv == OnceInv /\ InBuffer /\ PriorOrdered

LEMMA NothingRises == Rising(<<>>) /\ Len(<<>>) = 0 /\ \A i : Before(<<>>, i)
<1>1. <<>> \in Seq(Items) /\ Len(<<>>) = 0
  BY EmptySeq
<1> QED BY <1>1 DEF Rising, Before

(* A stretch of the buffer, in its order.                                  *)
LEMMA PiecesRise ==
  ASSUME Rising(buffer), NEW fit \in SUBSET (DOMAIN buffer), NEW s \in Pieces(fit)
  PROVE  Rising(s) /\ \A a \in 1 .. Len(s) : \E k \in fit : s[a] = buffer[k]
<1>1. /\ Len(buffer) \in Nat /\ DOMAIN buffer = 1 .. Len(buffer)
      /\ \A k \in 1 .. Len(buffer) : buffer[k] \in Items
  BY LenProperties, ElementOfSeq DEF Rising
<1>2. Cardinality(fit) \in Nat
  <2>1. IsFiniteSet(1 .. Len(buffer))
    BY <1>1, FS_Interval
  <2> QED BY <1>1, <2>1, FS_Subset, FS_CardinalityType
<1>3. PICK at \in [1 .. Cardinality(fit) -> fit] :
        /\ \A a, b \in DOMAIN at : a < b => at[a] < at[b]
        /\ s = [k \in DOMAIN at |-> buffer[at[k]]]
  BY DEF Pieces, InOrder
<1>4. /\ s \in [1 .. Cardinality(fit) -> Items]
      /\ \A k \in 1 .. Cardinality(fit) : s[k] = buffer[at[k]]
  BY <1>1, <1>3
<1>5. s \in Seq(Items) /\ Len(s) = Cardinality(fit)
  <2>1. s \in Seq(Items)
    BY <1>2, <1>4, SeqDef
  <2>2. DOMAIN s = 1 .. Len(s) /\ Len(s) \in Nat /\ DOMAIN s = 1 .. Cardinality(fit)
    BY <1>4, <2>1, LenProperties
  <2> QED BY <1>2, <2>1, <2>2
<1>6. ASSUME NEW a \in 1 .. Len(s), NEW b \in 1 .. Len(s), a < b
      PROVE  s[a] < s[b]
  <2>1. at[a] \in 1 .. Len(buffer) /\ at[b] \in 1 .. Len(buffer) /\ at[a] < at[b]
    BY <1>1, <1>3, <1>5, <1>6
  <2> QED BY <1>4, <1>5, <1>6, <2>1 DEF Rising
<1>7. \A a \in 1 .. Len(s) : at[a] \in fit /\ s[a] = buffer[at[a]]
  BY <1>3, <1>4, <1>5
<1> QED BY <1>5, <1>6, <1>7 DEF Rising

LEMMA AppendRises ==
  ASSUME NEW s, Rising(s), NEW i \in Items, Before(s, i)
  PROVE  /\ Rising(Append(s, i)) /\ Len(Append(s, i)) = Len(s) + 1 /\ Len(s) \in Nat
         /\ \A a \in 1 .. Len(s) : Append(s, i)[a] = s[a]
         /\ Append(s, i)[Len(s) + 1] = i
<1>1. /\ Append(s, i) \in Seq(Items)
      /\ Len(Append(s, i)) = Len(s) + 1 /\ Len(s) \in Nat
      /\ \A a \in 1 .. Len(s) : Append(s, i)[a] = s[a]
      /\ Append(s, i)[Len(s) + 1] = i
  BY AppendProperties, LenProperties DEF Rising
<1>2. ASSUME NEW a \in 1 .. Len(s) + 1, NEW b \in 1 .. Len(s) + 1, a < b
      PROVE  Append(s, i)[a] < Append(s, i)[b]
  <2>1. a \in 1 .. Len(s) /\ (b \in 1 .. Len(s) \/ b = Len(s) + 1)
    BY <1>1, <1>2
  <2> QED BY <1>1, <1>2, <2>1 DEF Rising, Before
<1> QED BY <1>1, <1>2 DEF Rising

(* BurstBuffer.add keeps the order, and adds nobody but i.                 *)
LEMMA AddRises ==
  ASSUME NEW s, Rising(s), NEW i \in Items, Before(s, i)
  PROVE  /\ Rising(AddPiece(s, i))
         /\ \A a \in 1 .. Len(AddPiece(s, i)) :
              AddPiece(s, i)[a] = i \/ \E b \in 1 .. Len(s) : AddPiece(s, i)[a] = s[b]
<1> DEFINE t == Append(s, i)
           m == Len(t) - MaxPieces + 1
<1>1. /\ Rising(t) /\ Len(t) \in Nat /\ MaxPieces \in Nat \ {0} /\ Len(s) \in Nat
      /\ \A a \in 1 .. Len(t) : t[a] = i \/ \E b \in 1 .. Len(s) : t[a] = s[b]
  <2>1. Rising(t) /\ Len(t) = Len(s) + 1 /\ Len(s) \in Nat
        /\ (\A a \in 1 .. Len(s) : t[a] = s[a]) /\ t[Len(s) + 1] = i
    BY AppendRises
  <2> HIDE DEF t
  <2>2. MaxPieces \in Nat \ {0}
    BY NewsAssumption
  <2>3. ASSUME NEW a \in 1 .. Len(t)
        PROVE  t[a] = i \/ \E b \in 1 .. Len(s) : t[a] = s[b]
    <3>1. a \in 1 .. Len(s) \/ a = Len(s) + 1
      BY <2>1, <2>3
    <3> QED BY <2>1, <3>1
  <2> QED BY <2>1, <2>2, <2>3
<1> HIDE DEF t
<1>2. CASE Len(t) > MaxPieces
  <2>1. AddPiece(s, i) = SubSeq(t, m, Len(t))
    BY <1>2 DEF AddPiece, LastN, t
  <2>2. m \in 1 .. Len(t) /\ m \in Int /\ Len(t) \in Int
    BY <1>1, <1>2
  <2> HIDE DEF m
  <2>0. \A k \in m .. Len(t) : t[k] \in Items
    BY <1>1, <2>2, ElementOfSeq DEF Rising
  <2>3. /\ SubSeq(t, m, Len(t)) \in Seq(Items)
        /\ Len(SubSeq(t, m, Len(t))) = Len(t) - m + 1
        /\ \A k \in 1 .. Len(t) - m + 1 : SubSeq(t, m, Len(t))[k] = t[m + k - 1]
    BY <2>0, <2>2, SubSeqProperties
  <2>4. \A k \in 1 .. Len(t) - m + 1 : m + k - 1 \in 1 .. Len(t)
    BY <1>1, <2>2
  <2>5. PICK u : u = SubSeq(t, m, Len(t))
    OBVIOUS
  <2>6. /\ u \in Seq(Items)
        /\ \A k \in 1 .. Len(u) : u[k] = t[m + k - 1] /\ m + k - 1 \in 1 .. Len(t)
        /\ m \in Nat /\ Len(u) \in Nat
    BY <1>1, <2>2, <2>3, <2>4, <2>5
  <2>7. Rising(u)
    <3>1. ASSUME NEW a \in 1 .. Len(u), NEW b \in 1 .. Len(u), a < b PROVE u[a] < u[b]
      <4>1. u[a] = t[m + a - 1] /\ u[b] = t[m + b - 1]
            /\ m + a - 1 \in 1 .. Len(t) /\ m + b - 1 \in 1 .. Len(t) /\ m + a - 1 < m + b - 1
        BY <2>6, <3>1
      <4> QED BY <1>1, <4>1 DEF Rising
    <3> QED BY <2>6, <3>1 DEF Rising
  <2> QED BY <1>1, <2>1, <2>5, <2>6, <2>7
<1>3. CASE ~(Len(t) > MaxPieces)
  BY <1>1, <1>3 DEF AddPiece, t
<1> QED BY <1>2, <1>3

(* A step of a task that is not one in a burst leaves the buffer alone,    *)
(* and never takes a verdict back.                                         *)
LEMMA TaskKeepsBuffer ==
  ASSUME NewsTypes, PriorOrdered, NEW i \in Items, TaskStep(i), ~BurstVerdict(i)
  PROVE  /\ buffer' = buffer
         /\ \A j \in Items : stage[j] \notin Solo => stage'[j] \notin Solo
         /\ prior' = prior \/ prior' = [prior EXCEPT ![i] = <<>>]
<1> USE DEF Solo, NewsTypes
<1>1. CASE BeginAnalysis(i)
  BY <1>1 DEF BeginAnalysis
<1>2. CASE SoloVerdict(i)
  BY <1>2 DEF SoloVerdict
<1>3. CASE CombinedVerdict(i)
  BY <1>3 DEF CombinedVerdict
<1>4. CASE TakeLock(i)
  BY <1>4 DEF TakeLock
<1>5. CASE ExitContrary(i)
  BY <1>5 DEF ExitContrary
<1>6. CASE Decide(i)
  BY <1>6 DEF Decide
<1>7. CASE OrderFails(i)
  BY <1>7 DEF OrderFails
<1>8. CASE OrderFills(i)
  BY <1>8 DEF OrderFills
<1>9. CASE Track(i)
  BY <1>9 DEF Track
<1> QED BY <1>1, <1>2, <1>3, <1>4, <1>5, <1>6, <1>7, <1>8, <1>9 DEF TaskStep

(* The buffer and the bursts after a step that adds nobody to them.        *)
LEMMA BufferStays ==
  ASSUME InBuffer, PriorOrdered, buffer' = buffer, prior' = prior,
         \A j \in Items : stage[j] \notin Solo => stage'[j] \notin Solo
  PROVE  InBuffer' /\ PriorOrdered'
<1>1. \A a \in 1 .. Len(buffer) : buffer[a] \in Items
  BY ElementOfSeq DEF InBuffer, Rising
<1> QED BY <1>1 DEF InBuffer, PriorOrdered, Rising

LEMMA BurstOrders ==
  ASSUME NewsTypes, InBuffer, PriorOrdered, NEW i \in Items, BurstVerdict(i)
  PROVE  InBuffer' /\ PriorOrdered'
<1>1. PICK kept \in Kept(i) :
        /\ buffer' \in {AddPiece(kept, i), kept}
        /\ prior' = [prior EXCEPT ![i] = kept]
        /\ stage' = [stage EXCEPT ![i] = IF kept = <<>> THEN "ready" ELSE "requeued"]
  BY DEF BurstVerdict
<1>2. stage[i] = "analyzing" /\ stage \in [Items -> Stages] /\ DOMAIN prior = Items
  BY DEF BurstVerdict, NewsTypes, PriorOrdered
<1>3. \A j \in Items : j = i \/ stage[j] \notin Solo => stage'[j] \notin Solo
  BY <1>1, <1>2 DEF Solo
<1>4. Rising(buffer) /\ \A k \in DOMAIN buffer : k \in 1 .. Len(buffer) /\ buffer[k] \in Items
  BY LenProperties, ElementOfSeq DEF InBuffer, Rising
<1>5. PICK fit \in SUBSET (DOMAIN buffer) :
        kept \in Pieces(fit) /\ \A k \in fit : buffer[k] <= i
  BY <1>1 DEF Kept
<1>6. Rising(kept) /\ \A a \in 1 .. Len(kept) : \E k \in fit : kept[a] = buffer[k]
  BY <1>4, <1>5, PiecesRise
<1>7. \A k \in fit : buffer[k] < i /\ stage[buffer[k]] \notin Solo /\ buffer[k] \in Items
  <2>1. ASSUME NEW k \in fit
        PROVE  buffer[k] < i /\ stage[buffer[k]] \notin Solo /\ buffer[k] \in Items
    <3>1. buffer[k] \in Items /\ stage[buffer[k]] \notin Solo /\ buffer[k] <= i
      BY <1>4, <1>5 DEF InBuffer
    <3>2. buffer[k] # i
      BY <1>2, <3>1 DEF Solo
    <3>3. buffer[k] \in Nat /\ i \in Nat
      BY <3>1, NewsAssumption
    <3> QED BY <3>1, <3>2, <3>3
  <2> QED BY <2>1
<1>8. Before(kept, i) /\ \A a \in 1 .. Len(kept) : stage'[kept[a]] \notin Solo
  BY <1>3, <1>6, <1>7 DEF Before
<1>9. PriorOrdered'
  BY <1>1, <1>2, <1>6, <1>8 DEF PriorOrdered
<1>10. InBuffer'
  <2>1. CASE buffer' = kept
    BY <1>6, <1>8, <2>1 DEF InBuffer
  <2>2. CASE buffer' = AddPiece(kept, i)
    <3>1. PICK t : t = AddPiece(kept, i)
      OBVIOUS
    <3>2. Rising(t) /\ \A a \in 1 .. Len(t) : t[a] = i \/ \E b \in 1 .. Len(kept) : t[a] = kept[b]
      BY <1>6, <1>8, <3>1, AddRises
    <3>3. \A a \in 1 .. Len(t) : stage'[t[a]] \notin Solo
      BY <1>3, <1>8, <3>2
    <3> QED BY <2>2, <3>1, <3>2, <3>3 DEF InBuffer
  <2> QED BY <1>1, <2>1, <2>2
<1> QED BY <1>9, <1>10

LEMMA BurstStep ==
  ASSUME BurstInv, [Next]_vars
  PROVE  InBuffer' /\ PriorOrdered'
<1>1. NewsTypes /\ Remembered /\ InBuffer /\ PriorOrdered
  BY DEF BurstInv, OnceInv, DrainInv
<1>2. ASSUME NEW i \in Items, Ingest(i)
      PROVE  InBuffer' /\ PriorOrdered'
  <2>1. buffer' = buffer /\ prior' = prior /\ phase = "running"
    BY <1>2 DEF Ingest, Deliver, SkipDuplicate, SkipFiltered, StartProcess
  <2>2. \/ stage' = stage
        \/ i \notin Range(seen) /\ stage' = [stage EXCEPT ![i] = "queued"]
    BY <1>2 DEF Ingest, SkipDuplicate, SkipFiltered, StartProcess
  <2>3. i \notin Range(seen) => stage[i] = "none"
    BY <1>1, <2>1 DEF Remembered
  <2>4. \A j \in Items : stage[j] \notin Solo => stage'[j] \notin Solo
    BY <1>1, <2>2, <2>3 DEF Solo, NewsTypes
  <2> QED BY <1>1, <2>1, <2>4, BufferStays
<1>3. ASSUME NEW i \in Items, TaskStep(i), ~BurstVerdict(i)
      PROVE  InBuffer' /\ PriorOrdered'
  <2>1. /\ buffer' = buffer
        /\ \A j \in Items : stage[j] \notin Solo => stage'[j] \notin Solo
        /\ prior' = prior \/ prior' = [prior EXCEPT ![i] = <<>>]
    BY <1>1, <1>3, TaskKeepsBuffer
  <2>2. InBuffer'
    <3>1. \A a \in 1 .. Len(buffer) : buffer[a] \in Items
      BY <1>1, ElementOfSeq DEF InBuffer, Rising
    <3> QED BY <1>1, <2>1, <3>1 DEF InBuffer
  <2>3. PriorOrdered'
    BY <1>1, <2>1, NothingRises DEF PriorOrdered
  <2> QED BY <2>2, <2>3
<1>4. ASSUME NEW i \in Items, BurstVerdict(i)
      PROVE  InBuffer' /\ PriorOrdered'
  BY <1>1, <1>4, BurstOrders
<1>5. CASE StoreWrites \/ Stop \/ Drained \/ UNCHANGED vars
  <2>1. UNCHANGED <<buffer, prior, stage>>
    BY <1>5 DEF StoreWrites, Stop, Drained, vars, process
  <2> QED BY <1>1, <2>1, BufferStays
<1>6. CASE Crash \/ Boot
  <2>1. buffer' = <<>> /\ prior' = [i \in Items |-> <<>>]
    BY <1>6 DEF Crash, Boot, EmptyMemory
  <2>2. InBuffer'
    BY <2>1, NothingRises DEF InBuffer
  <2>3. PriorOrdered'
    BY <2>1, NothingRises DEF PriorOrdered
  <2> QED BY <2>2, <2>3
<1> QED BY <1>2, <1>3, <1>4, <1>5, <1>6 DEF Next

(* BURST CHRONOLOGICAL: while the dedup memory has room for every headline,*)
(* what is analyzed as one burst is in the order of publication, each      *)
(* headline once, however feeds and analyses reorder it, and for any       *)
(* window, number of pieces and restarts (burst.py:43-64).                 *)
THEOREM BurstOrdered == Roomy => (Spec => []BurstChronological)
<1> SUFFICES ASSUME Roomy PROVE Spec => []BurstChronological
  OBVIOUS
<1>1. Init => BurstInv
  <2> SUFFICES ASSUME Init PROVE BurstInv
    OBVIOUS
  <2>1. buffer = <<>> /\ prior = [i \in Items |-> <<>>]
    BY DEF Init
  <2> QED BY <2>1, InitOnce, NothingRises DEF BurstInv, InBuffer, PriorOrdered
<1>2. BurstInv /\ [Next]_vars => BurstInv'
  <2> SUFFICES ASSUME BurstInv, [Next]_vars PROVE BurstInv'
    OBVIOUS
  <2>1. OnceInv'
    BY OnceStep DEF BurstInv
  <2> QED BY <2>1, BurstStep DEF BurstInv
<1>3. BurstInv => BurstChronological
  <2> SUFFICES ASSUME BurstInv, NEW i \in Items
               PROVE  LET burst == Append(prior[i], i)
                      IN  \A a, b \in DOMAIN burst : a < b => burst[a] < burst[b]
    BY DEF BurstChronological
  <2>1. Rising(prior[i]) /\ Before(prior[i], i)
    BY DEF BurstInv, PriorOrdered
  <2>2. Rising(Append(prior[i], i))
    BY <2>1, AppendRises
  <2>3. DOMAIN Append(prior[i], i) = 1 .. Len(Append(prior[i], i))
    BY <2>2, LenProperties DEF Rising
  <2> QED BY <2>2, <2>3 DEF Rising
<1> QED BY <1>1, <1>2, <1>3, PTL DEF Spec
-----------------------------------------------------------------------------
(***************************************************************************)
(* The Telegram feed, one of the sources of the headlines.                 *)
(*                                                                         *)
(* No gap but those the handler leaves, for every number of messages,      *)
(* every limit of a fetch and every number of failures.  NoGap needs to    *)
(* know that a batch joins what was seen when it was asked for, and that   *)
(* no fetch is under way while the seed is (Fetching, Seeding).            *)
(***************************************************************************)

Seeding ==
  /\ poll.pc \in {"resolving", "seeding", "seeded"} => ~resolved
  /\ ~resolved => floor = 0
  /\ poll.pc = "seeded" => poll.last <= posted

Fetching ==
  /\ poll.pc \in {"fetching", "fetched"} => poll.last <= seenMax
  /\ poll.pc = "fetched" => \E hi \in 0 .. posted : poll.batch = poll.last + 1 .. hi

FeedInv == FeedTypeOK /\ Seeding /\ Fetching /\ NoGap
-----------------------------------------------------------------------------
LEMMA MaxIs ==
  ASSUME NEW S \in SUBSET Nat, NEW x \in S, \A y \in S : y <= x
  PROVE  Max(S) = x
<1>1. \A z \in S : (\A y \in S : z >= y) => z = x
  OBVIOUS
<1> QED
  BY <1>1 DEF Max

(* What the handler and a batch make of seen.                              *)
LEMMA SeenByHandler ==
  ASSUME FeedTypeOK, NEW m \in handling, NEW top \in Nat
  PROVE  /\ m \in Blank => Max({top} \cup ({m} \ Blank)) = top
         /\ m \notin Blank =>
              Max({top} \cup ({m} \ Blank)) = IF top <= m THEN m ELSE top
<1>1. m \in Nat
  BY FeedAssumption DEF FeedTypeOK
<1>2. CASE m \in Blank
  <2>1. {top} \cup ({m} \ Blank) = {top}
    BY <1>2
  <2>2. Max({top}) = top
    BY <1>1, MaxIs
  <2> QED BY <1>2, <2>1, <2>2
<1>3. CASE m \notin Blank
  <2>1. {top} \cup ({m} \ Blank) = {top, m}
    BY <1>3
  <2>2. CASE top <= m
    BY <1>1, <1>3, <2>1, <2>2, MaxIs
  <2>3. CASE m <= top
    BY <1>1, <1>3, <2>1, <2>3, MaxIs
  <2> QED BY <1>1, <2>2, <2>3
<1> QED BY <1>2, <1>3

LEMMA SeenByBatch ==
  ASSUME FeedTypeOK, NEW hi \in 0 .. posted,
         poll.batch = poll.last + 1 .. hi, poll.last <= seenMax
  PROVE  Max({seenMax} \cup poll.batch) = IF seenMax <= hi THEN hi ELSE seenMax
<1>1. seenMax \in Nat /\ hi \in Nat /\ poll.last \in Nat
  BY FeedAssumption DEF FeedTypeOK, PollStates, Msgs
<1>2. {seenMax} \cup poll.batch \in SUBSET Nat
  BY <1>1
<1>3. CASE poll.batch = {}
  BY <1>1, <1>2, <1>3, MaxIs
<1>4. CASE hi <= seenMax
  BY <1>1, <1>2, <1>4, MaxIs
<1>5. CASE seenMax <= hi /\ poll.batch # {}
  <2>1. hi \in {seenMax} \cup poll.batch
    BY <1>1, <1>5
  <2>2. \A y \in {seenMax} \cup poll.batch : y <= hi
    BY <1>1, <1>5
  <2> QED BY <1>2, <1>5, <2>1, <2>2, MaxIs
<1> QED BY <1>1, <1>3, <1>4, <1>5

LEMMA PollMoves ==
  /\ \A pc \in {"sleep", "resolving", "seeding", "seeded", "fetching", "fetched",
                "reconnecting", "authorizing"}, then \in {"sleep", "poll"},
        last \in Msgs \cup {0}, batch \in SUBSET Msgs :
       At(pc, then, last, batch) \in PollStates
  /\ Asleep \in PollStates
  /\ \A max \in Msgs \cup {0} : AfterSeed(max) \in PollStates
  /\ seenMax \in Msgs \cup {0} => Turn \in PollStates
BY DEF At, PollStates, Asleep, AfterSeed, Turn
(* The poll loop never leaves its states, nor seen what has been posted.   *)
LEMMA Typing ==
  FeedTypeOK /\ Fetching /\ Seeding /\ [FeedNext]_feedVars =>
    FeedTypeOK'
<1> SUFFICES ASSUME FeedTypeOK, Fetching, Seeding, [FeedNext]_feedVars
    PROVE FeedTypeOK'
  OBVIOUS
<1> USE FeedAssumption DEF FeedTypeOK, Msgs, feed
<1>0. /\ posted \in Nat /\ seenMax \in Nat /\ floor \in Nat /\ handled \in Nat
      /\ seenMax \in Msgs \cup {0} /\ posted \in Msgs \cup {0}
  OBVIOUS
<1>1. CASE Post
  BY <1>1 DEF Post
<1>2. CASE LinkDrops
  <2>1. faults' \in 0 .. MaxFaults
    BY <1>2 DEF LinkDrops, Fault
  <2> QED BY <1>2, <2>1, Zenon DEF LinkDrops
<1>3. CASE TransportReconnects
  BY <1>3 DEF TransportReconnects, Reconnected
<1>4. ASSUME NEW m \in Msgs, HandlerIngest(m) PROVE FeedTypeOK'
  <2>1. seenMax' \in 0 .. posted /\ handled' \in 0 .. posted
    BY <1>0, <1>4, SeenByHandler DEF HandlerIngest
  <2> QED BY <1>4, <2>1 DEF HandlerIngest
<1>5. ASSUME NEW m \in Msgs, HandlerRaises(m) PROVE FeedTypeOK'
  <2>1. faults' \in 0 .. MaxFaults /\ handling' \subseteq handling
    BY <1>5 DEF HandlerRaises, Fault
  <2>2. deaf' \in BOOLEAN
    BY <1>5, Zenon DEF HandlerRaises
  <2> QED BY <1>5, <2>1, <2>2, Zenon DEF HandlerRaises
<1>6. CASE Wake
  BY <1>0, <1>6, PollMoves DEF Wake
<1>7. CASE ResolveFails
  BY <1>7, PollMoves DEF ResolveFails, RequestFails, Fault
<1>8. CASE Resolve
  BY <1>8 DEF Resolve, PollStates
<1>9. CASE SeedAnswer
  BY <1>9 DEF SeedAnswer, PollStates
<1>10. CASE SeedFails
  BY <1>0, <1>10, PollMoves DEF SeedFails, RequestFails, Fault
<1>11. CASE Seed
  <2>1. poll.last \in 0 .. posted
    BY <1>11 DEF Seed, Seeding, PollStates
  <2>2. seenMax' \in 0 .. posted /\ seenMax' \in Msgs \cup {0}
    BY <1>0, <1>11, <2>1 DEF Seed
  <2>3. poll' \in PollStates
    BY <1>11, <2>2, PollMoves DEF Seed
  <2> QED BY <1>11, <2>1, <2>2, <2>3 DEF Seed
<1>12. CASE FetchAnswer
  <2>1. Batch(poll.last) \in SUBSET Msgs
    BY <1>0 DEF Batch, PollStates
  <2> QED BY <1>12, <2>1 DEF FetchAnswer, PollStates
<1>13. CASE IngestBatch
  <2>1. PICK hi \in 0 .. posted : poll.batch = poll.last + 1 .. hi
    BY <1>13 DEF IngestBatch, Fetching
  <2>2. seenMax' \in 0 .. posted
    BY <1>0, <1>13, <2>1, SeenByBatch DEF IngestBatch, Fetching
  <2>3. poll.batch \subseteq 1 .. posted
    BY <1>0, <2>1 DEF PollStates
  <2> QED BY <1>13, <2>2, <2>3, PollMoves DEF IngestBatch
<1>14. CASE FetchStalls
  <2>1. faults' \in 0 .. MaxFaults
    BY <1>14 DEF FetchStalls, RequestFails, Fault
  <2>2. poll' \in PollStates
    BY <1>14, PollMoves DEF FetchStalls
  <2> QED BY <1>14, <2>1, <2>2, Zenon DEF FetchStalls
<1>15. CASE FetchErrors
  BY <1>15, PollMoves DEF FetchErrors, Fault
<1>16. CASE Connect
  BY <1>16 DEF Connect, Reconnected, PollStates
<1>17. CASE Authorized
  BY <1>0, <1>17, PollMoves DEF Authorized
<1>18. CASE ConnectFails
  BY <1>18 DEF ConnectFails, RequestFails, Fault, PollStates
<1>19. CASE UNCHANGED feedVars
  BY <1>19 DEF feedVars, feed
<1> QED
  BY <1>1, <1>2, <1>3, <1>4, <1>5, <1>6, <1>7, <1>8, <1>9, <1>10, <1>11, <1>12, <1>13, <1>14,
     <1>15, <1>16, <1>17, <1>18, <1>19 DEF FeedNext, HandlerStep, PollStep
-----------------------------------------------------------------------------
(* What the handler brings opens a gap only below it.                      *)
LEMMA IngestKeeps ==
  ASSUME FeedInv, NEW m \in Msgs, HandlerIngest(m)
  PROVE  NoGap' /\ seenMax' >= seenMax
<1>1. /\ m \in handling /\ ingested' = ingested \cup ({m} \ Blank) /\ floor' = floor
      /\ floor \in Nat /\ seenMax \in Nat /\ handled \in Nat /\ m \in Nat
  BY FeedAssumption DEF HandlerIngest, FeedInv, FeedTypeOK, Msgs
<1>2. /\ seenMax' = IF m \in Blank THEN seenMax ELSE IF seenMax <= m THEN m ELSE seenMax
      /\ handled' = IF m \in Blank THEN handled ELSE IF handled <= m THEN m ELSE handled
  BY <1>1, SeenByHandler DEF HandlerIngest, FeedInv
<1>3. NoGap'
  <2> SUFFICES ASSUME NEW k \in (floor + 1 .. seenMax') \ Blank
               PROVE  k \in ingested' \/ k < handled'
    BY <1>1 DEF NoGap
  <2>1. CASE k <= seenMax
    <3>1. k \in ingested \/ k < handled
      BY <1>1, <1>2, <2>1 DEF FeedInv, NoGap
    <3> QED BY <1>1, <1>2, <3>1
  <2>2. CASE seenMax < k
    BY <1>1, <1>2, <2>2
  <2> QED BY <1>1, <1>2, <2>1, <2>2
<1> QED BY <1>1, <1>2, <1>3

(* The seed forgets what came before it, and nothing else.                 *)
LEMMA SeedKeeps == FeedInv /\ Seed => NoGap'
<1> SUFFICES ASSUME FeedInv, Seed
    PROVE NoGap'
  OBVIOUS
<1>1. /\ floor = 0 /\ floor' = poll.last /\ poll.last \in Nat /\ seenMax \in Nat
      /\ seenMax' = (IF poll.last = 0 THEN seenMax ELSE poll.last)
      /\ UNCHANGED <<ingested, handled>>
  BY FeedAssumption DEF Seed, FeedInv, FeedTypeOK, Seeding, PollStates, Msgs
<1> QED BY <1>1 DEF FeedInv, NoGap

(* A batch begins right after what was seen when it was asked for.         *)
LEMMA DeliverKeeps == FeedInv /\ IngestBatch => NoGap'
<1> SUFFICES ASSUME FeedInv, IngestBatch
    PROVE NoGap'
  OBVIOUS
<1>1. /\ ingested' = ingested \cup (poll.batch \ Blank)
      /\ UNCHANGED <<floor, handled>>
      /\ floor \in Nat /\ seenMax \in Nat /\ posted \in Nat /\ poll.last \in Nat
      /\ poll.last <= seenMax
  BY FeedAssumption DEF IngestBatch, FeedInv, FeedTypeOK, Fetching, PollStates, Msgs
<1>2. PICK hi \in 0 .. posted : poll.batch = poll.last + 1 .. hi
  BY DEF IngestBatch, FeedInv, Fetching
<1>3. seenMax' = IF seenMax <= hi THEN hi ELSE seenMax
  BY <1>1, <1>2, SeenByBatch DEF IngestBatch, FeedInv
<1>4. SUFFICES ASSUME NEW k \in (floor + 1 .. seenMax') \ Blank
               PROVE  k \in ingested' \/ k < handled
  BY <1>1 DEF NoGap
<1>5. CASE k <= seenMax
  BY <1>1, <1>5 DEF FeedInv, NoGap
<1>6. CASE seenMax < k
  <2>1. k \in poll.batch
    BY <1>1, <1>2, <1>3, <1>6
  <2> QED BY <1>1, <2>1
<1> QED BY <1>1, <1>2, <1>3, <1>5, <1>6
-----------------------------------------------------------------------------
(* Where the poll loop goes, and what it knows there.                      *)
LEMMA PollTargets ==
  /\ \A pc, then, last, batch :
       /\ At(pc, then, last, batch).pc = pc
       /\ At(pc, then, last, batch).last = last
  /\ Asleep.pc = "sleep"
  /\ Turn.pc = "fetching" => Turn.last = seenMax
  /\ Turn.pc = "resolving" => ~resolved
  /\ Turn.pc \in {"fetching", "resolving"}
  /\ \A max : AfterSeed(max).pc \in {"fetching", "sleep"}
  /\ \A max : AfterSeed(max).pc = "fetching" => AfterSeed(max).last = max
BY DEF At, Asleep, Turn, AfterSeed

(* While the handler, or the channel, moves the poll loop stands still.    *)
LEMMA PollWaits ==
  ASSUME FeedInv, UNCHANGED <<poll, resolved, floor>>,
         seenMax' \in Nat, seenMax' >= seenMax,
         posted' \in Nat, posted' >= posted
  PROVE  Seeding' /\ Fetching'
<1>1. /\ posted \in Nat /\ seenMax \in Nat /\ seenMax' >= seenMax /\ poll.last \in Nat
  BY FeedAssumption DEF FeedInv, FeedTypeOK, PollStates, Msgs
<1>2. Seeding'
  <2>1. poll.pc = "seeded" => poll.last <= posted'
    BY <1>1 DEF FeedInv, Seeding
  <2> QED BY <2>1 DEF FeedInv, Seeding
<1> QED
  <2>1. ASSUME NEW hi \in 0 .. posted PROVE hi \in 0 .. posted'
    BY <1>1
  <2>2. poll.pc \in {"fetching", "fetched"} => poll.last <= seenMax'
    BY <1>1 DEF FeedInv, Fetching
  <2> QED BY <1>2, <2>1, <2>2 DEF FeedInv, Fetching
LEMMA PollGoesOn ==
  ASSUME FeedInv, PollStep
  PROVE  Seeding' /\ Fetching'
<1> USE FeedAssumption, PollTargets DEF FeedInv, Seeding, Fetching
<1>0. poll \in PollStates /\ seenMax \in Nat /\ posted \in Nat
  BY DEF FeedTypeOK, Msgs
<1>1. CASE Wake
  <2>1. poll' = Turn \/ poll'.pc = "reconnecting"
    BY <1>1 DEF Wake, At
  <2> QED BY <1>0, <1>1, <2>1 DEF Wake, feed
<1>2. CASE ResolveFails
  BY <1>2 DEF ResolveFails, feed
<1>3. CASE Resolve
  <2>1. poll'.pc = "seeding" /\ UNCHANGED <<resolved, floor>> /\ ~resolved
    BY <1>0, <1>3 DEF Resolve, PollStates
  <2> QED BY <2>1
<1>4. CASE SeedAnswer
  <2>1. /\ poll'.pc = "seeded" /\ poll'.last = posted /\ ~resolved
        /\ UNCHANGED <<resolved, floor, posted>>
    BY <1>0, <1>4 DEF SeedAnswer, PollStates, feed
  <2> QED BY <1>0, <2>1
<1>5. CASE SeedFails
  <2>1. resolved' /\ poll' = AfterSeed(seenMax) /\ seenMax' = seenMax
    BY <1>5 DEF SeedFails
  <2> QED BY <1>0, <2>1
<1>6. CASE Seed
  <2>1. resolved' /\ poll' = AfterSeed(seenMax')
    BY <1>6 DEF Seed
  <2>2. seenMax' \in Nat
    BY <1>0, <1>6 DEF Seed, PollStates, Msgs
  <2> QED BY <2>1, <2>2
<1>7. CASE FetchAnswer
  <2>1. /\ poll'.pc = "fetched" /\ poll'.last = poll.last
        /\ poll'.batch = Batch(poll.last) /\ poll.last <= seenMax
        /\ UNCHANGED <<resolved, floor, posted, seenMax>>
    BY <1>0, <1>7 DEF FetchAnswer, PollStates, feed
  <2>2. poll.last \in Nat
    BY <1>0 DEF PollStates, Msgs
  <2>3. \E hi \in 0 .. posted : Batch(poll.last) = poll.last + 1 .. hi
    <3>1. CASE posted <= poll.last + PollLimit
      <4>1. Batch(poll.last) = poll.last + 1 .. posted
        BY <1>0, <2>2, <3>1 DEF Batch
      <4> QED BY <1>0, <4>1
    <3>2. CASE poll.last + PollLimit <= posted
      <4>1. Batch(poll.last) = poll.last + 1 .. poll.last + PollLimit
        BY <1>0, <2>2, <3>2 DEF Batch
      <4>2. poll.last + PollLimit \in 0 .. posted
        BY <1>0, <2>2, <3>2
      <4> QED BY <4>1, <4>2
    <3> QED BY <1>0, <2>2, <3>1, <3>2
  <2> QED BY <2>1, <2>3
<1>8. CASE IngestBatch
  BY <1>8 DEF IngestBatch
<1>9. CASE FetchStalls
  BY <1>9 DEF FetchStalls, At
<1>10. CASE FetchErrors
  BY <1>10 DEF FetchErrors
<1>11. CASE Connect
  <2>1. poll'.pc = "authorizing" /\ UNCHANGED <<resolved, floor>>
    BY <1>0, <1>11 DEF Connect, PollStates
  <2> QED BY <2>1
<1>12. CASE Authorized
  <2>1. poll' = Turn \/ poll'.pc = "sleep"
    BY <1>12 DEF Authorized
  <2> QED BY <1>0, <1>12, <2>1 DEF Authorized, feed
<1>13. CASE ConnectFails
  <2>1. poll'.pc = "reconnecting" /\ UNCHANGED <<resolved, floor>>
    BY <1>0, <1>13 DEF ConnectFails, PollStates
  <2> QED BY <2>1
<1> QED
  BY <1>1, <1>2, <1>3, <1>4, <1>5, <1>6, <1>7, <1>8, <1>9, <1>10, <1>11, <1>12, <1>13
  DEF PollStep

LEMMA FeedInitial == FeedInit => FeedInv
<1> SUFFICES ASSUME FeedInit
    PROVE FeedInv
  OBVIOUS
<1>1. FeedTypeOK
  <2>1. poll \in PollStates
    BY PollMoves DEF FeedInit
  <2>2. 0 \in 0 .. MaxFaults /\ 0 \in 0 .. 0 /\ 0 \in Msgs \cup {0}
    BY FeedAssumption
  <2> QED BY <2>1, <2>2, Zenon DEF FeedInit, FeedTypeOK
<1>2. NoGap
  BY DEF FeedInit, NoGap
<1>3. Seeding /\ Fetching
  BY DEF FeedInit, At, Seeding, Fetching
<1> QED BY <1>1, <1>2, <1>3 DEF FeedInv

LEMMA FeedKeeps ==
  FeedInv /\ [FeedNext]_feedVars => FeedInv'
<1> SUFFICES ASSUME FeedInv, [FeedNext]_feedVars
    PROVE FeedInv'
  OBVIOUS
<1>1. FeedTypeOK'
  BY Typing DEF FeedInv
<1>2. seenMax \in Nat /\ posted \in Nat /\ seenMax' \in Nat /\ posted' \in Nat
  BY <1>1, FeedAssumption DEF FeedInv, FeedTypeOK, Msgs
<1>3. ASSUME UNCHANGED <<floor, seenMax, ingested, handled>> PROVE NoGap'
  BY <1>3 DEF FeedInv, NoGap
<1>4. CASE Post \/ LinkDrops \/ TransportReconnects \/ UNCHANGED feedVars
  <2>1. UNCHANGED <<poll, resolved, floor, seenMax, ingested, handled>>
    BY <1>4 DEF Post, LinkDrops, TransportReconnects, feedVars, feed
  <2>2. posted' = posted \/ posted' = posted + 1
    BY <1>4 DEF Post, LinkDrops, TransportReconnects, feedVars, feed
  <2>3. Seeding' /\ Fetching'
    BY <1>2, <2>1, <2>2, PollWaits
  <2> QED BY <1>1, <1>3, <2>1, <2>3 DEF FeedInv
<1>5. ASSUME NEW m \in Msgs, HandlerStep(m) PROVE FeedInv'
  <2>1. CASE HandlerIngest(m)
    <3>1. NoGap' /\ seenMax' >= seenMax
      BY <2>1, IngestKeeps
    <3>2. Seeding' /\ Fetching'
      BY <1>2, <2>1, <3>1, PollWaits DEF HandlerIngest
    <3> QED BY <1>1, <3>1, <3>2 DEF FeedInv
  <2>2. CASE HandlerRaises(m)
    <3>2. Seeding' /\ Fetching'
      BY <1>2, <2>2, PollWaits DEF HandlerRaises
    <3> QED BY <1>1, <1>3, <2>2, <3>2 DEF FeedInv, HandlerRaises
  <2> QED BY <1>5, <2>1, <2>2 DEF HandlerStep
<1>6. CASE PollStep
  <2>1. Seeding' /\ Fetching'
    BY <1>6, PollGoesOn
  <2>2. CASE Seed
    BY <1>1, <2>1, <2>2, SeedKeeps DEF FeedInv
  <2>3. CASE IngestBatch
    BY <1>1, <2>1, <2>3, DeliverKeeps DEF FeedInv
  <2>4. ASSUME ~Seed, ~IngestBatch PROVE NoGap'
    <3>1. UNCHANGED <<floor, seenMax, ingested, handled>>
      BY <1>6, <2>4 DEF PollStep, Wake, ResolveFails, Resolve,
           SeedAnswer, SeedFails, FetchAnswer, FetchStalls, FetchErrors,
           Connect, Authorized, ConnectFails
    <3> QED BY <1>3, <3>1
  <2> QED BY <1>1, <2>1, <2>2, <2>3, <2>4 DEF FeedInv
<1> QED
  BY <1>4, <1>5, <1>6 DEF FeedNext
-----------------------------------------------------------------------------
(* No message after the seed and below the highest id seen is lost, but    *)
(* below one the handler brought itself, for any number of messages, any   *)
(* limit of a fetch, any failures of the link, the requests and the        *)
(* handler, and whenever the handler falls silent and fires again          *)
(* (telegram_source.py, _poll_channel and _resolve_channel).               *)
THEOREM NothingSkipped == FeedSpec => []NoGap
<1>1. FeedInit => FeedInv
  BY FeedInitial
<1>2. FeedInv /\ [FeedNext]_feedVars => FeedInv'
  BY FeedKeeps
<1>3. FeedInv => NoGap
  BY DEF FeedInv
<1> QED
  BY <1>1, <1>2, <1>3, PTL DEF FeedSpec
=============================================================================
