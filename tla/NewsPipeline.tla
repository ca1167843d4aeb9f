---------------------------- MODULE NewsPipeline ----------------------------
(***************************************************************************)
(* From a headline to a decision: on_news, dedup.py, the processing task   *)
(* of each headline (pipeline.py) with its burst buffer (burst.py), the    *)
(* audit writes behind it, the drain on shutdown, and a crash and restart. *)
(*                                                                         *)
(* publish never suspends, so on_news runs to its end in one step, and so  *)
(* does everything between two awaits of a processing task.  A headline is *)
(* named by its time of publication; those modelled are about one ticker,  *)
(* or, for all the analyzer says, about none.                              *)
(***************************************************************************)
EXTENDS Naturals, FiniteSets, Sequences, SequencesExt

CONSTANTS
  Items,          \* headlines, named by their times
  Window,         \* burst_window_seconds; 0 is off
  MaxPieces,      \* burst.MAX_PIECES
  Concurrency,    \* analysis_concurrency
  MaxPending,     \* pipeline.MAX_PENDING
  Memory,         \* Dedup.memory
  MaxDeliveries,  \* bound: how often the feeds deliver a headline, in all
  MaxBoots        \* bound: how often the process is started again

ASSUME NewsAssumption ==
  /\ Items \subseteq Nat /\ IsFiniteSet(Items)
  /\ {Window, MaxDeliveries, MaxBoots} \subseteq Nat
  /\ {MaxPieces, Concurrency, MaxPending, Memory} \subseteq Nat \ {0}

VARIABLES
  phase,       \* "running", the group drain() is at, "closed" or "down"
  delivered,   \* how often a headline has been delivered
  seen,        \* Dedup._order, whose elements are Dedup._seen_ids
  stage,       \* where the processing task of each headline is
  starts,      \* processing tasks created for each headline in this process
  buffer,      \* BurstBuffer._by_ticker of the ticker
  prior,       \* the pieces a headline is analyzed together with
  writes,      \* writes issued to the store and not done, in order
  table,       \* what the store holds
  waiting,     \* the tasks and writes drain() took a snapshot of
  boots        \* how often the process has been started again

process == <<seen, stage, starts, buffer, prior, writes, waiting>>
vars    == <<phase, delivered, process, table, boots>>

(* Stages of _process: its own awaits, then those of the shielded _trade.  *)
Analysis == {"queued", "analyzing", "requeued", "combining"}
Trade    == {"ready", "trading", "placing", "persisting"}
InTask   == Analysis \cup Trade

Active == {i \in Items : stage[i] \in InTask}

Write(kind, i) == [kind |-> kind, item |-> i]
Persist(kind, i) == writes' = Append(writes, Write(kind, i))

(* The one sequence of the numbers of a finite set, from the lowest.       *)
InOrder(S) ==
  {s \in [1 .. Cardinality(S) -> S] : \A a, b \in DOMAIN s : a < b => s[a] < s[b]}

Init ==
  /\ phase = "running"
  /\ delivered = 0
  /\ seen = <<>>
  /\ stage = [i \in Items |-> "none"]
  /\ starts = [i \in Items |-> 0]
  /\ buffer = <<>>
  /\ prior = [i \in Items |-> <<>>]
  /\ writes = <<>>
  /\ table = {}
  /\ waiting = {}
  /\ boots = 0
-----------------------------------------------------------------------------
(***************************************************************************)
(* Ingestion: Pipeline.on_news and Dedup.                                  *)
(***************************************************************************)
LastN(s, n) == SubSeq(s, Len(s) - n + 1, Len(s))

(* Dedup._remember, evicting the oldest ids beyond the memory.             *)
Remember(s, i) ==
  LET t == Append(s, i)
  IN  IF Len(t) > Memory THEN LastN(t, Memory) ELSE t

Deliver(i) ==
  /\ phase = "running"
  /\ delivered < MaxDeliveries
  /\ delivered' = delivered + 1
  /\ Persist("news", i)

(* A duplicate id is skipped.                                              *)
SkipDuplicate(i) ==
  /\ Deliver(i)
  /\ i \in Range(seen)
  /\ UNCHANGED <<phase, seen, stage, starts, buffer, prior, table,
                 waiting, boots>>

(* Remembered, then filtered out (a retweet, stale, a blacklisted source), *)
(* or dropped because MAX_PENDING tasks are in flight.                     *)
SkipFiltered(i) ==
  /\ Deliver(i)
  /\ i \notin Range(seen)
  /\ seen' = Remember(seen, i)
  /\ UNCHANGED <<phase, stage, starts, buffer, prior, table, waiting,
                 boots>>

StartProcess(i) ==
  /\ Deliver(i)
  /\ i \notin Range(seen)
  /\ Cardinality(Active) < MaxPending
  /\ seen' = Remember(seen, i)
  /\ stage' = [stage EXCEPT ![i] = "queued"]
  /\ starts' = [starts EXCEPT ![i] = @ + 1]
  /\ UNCHANGED <<phase, buffer, prior, table, waiting, boots>>
-----------------------------------------------------------------------------
(***************************************************************************)
(* Processing: Pipeline._process.                                          *)
(***************************************************************************)
AnalyzingNested == {i \in Items : stage[i] \in {"analyzing", "requeued", "combining"}} \* mutant
Analyzing == {i \in Items : stage[i] \in {"analyzing", "combining"}}

(* The analysis semaphore, taken once for the headline alone and again for *)
(* the combined burst.                                                     *)
BeginAnalysis(i) ==
  /\ phase # "down"
  /\ stage[i] \in {"queued", "requeued"}
  /\ Cardinality(Analyzing) < Concurrency
  /\ stage' = [stage EXCEPT ![i] = IF @ = "queued" THEN "analyzing" ELSE "combining"]
  /\ UNCHANGED <<phase, delivered, seen, starts, buffer, prior, writes,
                 table, waiting, boots>>

(* BurstBuffer.prior: what is outside the window, or newer than this       *)
(* headline, is not only left out but forgotten.  Its one element is what  *)
(* is left of the buffer, in its order.                                    *)
Pieces(fit)  == {[k \in DOMAIN at |-> buffer[at[k]]] : at \in InOrder(fit)}
KeptNewer(i) == Pieces({k \in DOMAIN buffer : i - buffer[k] <= Window})       \* mutant
Kept(i) == Pieces({k \in DOMAIN buffer : buffer[k] <= i /\ i - buffer[k] <= Window})

(* BurstBuffer.add; a piece without text, or one that repeats the text of  *)
(* a buffered one, adds nothing.                                           *)
AddPiece(s, i) ==
  LET t == Append(s, i)
  IN  IF Len(t) > MaxPieces THEN LastN(t, MaxPieces) ELSE t

(* The verdict arrives.  With bursts on and a ticker resolved, a headline  *)
(* that has earlier pieces goes back for a combined analysis; any other    *)
(* proceeds to its trade section.                                          *)
SoloVerdict(i) ==
  /\ stage[i] = "analyzing"
  /\ Persist("analysis", i)
  /\ stage' = [stage EXCEPT ![i] = "ready"]
  /\ UNCHANGED <<phase, delivered, seen, starts, buffer, prior, table,
                 waiting, boots>>

BurstVerdict(i) ==
  /\ stage[i] = "analyzing"
  /\ Window > 0
  /\ Persist("analysis", i)
  /\ \E kept \in Kept(i) :
       /\ buffer' \in {AddPiece(kept, i), kept}
       /\ prior' = [prior EXCEPT ![i] = kept]
       /\ stage' = [stage EXCEPT ![i] = IF kept = <<>> THEN "ready" ELSE "requeued"]
  /\ UNCHANGED <<phase, delivered, seen, starts, table, waiting, boots>>

CombinedVerdict(i) ==
  /\ stage[i] = "combining"
  /\ Persist("analysis", i)
  /\ stage' = [stage EXCEPT ![i] = "ready"]
  /\ prior' = [prior EXCEPT ![i] = <<>>]
  /\ UNCHANGED <<phase, delivered, seen, starts, buffer, table, waiting,
                 boots>>
-----------------------------------------------------------------------------
(***************************************************************************)
(* Trading: Pipeline._trade, serialized by _trade_lock.  PositionBook has  *)
(* its detail; here it matters what is written, and when the task ends.    *)
(***************************************************************************)
Holders == {i \in Items : stage[i] \in {"trading", "placing", "persisting"}}

TakeLock(i) ==
  /\ stage[i] = "ready"
  /\ Holders = {}
  /\ stage' = [stage EXCEPT ![i] = "trading"]
  /\ UNCHANGED <<phase, delivered, seen, starts, buffer, prior, writes,
                 table, waiting, boots>>

(* A contrary-news exit ends the section without a decision; evaluate's    *)
(* decision is persisted in the background, and an entry goes on.          *)
ExitContrary(i) ==
  /\ stage[i] = "trading"
  /\ stage' = [stage EXCEPT ![i] = "done"]
  /\ UNCHANGED <<phase, delivered, seen, starts, buffer, prior, writes,
                 table, waiting, boots>>

Decide(i) ==
  /\ stage[i] = "trading"
  /\ Persist("decision", i)
  /\ \E next \in {"done", "placing"} : stage' = [stage EXCEPT ![i] = next]
  /\ UNCHANGED <<phase, delivered, seen, starts, buffer, prior, table,
                 waiting, boots>>

(* The order fails, or fills and its position is written...                *)
OrderFails(i) ==
  /\ stage[i] = "placing"
  /\ stage' = [stage EXCEPT ![i] = "done"]
  /\ UNCHANGED <<phase, delivered, seen, starts, buffer, prior, writes,
                 table, waiting, boots>>

OrderFills(i) ==
  /\ stage[i] = "placing"
  /\ Persist("position", i)
  /\ stage' = [stage EXCEPT ![i] = "persisting"]
  /\ UNCHANGED <<phase, delivered, seen, starts, buffer, prior, table,
                 waiting, boots>>

(* ... and tracked once the awaited write is done.                         *)
Track(i) ==
  /\ stage[i] = "persisting"
  /\ Write("position", i) \notin Range(writes)
  /\ stage' = [stage EXCEPT ![i] = "done"]
  /\ UNCHANGED <<phase, delivered, seen, starts, buffer, prior, writes,
                 table, waiting, boots>>
-----------------------------------------------------------------------------
(* The store is one connection, which does the writes in the order issued. *)
StoreWrites ==
  /\ writes # <<>>
  /\ table' = table \cup {Head(writes)}
  /\ writes' = Tail(writes)
  /\ UNCHANGED <<phase, delivered, seen, stage, starts, buffer, prior,
                 waiting, boots>>

(***************************************************************************)
(* Shutdown: the feeds are stopped, drain() waits for one group of tasks   *)
(* after the other, each as it is when its turn comes, and the store is    *)
(* closed.                                                                 *)
(***************************************************************************)
DrainOrderReversed == <<"writes", "trades", "procs">>               \* mutant
DrainOrder == <<"procs", "trades", "writes">>

InFlight(group) ==
  CASE group = "procs"  -> {Write("task", i) : i \in Active}
    [] group = "trades" -> {Write("task", i) : i \in {j \in Items : stage[j] \in Trade}}
    [] group = "writes" -> Range(writes)

Stop ==
  /\ phase = "running"
  /\ phase' = DrainOrder[1]
  /\ waiting' = InFlight(DrainOrder[1])
  /\ UNCHANGED <<delivered, seen, stage, starts, buffer, prior, writes,
                 table, boots>>

Drained ==
  \E k \in 1 .. Len(DrainOrder) :
    /\ phase = DrainOrder[k]
    /\ waiting \cap InFlight(phase) = {}
    /\ IF k = Len(DrainOrder)
       THEN phase' = "closed" /\ waiting' = {}
       ELSE phase' = DrainOrder[k + 1] /\ waiting' = InFlight(DrainOrder[k + 1])
    /\ UNCHANGED <<delivered, seen, stage, starts, buffer, prior, writes,
                   table, boots>>

(* All that is in memory is gone, and what was not written with it.        *)
EmptyMemory ==
  /\ stage' = [i \in Items |-> "none"]
  /\ starts' = [i \in Items |-> 0]
  /\ buffer' = <<>>
  /\ prior' = [i \in Items |-> <<>>]
  /\ writes' = <<>>
  /\ waiting' = {}

Crash ==
  /\ phase \notin {"closed", "down"}
  /\ phase' = "down"
  /\ seen' = <<>>
  /\ EmptyMemory
  /\ UNCHANGED <<delivered, table, boots>>

(* Startup seeds the dedup memory with the newest ids in the news table,   *)
(* the oldest of them first.                                               *)
Newest ==
  LET ids == {i \in Items : Write("news", i) \in table}
  IN  {i \in ids : Cardinality({j \in ids : j > i}) < Memory}

RestoredNone == {<<>>}                                              \* mutant
Restored == InOrder(Newest)

Boot ==
  /\ phase \in {"closed", "down"}
  /\ boots < MaxBoots
  /\ boots' = boots + 1
  /\ phase' = "running"
  /\ seen' \in Restored
  /\ EmptyMemory
  /\ UNCHANGED <<delivered, table>>
-----------------------------------------------------------------------------
Ingest(i) == SkipDuplicate(i) \/ SkipFiltered(i) \/ StartProcess(i)

TaskStep(i) ==
  \/ BeginAnalysis(i)
  \/ SoloVerdict(i)
  \/ BurstVerdict(i)
  \/ CombinedVerdict(i)
  \/ TakeLock(i)
  \/ ExitContrary(i)
  \/ Decide(i)
  \/ OrderFails(i)
  \/ OrderFills(i)
  \/ Track(i)

Next ==
  \/ \E i \in Items : Ingest(i) \/ TaskStep(i)
  \/ StoreWrites
  \/ Stop
  \/ Drained
  \/ Crash
  \/ Boot

Spec == Init /\ [][Next]_vars

(* Fairness: the event loop runs every task, an analysis or an order ends  *)
(* (both have timeouts), and the store works.  Nobody has to publish a     *)
(* headline or to stop the process.                                        *)
FairSpec ==
  /\ Spec
  /\ \A i \in Items : WF_vars(TaskStep(i))
  /\ WF_vars(StoreWrites)
  /\ WF_vars(Drained)

-----------------------------------------------------------------------------
Writes == [kind : {"news", "analysis", "decision", "position"}, item : Items]

TypeOK ==
  /\ phase \in {"running", "closed", "down"} \cup Range(DrainOrder)
  /\ delivered \in 0 .. MaxDeliveries
  /\ seen \in Seq(Items) /\ Len(seen) <= Memory
  /\ stage \in [Items -> InTask \cup {"none", "done"}]
  /\ Cardinality(Active) <= MaxPending
  /\ Cardinality(Analyzing) <= Concurrency
  /\ starts \in [Items -> Nat]
  /\ buffer \in Seq(Items) /\ Len(buffer) <= MaxPieces
  /\ prior \in [Items -> Seq(Items)]
  /\ writes \in Seq(Writes)
  /\ table \subseteq Writes
  /\ waiting \subseteq Writes \cup [kind : {"task"}, item : Items]
  /\ boots \in 0 .. MaxBoots

(* drain(): "Ordered so each later group catches tasks spawned by the      *)
(* earlier one": when the store is closed nothing is in flight, and every  *)
(* headline processed has left its analysis on record.                     *)
DrainCatchesAll ==
  phase = "closed" =>
    /\ Active = {}
    /\ writes = <<>>
    /\ \A i \in Items : starts[i] > 0 =>
         {Write("news", i), Write("analysis", i)} \subseteq table

(* What is analyzed together is in the order in which it was published,    *)
(* however the feeds and the analyses reorder it: burst.py:43-50.          *)
BurstChronological ==
  \A i \in Items : LET burst == Append(prior[i], i)
                   IN  \A a, b \in DOMAIN burst : a < b => burst[a] < burst[b]

(* A headline that led to a position on record never leads to another,     *)
(* across crashes, restarts and deliveries of it at any time.              *)
EnteredOnce ==
  [][\A i \in Items : starts'[i] > starts[i] => Write("position", i) \notin table]_vars

(* Every headline accepted is decided, unless the process dies.            *)
AcceptedIsDecided ==
  \A i \in Items : stage[i] = "queued" ~> stage[i] \in {"done", "none"}
=============================================================================
