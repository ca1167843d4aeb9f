----------------------------- MODULE HistoryCaches -----------------------------
(***************************************************************************)
(* What is kept of the exchange's past, for good: pages of candles in the  *)
(* memory of the arena's server (arena_server.py, candles) and on the disk *)
(* of the backtest (engine.py, fetch_candles), and the backtest's funding  *)
(* rates (FundingHistory).  None of them is ever asked for again, so a     *)
(* page kept before its last bar closed, or a range before its last rate   *)
(* was set, would stay wrong.                                              *)
(*                                                                         *)
(* Bars and funding periods have the same length here.  A page is its end, *)
(* its start following from it.                                            *)
(***************************************************************************)
EXTENDS Requests, FiniteSets, Sequences

CONSTANTS
  Readers,       \* page requests, and simulated trades, at the same time
  Bar,           \* length of a bar, in ticks
  Margin,        \* of fetch_candles: two hours
  Slots,         \* CANDLE_CONCURRENCY
  Capacity,      \* CANDLE_CACHE_MAX
  Retries        \* of fetch_candles and of FundingHistory: six, three

ASSUME HistoryAssumption ==
  /\ {Bar, Slots, Capacity, Retries, Margin} \subseteq Nat \ {0}
  /\ Margin >= Bar + Timeout      \* the longest bar is an hour, a request 15 s

VARIABLES
  read,      \* what each reader does, for which end, since when, which attempt
  proxy,     \* _candle_cache: pages in the order they came
  files,     \* the files of fetch_candles
  covered,   \* FundingHistory: the ranges fetched, by their start and end
  rates      \* and the periods whose rates it has

historyVars == <<read, proxy, files, covered, rates>>

Resting == [pc |-> "rest", end |-> 0, since |-> 0, try |-> 0, keep |-> FALSE]
Page(end, asof) == [end |-> end, asof |-> asof]

HistoryInit ==
  /\ read = [r \in Readers |-> Resting]
  /\ proxy = <<>>
  /\ files = {}
  /\ covered = {}
  /\ rates = {}

(* The bar that holds a time ends before the next one begins.              *)
Closes(end)   == Bar * (1 + end \div Bar)
Events(s, e)  == {t \in s + 1 .. e : t % Bar = 0}
Turn(r, next) == read' = [read EXCEPT ![r] = next]
-----------------------------------------------------------------------------
(***************************************************************************)
(* The proxy.  Whether a page is past is decided when it is asked for; a   *)
(* full cache drops its oldest page.  An answer without bars is not kept.  *)
(***************************************************************************)
PastNow(end) == end < now                                           \* mutant
Past(end) == end < now - Bar

InCache(end) == \E i \in DOMAIN proxy : proxy[i].end = end

(* A page from the cache, or one that no slot is needed for, changes       *)
(* nothing; the others wait for a slot.                                    *)
PageAsked(r, end) ==
  /\ read[r] = Resting
  /\ ~(Past(end) /\ InCache(end))
  /\ Turn(r, [Resting EXCEPT !.pc = "queue", !.end = end, !.keep = Past(end)])
  /\ UNCHANGED <<now, proxy, files, covered, rates, failures>>

PageFetched(r) ==
  /\ read[r].pc = "queue"
  /\ Cardinality({s \in Readers : read[s].pc = "page"}) < Slots
  /\ Turn(r, [read[r] EXCEPT !.pc = "page", !.since = now])
  /\ UNCHANGED <<now, proxy, files, covered, rates, failures>>

(* A second answer for a page takes the place of the first.                *)
Kept(page) ==
  LET room == IF Len(proxy) < Capacity THEN proxy ELSE Tail(proxy)
      at   == {i \in DOMAIN room : room[i].end = page.end}
  IN IF at # {} THEN [room EXCEPT ![CHOOSE i \in at : TRUE] = page]
     ELSE Append(room, page)

PageReply(r) ==
  /\ read[r].pc = "page"
  /\ Turn(r, Resting)
  /\ \/ /\ \E asof \in Answer(read[r].since) :
             proxy' = IF read[r].keep THEN Kept(Page(read[r].end, asof)) ELSE proxy
        /\ UNCHANGED failures
     \/ Fail /\ UNCHANGED proxy
  /\ UNCHANGED <<now, files, covered, rates>>
-----------------------------------------------------------------------------
(***************************************************************************)
(* fetch_candles: a file, or up to Retries requests; kept if the page is   *)
(* well past when the answer is there, and has bars.                       *)
(***************************************************************************)
OnFile(end) == \E f \in files : f.end = end

BarsAsked(r, end) ==
  /\ read[r] = Resting
  /\ ~OnFile(end)
  /\ Turn(r, [Resting EXCEPT !.pc = "bars", !.end = end, !.since = now, !.try = 1])
  /\ UNCHANGED <<now, proxy, files, covered, rates, failures>>

BarsReply(r) ==
  /\ read[r].pc = "bars"
  /\ Turn(r, Resting)
  /\ \/ /\ \E asof \in Answer(read[r].since) :
             files' = IF read[r].end < now - Margin
                      THEN {f \in files : f.end # read[r].end} \cup {Page(read[r].end, asof)}
                      ELSE files
        /\ UNCHANGED failures
     \/ Fail /\ UNCHANGED files         \* an empty answer
  /\ UNCHANGED <<now, proxy, covered, rates>>

(* A request that raises is repeated after a pause.                        *)
Raised(r) ==
  /\ read[r].pc \in {"bars", "rates"}
  /\ Fail
  /\ IF read[r].try < Retries
     THEN \E pause \in 0 .. 1 : Turn(r, [read[r] EXCEPT !.try = @ + 1, !.since = now + pause])
     ELSE Turn(r, Resting)
  /\ UNCHANGED <<now, proxy, files, covered, rates>>
-----------------------------------------------------------------------------
(***************************************************************************)
(* FundingHistory.rates: a range within one that was fetched is taken from *)
(* memory, where a period without a rate is one without funding.           *)
(***************************************************************************)
Covers(s, e) == \E c \in covered : c[1] <= s /\ e <= c[2]

RatesAsked(r, end) ==
  /\ read[r] = Resting
  /\ end <= now                 \* a simulated trade has left by now
  /\ ~Covers(0, end)
  /\ Turn(r, [Resting EXCEPT !.pc = "rates", !.end = end, !.since = now, !.try = 1])
  /\ UNCHANGED <<now, proxy, files, covered, rates, failures>>

RatesReply(r) ==
  /\ read[r].pc = "rates"
  /\ \E asof \in Answer(read[r].since) :
       rates' = rates \cup {t \in Events(0, read[r].end) : t <= asof}
  /\ covered' = covered \cup {<<0, read[r].end>>}
  /\ Turn(r, Resting)
  /\ UNCHANGED <<now, proxy, files, failures>>
-----------------------------------------------------------------------------
HistoryTick ==
  /\ now < MaxNow
  /\ \A r \in Readers : read[r].pc \in {"page", "bars", "rates"} => now - read[r].since < Timeout
  /\ now' = now + 1
  /\ UNCHANGED <<read, proxy, files, covered, rates, failures>>

PagesNext ==
  \/ \E r \in Readers, end \in 1 .. now : PageAsked(r, end)
  \/ \E r \in Readers : PageFetched(r) \/ PageReply(r)
  \/ HistoryTick

FilesNext ==
  \/ \E r \in Readers, end \in 1 .. now : BarsAsked(r, end) \/ RatesAsked(r, end)
  \/ \E r \in Readers : BarsReply(r) \/ RatesReply(r) \/ Raised(r)
  \/ HistoryTick
-----------------------------------------------------------------------------
(* What is kept for good can no longer change: every page, of the proxy    *)
(* ("fully-past pages are immutable", arena_server.py:250) and of the disk *)
(* ("a still-open window would freeze partial data", engine.py:612), was   *)
(* answered after its last bar closed, however long it waited for its      *)
(* slot, its answer and its retries.                                       *)
PagesAreFinal ==
  /\ \A i \in DOMAIN proxy : proxy[i].asof >= Closes(proxy[i].end)
  /\ \A f \in files : f.asof >= Closes(f.end)
=============================================================================
