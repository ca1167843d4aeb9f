----------------------------- MODULE MarketTables ------------------------------
(***************************************************************************)
(* The tables that are asked for again when they are older than their      *)
(* life: the market list of the arena's page (arena_server.py, markets),   *)
(* which one viewer at a time may fetch, dex after dex, while the others   *)
(* wait for its lock, and the funding rates of each dex (hl_client.py,     *)
(* funding_rate), which no lock guards.                                    *)
(*                                                                         *)
(* A fetch of the list may outlast the list's life (ten seconds, against   *)
(* fifteen for each dex); the viewers behind the lock then fetch it again, *)
(* one after the other.                                                    *)
(***************************************************************************)
EXTENDS MarketCaches

CONSTANTS MarketsTtl, FundingTtl      \* MARKETS_CACHE_SECONDS, a minute

ASSUME TablesAssumption ==
  /\ {MarketsTtl, FundingTtl} \subseteq Nat
  /\ FundingTtl >= Timeout

VARIABLES
  viewers,   \* the requests at _markets_lock, first the one that holds it
  fetch,     \* its fetch_markets: the dex it is at (0: none), since when, what it has
  list,      \* _markets_cache["data"]: for each dex as of when, 0 if not in it
  frates,     \* _frates, likewise
  asking,    \* each caller: the dex whose rates it waits for, since when
  stamp,     \* _markets_cache["ts"], and _frates_ts of each dex
  begun      \* history: when the last fetch of each table began

tableVars == <<viewers, fetch, list, frates, asking, stamp, begun>>

Tables == Dexes \cup {"markets"}
Ttl(t) == IF t = "markets" THEN MarketsTtl ELSE FundingTtl

Empty   == [d \in Dexes |-> 0]
NoFetch == [at |-> 0, since |-> 0, got |-> Empty]

TablesInit ==
  /\ viewers = <<>> /\ fetch = NoFetch
  /\ list = Empty /\ frates = Empty
  /\ asking = [c \in Callers |-> Free]
  /\ stamp = [t \in Tables |-> -Ttl(t)] /\ begun = stamp

Expired(t) == now - stamp[t] > Ttl(t)

(* Both stamp a table before they ask for it, and leave the stamp when the *)
(* answer is a failure.                                                    *)
Begin(t) ==
  /\ stamp' = [stamp EXCEPT ![t] = now]
  /\ begun' = [begun EXCEPT ![t] = now]

RetriedAtOnce(t) == [stamp EXCEPT ![t] = -Ttl(t)]                   \* mutant
AfterFailure(t)  == stamp
-----------------------------------------------------------------------------
ViewerAsks(c) ==
  /\ \A i \in DOMAIN viewers : viewers[i] # c
  /\ viewers' = Append(viewers, c)
  /\ UNCHANGED <<now, failures, fetch, list, frates, asking, stamp, begun>>

(* Who has the lock looks at the stamp as the one before left it.          *)
ViewerEnters ==
  /\ viewers # <<>> /\ fetch.at = 0
  /\ IF Expired("markets")
     THEN /\ Begin("markets")
          /\ fetch' = [at |-> 1, since |-> now, got |-> Empty]
          /\ UNCHANGED viewers
     ELSE viewers' = Tail(viewers) /\ UNCHANGED <<fetch, stamp, begun>>
  /\ UNCHANGED <<now, failures, list, frates, asking>>

(* A dex that fails drops out of the list; a list without any dex does not *)
(* take the place of one with some.                                        *)
Refreshed(got) == IF got # Empty THEN got ELSE list

ListAnswer ==
  /\ fetch.at # 0
  /\ \E got \in {[fetch.got EXCEPT ![AllowedDexes[fetch.at]] = a] : a \in {0} \cup Answer(fetch.since)} :
       /\ IF got = fetch.got THEN Fail ELSE UNCHANGED failures
       /\ IF fetch.at < Len(AllowedDexes)
          THEN /\ fetch' = [at |-> fetch.at + 1, since |-> now, got |-> got]
               /\ UNCHANGED <<viewers, list, stamp>>
          ELSE /\ fetch' = NoFetch
               /\ viewers' = Tail(viewers)
               /\ list' = Refreshed(got)
               /\ stamp' = IF got = Empty THEN AfterFailure("markets") ELSE stamp
  /\ UNCHANGED <<now, frates, asking, begun>>
-----------------------------------------------------------------------------
FundingAsked(c, d) ==
  /\ asking[c] = Free
  /\ Expired(d)
  /\ Begin(d)
  /\ asking' = [asking EXCEPT ![c] = [for |-> d, since |-> now]]
  /\ UNCHANGED <<now, failures, viewers, fetch, list, frates>>

FundingAnswer(c) ==
  /\ asking[c] # Free
  /\ asking' = [asking EXCEPT ![c] = Free]
  /\ \/ /\ \E asof \in Answer(asking[c].since) : frates' = [frates EXCEPT ![asking[c].for] = asof]
        /\ UNCHANGED <<failures, stamp>>
     \/ Fail /\ stamp' = AfterFailure(asking[c].for) /\ UNCHANGED frates
  /\ UNCHANGED <<now, viewers, fetch, list, begun>>
-----------------------------------------------------------------------------
(* No request outlives its timeout, and a viewer who has the lock looks at *)
(* the stamp at once.                                                      *)
TablesTick ==
  /\ now < MaxNow
  /\ viewers # <<>> => fetch.at # 0 /\ now - fetch.since < Timeout
  /\ \A c \in Callers : asking[c] # Free => now - asking[c].since < Timeout
  /\ now' = now + 1
  /\ UNCHANGED <<failures, tableVars>>

MarketsNext == ViewerEnters \/ ListAnswer \/ TablesTick \/ \E c \in Callers : ViewerAsks(c)

FundingNext ==
  \/ \E c \in Callers : FundingAnswer(c) \/ \E d \in Dexes : FundingAsked(c, d)
  \/ TablesTick
-----------------------------------------------------------------------------
Begins(t) ==
  IF t = "markets" THEN fetch.at = 0 /\ fetch'.at # 0
  ELSE \E c \in Callers : asking[c] = Free /\ asking'[c].for = t

(* "while HL is failing, retries happen once per TTL" (arena_server.py:218,*)
(* hl_client.py:113): two fetches of a table begin more than its life      *)
(* apart, also when viewers wait behind a fetch that outlasts it; and no   *)
(* table shows an answer older than the one it showed, whoever asked.      *)
FetchesTakeTurns ==
  [][/\ \A t \in Tables : Begins(t) => now - begun[t] > Ttl(t)
     /\ \A d \in Dexes : frates'[d] >= frates[d] /\ list'[d] \in {0} \cup list[d] .. now]_tableVars
=============================================================================
