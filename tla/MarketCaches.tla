----------------------------- MODULE MarketCaches ------------------------------
(***************************************************************************)
(* What the process keeps of the exchange's prices: the mids that HLClient *)
(* warms in the background and that the gate, the monitor and the executor *)
(* read (hl_client.py, mid and mid_cache_loop).                            *)
(*                                                                         *)
(* An answer is the time as of which the exchange made it.                 *)
(***************************************************************************)
EXTENDS Requests, Sequences

CONSTANTS
  AllowedDexes, \* config.filters.allowed_dexes, in their order
  Callers,      \* tasks that ask for a price
  MidTtl,       \* HLClient._mid_ttl
  Interval      \* of mid_cache_loop

ASSUME CachesAssumption == {MidTtl, Interval} \subseteq Nat \ {0}

Dexes == {AllowedDexes[i] : i \in DOMAIN AllowedDexes}

VARIABLES
  mids,     \* for each dex: as of when, 0 before the first, and its _mids_ts
  warm,     \* mid_cache_loop: the dexes it waits for, since when, its next round
  ask,      \* each caller: the dex whose price it waits for, since when
  given     \* history: how old the last mid was that each caller was given

cacheVars == <<mids, warm, ask, given>>

Free == [for |-> "nothing", since |-> 0]

CachesInit ==
  /\ mids = [d \in Dexes |-> [asof |-> 0, ts |-> 0]]
  /\ warm = [for |-> {}, since |-> 0, next |-> 1]
  /\ ask = [c \in Callers |-> Free]
  /\ given = [c \in Callers |-> 0]

Give(c, asof) == given' = [given EXCEPT ![c] = now - asof]
Done(c)       == ask' = [ask EXCEPT ![c] = Free]
Wait(c, for)  == ask' = [ask EXCEPT ![c] = [for |-> for, since |-> now]]
-----------------------------------------------------------------------------
(***************************************************************************)
(* mid_cache_loop asks for all dexes at once and sleeps when all have      *)
(* answered or failed.                                                     *)
(***************************************************************************)
WarmBegin ==
  /\ warm.for = {} /\ now >= warm.next
  /\ warm' = [warm EXCEPT !.for = Dexes, !.since = now]
  /\ UNCHANGED <<now, mids, ask, given, failures>>

WarmStamped(d) == [mids EXCEPT ![d].ts = now]                       \* mutant
WarmFailed(d)  == mids

WarmReply(d) ==
  /\ d \in warm.for
  /\ warm' = [warm EXCEPT !.for = @ \ {d},
                          !.next = IF warm.for = {d} THEN now + Interval ELSE @]
  /\ \/ /\ \E asof \in Answer(warm.since) :
             mids' = [mids EXCEPT ![d] = [asof |-> asof, ts |-> now]]
        /\ UNCHANGED failures
     \/ Fail /\ mids' = WarmFailed(d)
  /\ UNCHANGED <<now, ask, given>>
-----------------------------------------------------------------------------
(***************************************************************************)
(* mid: the cache while it is fresh, otherwise a request of the caller's   *)
(* own, whose answer goes into the cache whatever has arrived since.       *)
(***************************************************************************)
Fresh(d) == mids[d].asof # 0 /\ now - mids[d].ts < MidTtl

MidCached(c, d) ==
  /\ ask[c] = Free
  /\ Fresh(d)
  /\ Give(c, mids[d].asof)
  /\ UNCHANGED <<now, mids, warm, ask, failures>>

MidAsks(c, d) ==
  /\ ask[c] = Free
  /\ ~Fresh(d)
  /\ Wait(c, d)
  /\ UNCHANGED <<now, mids, warm, given, failures>>

MidReply(c) ==
  /\ ask[c].for \in Dexes
  /\ Done(c)
  /\ \/ /\ \E asof \in Answer(ask[c].since) :
             /\ mids' = [mids EXCEPT ![ask[c].for] = [asof |-> asof, ts |-> now]]
             /\ Give(c, asof)
        /\ UNCHANGED failures
     \/ Fail /\ UNCHANGED <<mids, given>>
  /\ UNCHANGED <<now, warm>>
-----------------------------------------------------------------------------
(* No request outlives its timeout.                                        *)
CachesTick ==
  /\ now < MaxNow
  /\ warm.for # {} => now - warm.since < Timeout
  /\ \A c \in Callers : ask[c] # Free => now - ask[c].since < Timeout
  /\ now' = now + 1
  /\ UNCHANGED <<mids, warm, ask, given, failures>>

MidsNext ==
  \/ WarmBegin
  \/ \E d \in Dexes : WarmReply(d)
  \/ \E c \in Callers, d \in Dexes : MidCached(c, d) \/ MidAsks(c, d)
  \/ \E c \in Callers : MidReply(c)
  \/ CachesTick
-----------------------------------------------------------------------------
(* A mid that is traded on was the exchange's within the life of the cache *)
(* and one request, whoever fetched it and in whatever order the answers   *)
(* of the loop and of the callers came (hl_client.py:213).                 *)
QuotesAreRecent ==
  \A c \in Callers : given[c] < MidTtl + Timeout
=============================================================================
