---------------------------- MODULE TelegramFeed ----------------------------
(***************************************************************************)
(* One channel of TelegramSource (news/telegram_source.py): the live       *)
(* handler, and the poll loop that seeds, catches up and reconnects.  Both *)
(* share seenMax, the highest id processed, below which the poll never     *)
(* looks again.                                                            *)
(*                                                                         *)
(* The ids of the messages are 1 .. posted.  on_news does not suspend, so  *)
(* a batch that was fetched is ingested in one step.                       *)
(***************************************************************************)
EXTENDS Naturals, FiniteSets, FiniteSetsExt

CONSTANTS
  MaxMsg,       \* bound: how many messages the channel ever carries
  Blank,        \* messages without text, which produce no headline
  PollLimit,    \* the limit of one fetch
  MaxFaults     \* bound: failures of the link, a request or the handler

ASSUME FeedAssumption ==
  /\ {MaxMsg, MaxFaults} \subseteq Nat
  /\ PollLimit \in Nat \ {0}
  /\ Blank \subseteq 1 .. MaxMsg

VARIABLES
  posted,     \* the newest id in the channel
  connected,  \* whether the client is connected
  deaf,       \* whether the handler does not fire
  handling,   \* messages the handler awaits get_chat for
  seenMax,    \* _seen_max of the channel
  ingested,   \* messages given to on_news
  resolved,   \* whether the channel is in _ents, not in _unresolved
  poll,       \* where the poll loop is
  floor,      \* history: the tip the channel was seeded with
  handled,    \* history: the newest headline the handler brought itself
  faults

feed == <<posted, handling>>
feedVars == <<feed, connected, deaf, seenMax, ingested, resolved, poll, floor, handled, faults>>

Msgs == 1 .. MaxMsg

(* Where the poll loop is suspended, where a resolve or a reconnect goes   *)
(* on, and the id it asks from and the ids it was given.                   *)
At(pc, then, last, batch) == [pc |-> pc, then |-> then, last |-> last, batch |-> batch]

Asleep == At("sleep", "sleep", 0, {})

FeedInit ==
  /\ posted = 0
  /\ connected = TRUE
  /\ deaf = FALSE
  /\ handling = {}
  /\ seenMax = 0
  /\ ingested = {}
  /\ resolved = FALSE
  /\ poll = At("resolving", "sleep", 0, {})
  /\ floor = 0
  /\ handled = 0
  /\ faults = 0

-----------------------------------------------------------------------------
(***************************************************************************)
(* The channel, the link and the client library.                           *)
(***************************************************************************)
Fault == faults < MaxFaults /\ faults' = faults + 1

(* A request fails for lack of a link, or of itself.                       *)
RequestFails == IF connected THEN Fault ELSE UNCHANGED faults

Post ==
  /\ posted < MaxMsg
  /\ posted' = posted + 1
  /\ handling' = IF connected /\ ~deaf THEN handling \cup {posted + 1} ELSE handling
  /\ UNCHANGED <<connected, deaf, seenMax, ingested, resolved, poll, floor, handled, faults>>

LinkDrops ==
  /\ connected
  /\ Fault
  /\ connected' = FALSE
  /\ deaf' = TRUE
  /\ UNCHANGED <<posted, handling, seenMax, ingested, resolved, poll, floor, handled>>

(* On a new connection the handler may stay silent or fire again.          *)
Reconnected ==
  /\ connected' = TRUE
  /\ deaf' \in BOOLEAN

(* The library reconnects, unless it was told to disconnect.               *)
TransportReconnects ==
  /\ ~connected
  /\ poll.pc # "reconnecting"
  /\ Reconnected
  /\ UNCHANGED <<posted, handling, seenMax, ingested, resolved, poll, floor, handled, faults>>
-----------------------------------------------------------------------------
(***************************************************************************)
(* The live handler.                                                       *)
(***************************************************************************)
HandlerIngest(m) ==
  /\ m \in handling
  /\ handling' = handling \ {m}
  /\ ingested' = ingested \cup ({m} \ Blank)
  /\ seenMax' = Max({seenMax} \cup ({m} \ Blank))
  /\ handled' = Max({handled} \cup ({m} \ Blank))
  /\ UNCHANGED <<posted, connected, deaf, resolved, poll, floor, faults>>

(* The exception is logged and nothing else happens.                       *)
HandlerRaises(m) ==
  /\ m \in handling
  /\ Fault
  /\ handling' = handling \ {m}
  /\ UNCHANGED <<posted, connected, deaf, seenMax, ingested, resolved, poll, floor, handled>>
-----------------------------------------------------------------------------
(***************************************************************************)
(* The poll loop: a turn reconnects if the link is down, then resolves the *)
(* channel if it is still unresolved, then fetches.                        *)
(***************************************************************************)
TurnIfResolved == IF resolved THEN At("fetching", "sleep", seenMax, {}) ELSE Asleep \* mutant
Turn == IF resolved THEN At("fetching", "sleep", seenMax, {})
        ELSE At("resolving", "poll", 0, {})

Wake ==
  /\ poll.pc = "sleep"
  /\ poll' = IF connected THEN Turn ELSE At("reconnecting", "poll", 0, {})
  /\ UNCHANGED <<feed, connected, deaf, seenMax, ingested, resolved, floor, handled, faults>>

(* _resolve_channel: the entity, then the newest message as the seed.  The *)
(* channel counts as resolved even if the seed could not be read.          *)
ResolveFails ==
  /\ poll.pc = "resolving"
  /\ RequestFails
  /\ poll' = Asleep
  /\ UNCHANGED <<feed, connected, deaf, seenMax, ingested, resolved, floor, handled>>

Resolve ==
  /\ poll.pc = "resolving"
  /\ connected
  /\ poll' = [poll EXCEPT !.pc = "seeding"]
  /\ UNCHANGED <<feed, connected, deaf, seenMax, ingested, resolved, floor, handled, faults>>

SeedAnswer ==
  /\ poll.pc = "seeding"
  /\ connected
  /\ poll' = [poll EXCEPT !.pc = "seeded", !.last = posted]
  /\ UNCHANGED <<feed, connected, deaf, seenMax, ingested, resolved, floor, handled, faults>>

(* At startup the loop begins with a pause; in a turn the fetch follows.   *)
AfterSeed(max) ==
  IF poll.then = "poll" THEN At("fetching", "sleep", max, {}) ELSE Asleep

SeedFails ==
  /\ poll.pc = "seeding"
  /\ RequestFails
  /\ resolved' = TRUE
  /\ poll' = AfterSeed(seenMax)
  /\ UNCHANGED <<feed, connected, deaf, seenMax, ingested, floor, handled>>

Seed ==
  /\ poll.pc = "seeded"
  /\ resolved' = TRUE
  /\ seenMax' = IF poll.last = 0 THEN seenMax ELSE poll.last
  /\ floor' = poll.last
  /\ poll' = AfterSeed(seenMax')
  /\ UNCHANGED <<feed, connected, deaf, ingested, handled, faults>>

(* _poll_channel: the ids above last, the oldest first, up to the limit.   *)
BatchNewest(last) ==
  {m \in last + 1 .. posted : m + PollLimit > posted}               \* mutant
Batch(last) == {m \in last + 1 .. posted : m <= last + PollLimit}

FetchAnswer ==
  /\ poll.pc = "fetching"
  /\ connected
  /\ poll' = [poll EXCEPT !.pc = "fetched", !.batch = Batch(poll.last)]
  /\ UNCHANGED <<feed, connected, deaf, seenMax, ingested, resolved, floor, handled, faults>>

IngestBatch ==
  /\ poll.pc = "fetched"
  /\ ingested' = ingested \cup (poll.batch \ Blank)
  /\ seenMax' = Max({seenMax} \cup poll.batch)
  /\ poll' = Asleep
  /\ UNCHANGED <<feed, connected, deaf, resolved, floor, handled, faults>>

(* A fetch that times out, or fails for the link, forces a reconnect; any  *)
(* other error only ends the turn.                                         *)
FetchStalls ==
  /\ poll.pc = "fetching"
  /\ RequestFails
  /\ connected' = FALSE
  /\ deaf' = TRUE
  /\ poll' = At("reconnecting", "sleep", 0, {})
  /\ UNCHANGED <<feed, seenMax, ingested, resolved, floor, handled>>

FetchErrors ==
  /\ poll.pc = "fetching"
  /\ Fault
  /\ poll' = Asleep
  /\ UNCHANGED <<feed, connected, deaf, seenMax, ingested, resolved, floor, handled>>

(* _reconnect: connect, then ask whether the session is authorized; what   *)
(* fails is tried again.                                                   *)
Connect ==
  /\ poll.pc = "reconnecting"
  /\ Reconnected
  /\ poll' = [poll EXCEPT !.pc = "authorizing"]
  /\ UNCHANGED <<feed, seenMax, ingested, resolved, floor, handled, faults>>

Authorized ==
  /\ poll.pc = "authorizing"
  /\ connected
  /\ poll' = IF poll.then = "poll" THEN Turn ELSE Asleep
  /\ UNCHANGED <<feed, connected, deaf, seenMax, ingested, resolved, floor, handled, faults>>

ConnectFails ==
  /\ poll.pc = "authorizing"
  /\ RequestFails
  /\ poll' = [poll EXCEPT !.pc = "reconnecting"]
  /\ UNCHANGED <<feed, connected, deaf, seenMax, ingested, resolved, floor, handled>>
-----------------------------------------------------------------------------
HandlerStep(m) == HandlerIngest(m) \/ HandlerRaises(m)

PollStep ==
  \/ Wake
  \/ ResolveFails
  \/ Resolve
  \/ SeedAnswer
  \/ SeedFails
  \/ Seed
  \/ FetchAnswer
  \/ IngestBatch
  \/ FetchStalls
  \/ FetchErrors
  \/ Connect
  \/ Authorized
  \/ ConnectFails

FeedNext ==
  \/ Post
  \/ LinkDrops
  \/ TransportReconnects
  \/ \E m \in Msgs : HandlerStep(m)
  \/ PollStep

FeedSpec == FeedInit /\ [][FeedNext]_feedVars

(* The event loop runs the poll loop and the handlers, whose requests all  *)
(* end.  The library need never reconnect, nor the handler ever fire.      *)
FairFeedSpec ==
  /\ FeedSpec
  /\ WF_feedVars(PollStep)
  /\ \A m \in Msgs : WF_feedVars(HandlerStep(m))
-----------------------------------------------------------------------------
PollStates ==
  [pc : {"sleep", "resolving", "seeding", "seeded", "fetching", "fetched",
         "reconnecting", "authorizing"},
   then : {"sleep", "poll"}, last : Msgs \cup {0}, batch : SUBSET Msgs]

FeedTypeOK ==
  /\ posted \in Msgs \cup {0}
  /\ connected \in BOOLEAN /\ deaf \in BOOLEAN /\ resolved \in BOOLEAN
  /\ handling \subseteq 1 .. posted
  /\ seenMax \in 0 .. posted
  /\ ingested \subseteq (1 .. posted) \ Blank
  /\ poll \in PollStates
  /\ floor \in 0 .. posted
  /\ handled \in 0 .. posted
  /\ faults \in 0 .. MaxFaults

(* "oldest-first ... newest-first would advance _seen_max past the         *)
(* overflow and skip it forever" (telegram_source.py:182-184): everything  *)
(* that came after the seed, up to the highest id seen, has been ingested, *)
(* unless the handler, which may have been silent or have failed for a     *)
(* while, has brought a newer one itself.  The poll never opens a gap,     *)
(* whatever the handler missed and in whatever order the two get on.       *)
NoGap == \A m \in (floor + 1 .. seenMax) \ Blank : m \in ingested \/ m < handled

(* "the poll loop is the backstop that keeps ingestion alive": whatever    *)
(* fails, a message that came after the seed is ingested eventually, or    *)
(* the handler has brought a newer one.                                    *)
EventuallyIngested ==
  \A m \in Msgs \ Blank :
    posted >= m ~> (m \in ingested \/ m <= floor \/ m < handled)
=============================================================================
