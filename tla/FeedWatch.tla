------------------------------- MODULE FeedWatch -------------------------------
(***************************************************************************)
(* How the news feeds stay up: the tree client's reconnects                *)
(* (news/tree_client.py, run), supervised(), which restarts the Telegram   *)
(* source and the other tasks (main.py), and feed_watchdog, which tells    *)
(* when neither brings news.                                               *)
(***************************************************************************)
EXTENDS Requests

CONSTANTS
  Base, Cap,     \* the first and the longest pause of each feed
  Healthy,       \* how long a supervised task runs to start afresh
  Silence,       \* feed_silence_alert_seconds
  Least, Most    \* bounds of the watchdog's period

Feeds == {"tree", "telegram_src"}

ASSUME FeedsAssumption ==
  /\ Base \in [Feeds -> Nat \ {0}] /\ Cap \in [Feeds -> Nat]
  /\ \A f \in Feeds : Base[f] <= Cap[f]
  /\ {Healthy, Silence, Least, Most} \subseteq Nat \ {0}
  /\ Least < Silence      \* silences are alerted after more than 15 s

VARIABLES
  service,   \* for each feed: whether there is something to connect to, since when
  link,      \* each feed's task: where it is, since when, and its next pause
  heard,     \* Pipeline.last_news_at
  watch,     \* feed_watchdog: its next check, and alerted
  broke,     \* history: when each feed last lost its link, and after what
  back       \* history: when news came again after the last silence

feedVars == <<service, link, heard, watch, broke, back>>

Lesser(m, n)  == IF m < n THEN m ELSE n
Greater(m, n) == IF m > n THEN m ELSE n
Check == Greater(Least, Lesser(Silence \div 2, Most))

FeedsInit ==
  /\ service = [f \in Feeds |-> [up |-> TRUE, since |-> 1]]
  /\ link = [f \in Feeds |-> [pc |-> "try", since |-> 1, pause |-> Base[f], wake |-> 1]]
  /\ heard = 1
  /\ watch = [next |-> 1 + Check, alerted |-> FALSE]
  /\ broke = [f \in Feeds |-> [at |-> 1, well |-> TRUE]]
  /\ back = 1

Runs(f) == link[f].pc = "run"
Link(f, next) == link' = [link EXCEPT ![f] = next]
-----------------------------------------------------------------------------
(* The socket opens: the next pause is the first again.  A supervised task *)
(* is only judged when it ends.                                            *)
ConnectedKeepsPause(f) == link[f].pause                             \* mutant
Connected(f) == IF f = "tree" THEN Base[f] ELSE link[f].pause

Connect(f) ==
  /\ link[f].pc = "try"
  /\ service[f].up
  /\ Link(f, [link[f] EXCEPT !.pc = "run", !.pause = Connected(f)])
  /\ UNCHANGED <<service, heard, watch, broke, back, now, failures>>

RanWell(f) == now - link[f].since > Healthy

(* What the task pauses for now, before it doubles.                        *)
Pause(f) == IF f = "telegram_src" /\ RanWell(f) THEN Base[f] ELSE link[f].pause

(* A task crashes, or its connection is refused or lost: because the other *)
(* side is down, or once in a while for a reason of its own.               *)
Break(f) ==
  /\ link[f].pc \in {"try", "run"}
  /\ IF service[f].up THEN Fail ELSE UNCHANGED failures
  /\ Link(f, [link[f] EXCEPT !.pc = "pause", !.wake = now + Pause(f),
                           !.pause = Lesser(2 * Pause(f), Cap[f])])
  /\ broke' = [broke EXCEPT ![f] =
       [at |-> now, well |-> IF f = "tree" THEN Runs(f) ELSE RanWell(f)]]
  /\ UNCHANGED <<service, heard, watch, back, now>>

(* A socket that is closed in order is opened again at once.               *)
Closed(f) ==
  /\ f = "tree" /\ Runs(f)
  /\ Fail
  /\ Link(f, [link[f] EXCEPT !.pc = "try", !.since = now])
  /\ broke' = [broke EXCEPT ![f] = [at |-> now, well |-> TRUE]]
  /\ UNCHANGED <<service, heard, watch, back, now>>

(* A source without authorization returns, which is final.                 *)
SourceEnds(f) ==
  /\ f = "telegram_src" /\ link[f].pc = "try"
  /\ Fail
  /\ Link(f, [link[f] EXCEPT !.pc = "over"])
  /\ UNCHANGED <<service, heard, watch, broke, back, now>>

Retry(f) ==
  /\ link[f].pc = "pause" /\ now >= link[f].wake
  /\ Link(f, [link[f] EXCEPT !.pc = "try", !.since = now])
  /\ UNCHANGED <<service, heard, watch, broke, back, now, failures>>
-----------------------------------------------------------------------------
Silent == now - heard >= Silence

News(f) ==
  /\ Runs(f) /\ service[f].up
  /\ heard' = now
  /\ back' = IF Silent THEN now ELSE back
  /\ UNCHANGED <<service, link, watch, broke, now, failures>>

(* One message when the silence is too long, one when it is over.          *)
WatchSilence ==
  /\ now >= watch.next
  /\ watch' = [next |-> now + Check, alerted |-> Silent]
  /\ UNCHANGED <<service, link, heard, broke, back, now, failures>>

Outage(f) ==
  /\ service[f].up
  /\ Fail
  /\ service' = [service EXCEPT ![f] = [up |-> FALSE, since |-> now]]
  /\ UNCHANGED <<link, heard, watch, broke, back, now>>

Recovery(f) ==
  /\ ~service[f].up
  /\ service' = [service EXCEPT ![f] = [up |-> TRUE, since |-> now]]
  /\ UNCHANGED <<link, heard, watch, broke, back, now, failures>>
-----------------------------------------------------------------------------
(* A connection is refused or given up in time, and the sleeps end when    *)
(* they are over.                                                          *)
FeedsTick ==
  /\ now < MaxNow
  /\ watch.next > now
  /\ \A f \in Feeds :
       CASE link[f].pc = "try"   -> now - link[f].since < Timeout
         [] link[f].pc = "pause" -> link[f].wake > now
         [] OTHER -> TRUE
  /\ now' = now + 1
  /\ UNCHANGED <<service, link, heard, watch, broke, back, failures>>

FeedsNext ==
  \/ \E f \in Feeds :
       \/ Connect(f) \/ Break(f) \/ Closed(f) \/ SourceEnds(f) \/ Retry(f)
       \/ News(f) \/ Outage(f) \/ Recovery(f)
  \/ WatchSilence
  \/ FeedsTick
-----------------------------------------------------------------------------
(* A feed that can be had is had again within its longest pause and one    *)
(* attempt, and within the shortest pause when it "ran healthy for a       *)
(* while" before and nothing but itself broke (main.py:281,                *)
(* tree_client.py:49).                                                     *)
OutageIsShort ==
  \A f \in Feeds :
    LET lost == Greater(broke[f].at, service[f].since)
        alone == service[f].since < broke[f].at /\ broke[f].well
    IN (service[f].up /\ link[f].pc \in {"pause", "try"}) =>
         now - lost <= (IF alone THEN Base[f] ELSE Cap[f]) + Timeout

(* A silence is told at the next check of the watchdog, and so is its end, *)
(* however short the news in between (main.py:237-249).                    *)
SilenceIsTold ==
  /\ now - heard >= Silence + Check => watch.alerted
  /\ (watch.alerted /\ ~Silent) => now - back <= Check

FeedsAreWatched == OutageIsShort /\ SilenceIsTold
=============================================================================
