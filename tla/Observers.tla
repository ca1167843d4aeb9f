------------------------------- MODULE Observers -------------------------------
(***************************************************************************)
(* The event bus (bus.py) and those who follow it: the Telegram notifier   *)
(* (notify/telegram.py) and a dashboard in a browser (/ws of ui/server.py  *)
(* and the page's onEvent).  The positions they are told of are opened and *)
(* closed by others: the row is written first, then the event published.   *)
(***************************************************************************)
EXTENDS Naturals, Sequences

CONSTANTS
  Positions,
  QueueSize   \* queue_maxsize

ASSUME ObserversAssumption == QueueSize \in Nat \ {0}

Followers == {"notifier", "viewer"}

VARIABLES
  pos,        \* "none", "opening", "open", "selling", "closing", "closed"
  order,      \* those ever opened, newest first
  published,  \* history: how many events
  queue,      \* the subscriptions
  told,       \* history: the last event the notifier took
  dropped,    \* history: whether the queue of the page overflowed
  viewer,     \* "off", "subscribed", "read", "live"
  shown       \* the positions the page shows

observerVars == <<pos, order, published, queue, told, dropped, viewer, shown>>

ObserversInit ==
  /\ pos = [p \in Positions |-> "none"]
  /\ order = <<>>
  /\ published = 0
  /\ queue = [f \in Followers |-> <<>>]
  /\ told = 0
  /\ dropped = FALSE
  /\ viewer = "off"
  /\ shown = {}

SubscribedLate(f) == f = "notifier" \/ viewer = "live"                \* mutant
Subscribed(f)     == f = "notifier" \/ viewer # "off"

RowOpen(p)    == pos[p] \in {"opening", "open", "selling"}
Tracked(p)    == pos[p] \in {"open", "selling", "closing"}
Listed        == SelectSeq(order, Tracked)
-----------------------------------------------------------------------------
(* A slow subscriber loses its oldest event.                               *)
Put(q, e) == IF Len(q) < QueueSize THEN Append(q, e) ELSE Append(Tail(q), e)

Publish(kind, p) ==
  LET event == [n |-> published + 1, kind |-> kind, pos |-> p]
  IN /\ published' = published + 1
     /\ queue' = [f \in Followers |-> IF Subscribed(f) THEN Put(queue[f], event) ELSE queue[f]]
     /\ dropped' = (dropped \/ Len(queue["viewer"]) = QueueSize)

Quiet == UNCHANGED <<published, queue, dropped>>

(* Opening and closing as the others see it.  A close may not fill.        *)
WriteOpen(p) ==
  /\ pos[p] = "none"
  /\ pos' = [pos EXCEPT ![p] = "opening"]
  /\ order' = <<p>> \o order
  /\ Quiet

FinishOpen(p) ==
  /\ pos[p] = "opening"
  /\ pos' = [pos EXCEPT ![p] = "open"]
  /\ Publish("open", p) /\ UNCHANGED order

BeginSell(p) ==
  /\ pos[p] = "open"
  /\ pos' = [pos EXCEPT ![p] = "selling"]
  /\ Quiet /\ UNCHANGED order

Unfilled(p) ==
  /\ pos[p] = "selling"
  /\ pos' = [pos EXCEPT ![p] = "open"]
  /\ Quiet /\ UNCHANGED order

WriteClosed(p) ==
  /\ pos[p] = "selling"
  /\ pos' = [pos EXCEPT ![p] = "closing"]
  /\ Quiet /\ UNCHANGED order

FinishSell(p) ==
  /\ pos[p] = "closing"
  /\ pos' = [pos EXCEPT ![p] = "closed"]
  /\ Publish("close", p) /\ UNCHANGED order
-----------------------------------------------------------------------------
(* The dashboard subscribes, reads the rows, sends them and then follows   *)
(* its queue.                                                              *)
Connect ==
  /\ viewer = "off"
  /\ viewer' = "subscribed"
  /\ dropped' = FALSE
  /\ UNCHANGED <<pos, order, published, queue, told, shown>>

Snapshot ==
  /\ viewer = "subscribed"
  /\ viewer' = "read"
  /\ shown' = {p \in Positions : RowOpen(p)}
  /\ UNCHANGED <<pos, order, published, queue, told, dropped>>

SnapshotSent ==
  /\ viewer = "read"
  /\ viewer' = "live"
  /\ UNCHANGED <<pos, order, published, queue, told, dropped, shown>>

Follow ==
  /\ viewer = "live" /\ queue["viewer"] # <<>>
  /\ LET event == Head(queue["viewer"])
     IN shown' = IF event.kind = "open" THEN shown \cup {event.pos} ELSE shown \ {event.pos}
  /\ queue' = [queue EXCEPT !["viewer"] = Tail(@)]
  /\ UNCHANGED <<pos, order, published, told, dropped, viewer>>

Disconnect ==
  /\ viewer # "off"
  /\ viewer' = "off"
  /\ queue' = [queue EXCEPT !["viewer"] = <<>>]
  /\ UNCHANGED <<pos, order, published, told, dropped, shown>>

(* The process dies and starts again: positions are restored from rows.    *)
ObserversRestart ==
  /\ pos' = [p \in Positions |-> IF RowOpen(p) THEN "open"
                                 ELSE IF pos[p] = "closing" THEN "closed" ELSE pos[p]]
  /\ queue' = [f \in Followers |-> <<>>]
  /\ told' = published
  /\ dropped' = FALSE
  /\ viewer' = "off"
  /\ UNCHANGED <<order, published, shown>>
-----------------------------------------------------------------------------
(* However slow the notifier is, what it still has to take is in order,    *)
(* comes after what it took, and ends with the newest event.               *)
NewestIsKept ==
  LET all == <<told>> \o [i \in DOMAIN queue["notifier"] |-> queue["notifier"][i].n]
  IN /\ \A i \in 1 .. Len(all) - 1 : all[i] < all[i + 1]
     /\ all[Len(all)] = published

(* A page that has caught up, and whose queue did not overflow, shows the  *)
(* open positions, whatever was opened and closed while it connected.      *)
CaughtUpShowsTheBook ==
  viewer = "live" /\ queue["viewer"] = <<>> /\ ~dropped =>
    \A p \in Positions : pos[p] \notin {"opening", "closing"} => (p \in shown <=> RowOpen(p))
=============================================================================
