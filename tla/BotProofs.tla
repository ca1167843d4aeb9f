------------------------------- MODULE BotProofs -------------------------------
(***************************************************************************)
(* What the chat and the page may rely on, for any number of positions,    *)
(* messages, presses and lives of the process, and any size of the queues. *)
(*                                                                         *)
(* The bus and its followers are a part of their own: whatever the bot     *)
(* does, they take a step of ObserversNext or none (BotObserves), and what *)
(* is promised of the bus is proved from that.  What is promised of the    *)
(* bot rests on the numbers of the updates: those still to be handled are  *)
(* newer than any prompt on show.                                          *)
(***************************************************************************)
EXTENDS Bot, SequenceTheorems, TLAPS

-----------------------------------------------------------------------------
(***************************************************************************)
(* The bus and its followers, whoever moves the positions.                 *)
(***************************************************************************)
Writes(p) == (WriteOpen(p) \/ BeginSell(p) \/ Unfilled(p) \/ WriteClosed(p))
             /\ UNCHANGED <<told, viewer, shown>>
Tells(p)  == (FinishOpen(p) \/ FinishSell(p)) /\ UNCHANGED <<told, viewer, shown>>

Takes ==
  /\ queue["notifier"] # <<>>
  /\ told' = Head(queue["notifier"]).n
  /\ queue' = [queue EXCEPT !["notifier"] = Tail(@)]
  /\ UNCHANGED <<pos, order, published, dropped, viewer, shown>>

ObserversNext ==
  \/ \E p \in Positions : Writes(p) \/ Tells(p)
  \/ Takes
  \/ Connect \/ Snapshot \/ SnapshotSent \/ Follow \/ Disconnect
  \/ ObserversRestart

ObserversSpec == ObserversInit /\ [][ObserversNext]_observerVars

States == {"none", "opening", "open", "selling", "closing", "closed"}
Event  == [n : Nat, kind : {"open", "close"}, pos : Positions]

ObserverTypes ==
  /\ pos \in [Positions -> States]
  /\ published \in Nat
  /\ told \in Nat
  /\ queue \in [Followers -> Seq(Event)]
  /\ dropped \in BOOLEAN
  /\ viewer \in {"off", "subscribed", "read", "live"}
  /\ shown \subseteq Positions

(* A queue goes on from the event last taken to the newest one.            *)
Continues(q, t, n) ==
  /\ q = <<>> => t = n
  /\ q # <<>> => t < q[1].n /\ q[Len(q)].n = n
  /\ \A i \in 1 .. Len(q) - 1 : q[i].n < q[i + 1].n

(* The last event about a position in the queue of the page says what has  *)
(* become of it; of a position no event is about, the page shows it.       *)
LastAbout(q, i, p) == q[i].pos = p /\ \A j \in 1 .. Len(q) : j > i => q[j].pos # p
Says(kind)         == IF kind = "open" THEN {"open", "selling", "closing"} ELSE {"closed"}
QueueTrue(q, p)    == \A i \in 1 .. Len(q) : LastAbout(q, i, p) => pos[p] \in Says(q[i].kind)
PageTrue(q, p) ==
  /\ viewer \in {"read", "live"}
  /\ \A i \in 1 .. Len(q) : q[i].pos # p
  /\ pos[p] \notin {"opening", "closing"}
  => (p \in shown <=> RowOpen(p))

PageInv ==
  LET q == queue["viewer"]
  IN /\ Len(q) <= QueueSize
     /\ viewer = "off" => q = <<>>
     /\ viewer # "off" /\ ~dropped => \A p \in Positions : QueueTrue(q, p) /\ PageTrue(q, p)

ObserverInv ==
  /\ ObserverTypes
  /\ Continues(queue["notifier"], told, published)
  /\ PageInv
-----------------------------------------------------------------------------
(* A subscriber's queue.                                                   *)
LEMMA EventIs ==
  ASSUME NEW n \in Nat, NEW kind \in {"open", "close"}, NEW p \in Positions
  PROVE  LET e == [n |-> n, kind |-> kind, pos |-> p]
         IN e \in Event /\ e.n = n /\ e.kind = kind /\ e.pos = p
BY DEF Event

LEMMA TailIs ==
  ASSUME NEW S, NEW q \in Seq(S), q # <<>>
  PROVE  /\ Len(q) \in Nat \ {0} /\ Head(q) = q[1] /\ Head(q) \in S
         /\ Tail(q) \in Seq(S) /\ Len(Tail(q)) = Len(q) - 1
         /\ \A i \in 1 .. Len(q) - 1 : Tail(q)[i] = q[i + 1]
         /\ Tail(q) = <<>> <=> Len(q) = 1
<1>1. /\ Len(q) \in Nat \ {0} /\ Head(q) = q[1] /\ Head(q) \in S
      /\ Tail(q) \in Seq(S) /\ Len(Tail(q)) = Len(q) - 1
      /\ \A i \in 1 .. Len(q) - 1 : Tail(q)[i] = q[i + 1]
  BY HeadTailProperties, EmptySeq, LenProperties
<1>2. Tail(q) = <<>> <=> Len(Tail(q)) = 0
  BY <1>1, EmptySeq
<1> QED BY <1>1, <1>2

LEMMA PutIs ==
  ASSUME NEW q \in Seq(Event), NEW e \in Event
  PROVE  /\ Put(q, e) \in Seq(Event)
         /\ Len(Put(q, e)) \in Nat \ {0}
         /\ Put(q, e)[Len(Put(q, e))] = e
         /\ Len(q) < QueueSize =>
              /\ Len(Put(q, e)) = Len(q) + 1
              /\ \A i \in 1 .. Len(q) : Put(q, e)[i] = q[i]
         /\ ~(Len(q) < QueueSize) =>
              /\ q # <<>>
              /\ Len(Put(q, e)) = Len(q)
              /\ \A i \in 1 .. Len(q) - 1 : Put(q, e)[i] = q[i + 1]
<1>1. Len(q) \in Nat /\ QueueSize \in Nat \ {0} /\ (q = <<>> <=> Len(q) = 0)
  BY LenProperties, EmptySeq, ObserversAssumption
<1>2. CASE Len(q) < QueueSize
  BY <1>1, <1>2, AppendProperties DEF Put
<1>3. CASE ~(Len(q) < QueueSize)
  <2>1. q # <<>>
    BY <1>1, <1>3
  <2>2. /\ Tail(q) \in Seq(Event) /\ Len(Tail(q)) = Len(q) - 1
        /\ \A i \in 1 .. Len(q) - 1 : Tail(q)[i] = q[i + 1]
    BY <2>1, TailIs
  <2>3. /\ Append(Tail(q), e) \in Seq(Event)
        /\ Len(Append(Tail(q), e)) = Len(q)
        /\ \A i \in 1 .. Len(q) - 1 : Append(Tail(q), e)[i] = Tail(q)[i]
        /\ Append(Tail(q), e)[Len(q)] = e
    BY <1>1, <2>2, AppendProperties
  <2>4. Put(q, e) = Append(Tail(q), e)
    BY <1>3 DEF Put
  <2> QED BY <1>1, <1>3, <2>1, <2>2, <2>3, <2>4
<1> QED BY <1>2, <1>3

LEMMA ContinuesPut ==
  ASSUME NEW q \in Seq(Event), NEW t \in Nat, NEW n \in Nat, Continues(q, t, n),
         NEW e \in Event, e.n = n + 1
  PROVE  Continues(Put(q, e), t, n + 1)
<1> DEFINE r == Put(q, e)
<1>1. Len(q) \in Nat /\ (q = <<>> <=> Len(q) = 0)
  BY LenProperties, EmptySeq
<1>2. /\ r \in Seq(Event) /\ Len(r) \in Nat \ {0} /\ r[Len(r)] = e /\ r # <<>>
      /\ Len(q) < QueueSize => Len(r) = Len(q) + 1 /\ \A i \in 1 .. Len(q) : r[i] = q[i]
      /\ ~(Len(q) < QueueSize) => q # <<>> /\ Len(r) = Len(q)
                                  /\ \A i \in 1 .. Len(q) - 1 : r[i] = q[i + 1]
  <2>1. Put(q, e) \in Seq(Event) /\ Len(Put(q, e)) # 0
    BY PutIs
  <2>2. Put(q, e) # <<>>
    BY <2>1, EmptySeq
  <2>3. Len(q) < QueueSize => Len(r) = Len(q) + 1 /\ \A i \in 1 .. Len(q) : r[i] = q[i]
    BY PutIs
  <2>4. ~(Len(q) < QueueSize) => q # <<>> /\ Len(r) = Len(q)
                                  /\ \A i \in 1 .. Len(q) - 1 : r[i] = q[i + 1]
    BY PutIs
  <2>5. r \in Seq(Event) /\ Len(r) \in Nat \ {0} /\ r[Len(r)] = e
    BY PutIs
  <2> QED BY <2>2, <2>3, <2>4, <2>5
<1> HIDE DEF r
<1>3. \A i \in 1 .. Len(q) : q[i].n \in Nat
  <2>1. \A i \in 1 .. Len(q) : q[i] \in Event
    BY ElementOfSeq
  <2> QED BY <2>1 DEF Event
<1>4. q = <<>> => t < e.n
  <2>1. q = <<>> => t = n
    BY DEF Continues
  <2> QED BY <2>1
<1>5. q # <<>> => t < q[1].n /\ q[Len(q)].n < e.n
  BY <1>1, <1>3 DEF Continues
<1>6. r[Len(r)].n = n + 1
  BY <1>2
<1>7. CASE Len(q) < QueueSize
  <2>1. t < r[1].n
    BY <1>1, <1>2, <1>4, <1>5, <1>7
  <2>2. ASSUME NEW i \in 1 .. Len(r) - 1
        PROVE  r[i].n < r[i + 1].n
    <3>1. CASE i = Len(q)
      BY <1>1, <1>2, <1>5, <1>7, <3>1
    <3>2. CASE i < Len(q)
      <4>1. r[i] = q[i] /\ r[i + 1] = q[i + 1] /\ i \in 1 .. Len(q) - 1
        BY <1>1, <1>2, <1>7, <2>2, <3>2
      <4> QED BY <4>1 DEF Continues
    <3> QED BY <1>1, <1>2, <1>7, <2>2, <3>1, <3>2
  <2> QED BY <1>2, <1>6, <2>1, <2>2 DEF Continues, r
<1>8. CASE ~(Len(q) < QueueSize)
  <2>1. t < r[1].n
    <3>1. CASE Len(q) = 1
      BY <1>1, <1>2, <1>3, <1>5, <1>8, <3>1, ElementOfSeq DEF Event
    <3>2. CASE Len(q) # 1
      <4>1. r[1] = q[2] /\ q[1].n < q[2].n /\ q[1].n \in Nat /\ q[2].n \in Nat
        BY <1>1, <1>2, <1>3, <1>8, <3>2 DEF Continues
      <4> QED BY <1>2, <1>5, <1>8, <4>1
    <3> QED BY <3>1, <3>2
  <2>2. ASSUME NEW i \in 1 .. Len(r) - 1
        PROVE  r[i].n < r[i + 1].n
    <3>1. CASE i = Len(q) - 1
      <4>1. r[i] = q[Len(q)] /\ r[i + 1] = e
        BY <1>1, <1>2, <1>8, <2>2, <3>1
      <4> QED BY <1>2, <1>5, <1>8, <4>1
    <3>2. CASE i < Len(q) - 1
      <4>1. r[i] = q[i + 1] /\ r[i + 1] = q[i + 2] /\ i + 1 \in 1 .. Len(q) - 1
        BY <1>1, <1>2, <1>8, <2>2, <3>2
      <4>2. q[i + 1].n < q[(i + 1) + 1].n
        BY <4>1 DEF Continues
      <4> QED BY <4>1, <4>2
    <3> QED BY <1>1, <1>2, <1>8, <2>2, <3>1, <3>2
  <2> QED BY <1>2, <1>6, <2>1, <2>2 DEF Continues, r
<1> QED BY <1>7, <1>8

LEMMA ContinuesTail ==
  ASSUME NEW q \in Seq(Event), q # <<>>, NEW t, NEW n \in Nat, Continues(q, t, n)
  PROVE  Head(q).n \in Nat /\ Continues(Tail(q), Head(q).n, n)
<1>1. /\ Len(q) \in Nat \ {0} /\ Head(q) = q[1] /\ Head(q) \in Event
      /\ Tail(q) \in Seq(Event) /\ Len(Tail(q)) = Len(q) - 1
      /\ \A i \in 1 .. Len(q) - 1 : Tail(q)[i] = q[i + 1]
      /\ Tail(q) = <<>> <=> Len(q) = 1
  BY TailIs
<1>2. Tail(q) = <<>> => Head(q).n = n
  BY <1>1 DEF Continues
<1>3. Tail(q) # <<>> => Head(q).n < Tail(q)[1].n /\ Tail(q)[Len(Tail(q))].n = n
  BY <1>1 DEF Continues
<1>4. ASSUME NEW i \in 1 .. Len(Tail(q)) - 1
      PROVE  Tail(q)[i].n < Tail(q)[i + 1].n
  <2>1. Tail(q)[i] = q[i + 1] /\ Tail(q)[i + 1] = q[(i + 1) + 1] /\ i + 1 \in 1 .. Len(q) - 1
    BY <1>1, <1>4
  <2> QED BY <2>1 DEF Continues
<1> QED BY <1>1, <1>2, <1>3, <1>4 DEF Continues, Event
-----------------------------------------------------------------------------
(* Where publishing an event leads.                                        *)
LEMMA PublishIs ==
  ASSUME ObserverTypes, NEW kind \in {"open", "close"}, NEW p \in Positions, Publish(kind, p)
  PROVE  LET e == [n |-> published + 1, kind |-> kind, pos |-> p]
         IN /\ e \in Event
            /\ published' = published + 1
            /\ queue' \in [Followers -> Seq(Event)]
            /\ queue'["notifier"] = Put(queue["notifier"], e)
            /\ viewer # "off" => queue'["viewer"] = Put(queue["viewer"], e)
            /\ viewer = "off" => queue'["viewer"] = queue["viewer"]
            /\ dropped' \in BOOLEAN
            /\ ~dropped' => ~dropped /\ Len(queue["viewer"]) # QueueSize
<1> DEFINE e == [n |-> published + 1, kind |-> kind, pos |-> p]
<1>1. e \in Event
  BY EventIs DEF ObserverTypes, Event
<1>2. \A f \in Followers : Put(queue[f], e) \in Seq(Event)
  BY <1>1, PutIs DEF ObserverTypes
<1>3. /\ published' = published + 1
      /\ queue' = [f \in Followers |-> IF Subscribed(f) THEN Put(queue[f], e) ELSE queue[f]]
      /\ dropped' = (dropped \/ Len(queue["viewer"]) = QueueSize)
  BY DEF Publish
<1> HIDE DEF e
<1>4. queue' \in [Followers -> Seq(Event)]
  BY <1>2, <1>3 DEF ObserverTypes
<1>5. "notifier" \in Followers /\ "viewer" \in Followers
  BY DEF Followers
<1>6. /\ queue'["notifier"] = Put(queue["notifier"], e)
      /\ viewer # "off" => queue'["viewer"] = Put(queue["viewer"], e)
      /\ viewer = "off" => queue'["viewer"] = queue["viewer"]
  BY <1>3, <1>5 DEF Subscribed
<1>7. dropped' \in BOOLEAN /\ (~dropped' => ~dropped /\ Len(queue["viewer"]) # QueueSize)
  BY <1>3 DEF ObserverTypes
<1> QED BY <1>1, <1>3, <1>4, <1>6, <1>7 DEF e

(* Telling of a position moves it: opening to open, or closing to closed.  *)
LEMMA TellsIs ==
  ASSUME ObserverTypes, NEW p \in Positions, Tells(p)
  PROVE  \E kind \in {"open", "close"} :
           /\ Publish(kind, p)
           /\ pos' \in [Positions -> States]
           /\ pos'[p] \in Says(kind) /\ pos'[p] \notin {"opening", "closing"}
           /\ \A r \in Positions : r # p => pos'[r] = pos[r]
<1>1. CASE FinishOpen(p)
  <2>1. /\ Publish("open", p) /\ pos' = [pos EXCEPT ![p] = "open"]
    BY <1>1 DEF FinishOpen
  <2> QED BY <2>1 DEF ObserverTypes, States, Says
<1>2. CASE FinishSell(p)
  <2>1. /\ Publish("close", p) /\ pos' = [pos EXCEPT ![p] = "closed"]
    BY <1>2 DEF FinishSell
  <2> QED BY <2>1 DEF ObserverTypes, States, Says
<1> QED BY <1>1, <1>2 DEF Tells

(* Writing a row keeps what an event said of the position, and whether its *)
(* row is open, but on the way to the next event.                          *)
LEMMA WritesIs ==
  ASSUME ObserverTypes, NEW p \in Positions, Writes(p)
  PROVE  /\ pos' \in [Positions -> States]
         /\ UNCHANGED <<published, queue, dropped, told, viewer, shown>>
         /\ \A r \in Positions, kind \in {"open", "close"} :
              pos[r] \in Says(kind) => pos'[r] \in Says(kind)
         /\ \A r \in Positions : pos'[r] \notin {"opening", "closing"} =>
              /\ pos[r] \notin {"opening", "closing"}
              /\ RowOpen(r) <=> RowOpen(r)'
<1>1. CASE WriteOpen(p)
  <2>1. pos[p] = "none" /\ pos' = [pos EXCEPT ![p] = "opening"] /\ Quiet
    BY <1>1 DEF WriteOpen
  <2> QED BY <2>1 DEF Writes, Quiet, ObserverTypes, States, Says, RowOpen
<1>2. CASE BeginSell(p)
  <2>1. pos[p] = "open" /\ pos' = [pos EXCEPT ![p] = "selling"] /\ Quiet
    BY <1>2 DEF BeginSell
  <2> QED BY <2>1 DEF Writes, Quiet, ObserverTypes, States, Says, RowOpen
<1>3. CASE Unfilled(p)
  <2>1. pos[p] = "selling" /\ pos' = [pos EXCEPT ![p] = "open"] /\ Quiet
    BY <1>3 DEF Unfilled
  <2> QED BY <2>1 DEF Writes, Quiet, ObserverTypes, States, Says, RowOpen
<1>4. CASE WriteClosed(p)
  <2>1. pos[p] = "selling" /\ pos' = [pos EXCEPT ![p] = "closing"] /\ Quiet
    BY <1>4 DEF WriteClosed
  <2> QED BY <2>1 DEF Writes, Quiet, ObserverTypes, States, Says, RowOpen
<1> QED BY <1>1, <1>2, <1>3, <1>4 DEF Writes
-----------------------------------------------------------------------------
(* What is said of the page, when an event is put into its queue and when  *)
(* the page takes one.                                                     *)
LEMMA QueueTruePut ==
  ASSUME NEW q \in Seq(Event), Len(q) < QueueSize, NEW e \in Event,
         NEW r \in Positions, QueueTrue(q, r),
         pos'[e.pos] \in Says(e.kind), r # e.pos => pos'[r] = pos[r]
  PROVE  \A i \in 1 .. Len(Put(q, e)) :
           LastAbout(Put(q, e), i, r) => pos'[r] \in Says(Put(q, e)[i].kind)
<1> DEFINE s == Put(q, e)
<1>1. /\ Len(q) \in Nat /\ Len(s) = Len(q) + 1 /\ s[Len(s)] = e
      /\ \A i \in 1 .. Len(q) : s[i] = q[i]
  BY PutIs, LenProperties
<1> HIDE DEF s
<1>2. ASSUME NEW i \in 1 .. Len(s), LastAbout(s, i, r)
      PROVE  pos'[r] \in Says(s[i].kind)
  <2>1. CASE i = Len(s)
    BY <1>1, <1>2, <2>1 DEF LastAbout
  <2>2. CASE i # Len(s)
    <3>1. i \in 1 .. Len(q) /\ s[i] = q[i] /\ Len(s) > i /\ Len(s) \in 1 .. Len(s)
      BY <1>1, <1>2, <2>2
    <3>2. r # e.pos
      BY <1>1, <1>2, <3>1 DEF LastAbout
    <3>3. LastAbout(q, i, r)
      BY <1>1, <1>2, <3>1 DEF LastAbout
    <3> QED BY <3>1, <3>2, <3>3 DEF QueueTrue
  <2> QED BY <2>1, <2>2
<1> QED BY <1>2 DEF s

LEMMA LastAboutTail ==
  ASSUME NEW q \in Seq(Event), q # <<>>, NEW r
  PROVE  /\ \A i \in 1 .. Len(Tail(q)) :
              LastAbout(Tail(q), i, r) => LastAbout(q, i + 1, r) /\ i + 1 \in 1 .. Len(q)
         /\ (\A i \in 1 .. Len(Tail(q)) : Tail(q)[i].pos # r) =>
              IF Head(q).pos = r THEN LastAbout(q, 1, r)
              ELSE \A i \in 1 .. Len(q) : q[i].pos # r
<1>1. /\ Len(q) \in Nat \ {0} /\ Head(q) = q[1] /\ Len(Tail(q)) = Len(q) - 1
      /\ \A i \in 1 .. Len(q) - 1 : Tail(q)[i] = q[i + 1]
  BY TailIs
<1>2. \A j \in 2 .. Len(q) : j - 1 \in 1 .. Len(Tail(q)) /\ Tail(q)[j - 1] = q[j]
  <2>1. ASSUME NEW j \in 2 .. Len(q)
        PROVE  j - 1 \in 1 .. Len(q) - 1 /\ (j - 1) + 1 = j
    BY <1>1, <2>1
  <2> QED BY <1>1, <2>1
<1>3. ASSUME NEW i \in 1 .. Len(Tail(q)), LastAbout(Tail(q), i, r)
      PROVE  LastAbout(q, i + 1, r) /\ i + 1 \in 1 .. Len(q)
  <2>1. i + 1 \in 1 .. Len(q) /\ q[i + 1].pos = r
    BY <1>1, <1>3 DEF LastAbout
  <2>2. ASSUME NEW j \in 1 .. Len(q), j > i + 1
        PROVE  q[j].pos # r
    <3>1. j \in 2 .. Len(q) /\ j - 1 > i
      BY <1>1, <1>3, <2>2
    <3> QED BY <1>2, <1>3, <3>1 DEF LastAbout
  <2> QED BY <2>1, <2>2 DEF LastAbout
<1>4. ASSUME \A i \in 1 .. Len(Tail(q)) : Tail(q)[i].pos # r
      PROVE  IF Head(q).pos = r THEN LastAbout(q, 1, r)
             ELSE \A i \in 1 .. Len(q) : q[i].pos # r
  <2>1. \A j \in 2 .. Len(q) : q[j].pos # r
    BY <1>2, <1>4
  <2> QED BY <1>1, <2>1 DEF LastAbout
<1> QED BY <1>3, <1>4
-----------------------------------------------------------------------------
LEMMA ObserversStart == ObserversInit => ObserverInv
<1> SUFFICES ASSUME ObserversInit PROVE ObserverInv
  OBVIOUS
<1> USE DEF ObserversInit
<1>0. "notifier" \in Followers /\ "viewer" \in Followers
  BY DEF Followers
<1>1. <<>> \in Seq(Event) /\ Len(<<>>) = 0
  BY EmptySeq
<1>2. ObserverTypes
  BY <1>1 DEF ObserverTypes, States
<1>3. Continues(queue["notifier"], told, published)
  BY <1>0, <1>1 DEF Continues
<1>4. PageInv
  BY <1>0, <1>1, ObserversAssumption DEF PageInv
<1> QED BY <1>2, <1>3, <1>4 DEF ObserverInv

LEMMA WritesKeeps ==
  ASSUME ObserverInv, NEW p \in Positions, Writes(p)
  PROVE  ObserverInv'
<1> DEFINE q == queue["viewer"]
<1>1. ObserverTypes /\ Continues(queue["notifier"], told, published) /\ PageInv
  BY DEF ObserverInv
<1>2. /\ pos' \in [Positions -> States]
      /\ UNCHANGED <<published, queue, dropped, told, viewer, shown>>
      /\ \A r \in Positions, kind \in {"open", "close"} :
           pos[r] \in Says(kind) => pos'[r] \in Says(kind)
      /\ \A r \in Positions : pos'[r] \notin {"opening", "closing"} =>
           /\ pos[r] \notin {"opening", "closing"}
           /\ RowOpen(r) <=> RowOpen(r)'
  BY <1>1, WritesIs
<1>3. ObserverTypes'
  BY <1>1, <1>2 DEF ObserverTypes
<1>4. Continues(queue["notifier"], told, published)'
  BY <1>1, <1>2 DEF Continues
<1>5. q \in Seq(Event)
  BY <1>1 DEF ObserverTypes, Followers
<1>6. \A i \in 1 .. Len(q) : q[i].kind \in {"open", "close"}
  <2>1. \A i \in 1 .. Len(q) : q[i] \in Event
    BY <1>5, ElementOfSeq
  <2> QED BY <2>1 DEF Event
<1>7. ASSUME NEW r \in Positions, QueueTrue(q, r), PageTrue(q, r)
      PROVE  QueueTrue(q, r)' /\ PageTrue(q, r)'
  <2>1. QueueTrue(q, r)'
    BY <1>2, <1>6, <1>7 DEF QueueTrue, LastAbout
  <2>2. PageTrue(q, r)'
    BY <1>2, <1>7 DEF PageTrue
  <2> QED BY <2>1, <2>2
<1>8. PageInv'
  BY <1>1, <1>2, <1>7 DEF PageInv
<1> QED BY <1>3, <1>4, <1>8 DEF ObserverInv

LEMMA TellsKeeps ==
  ASSUME ObserverInv, NEW p \in Positions, Tells(p)
  PROVE  ObserverInv'
<1> DEFINE q == queue["viewer"]
<1>1. ObserverTypes /\ Continues(queue["notifier"], told, published) /\ PageInv
  BY DEF ObserverInv
<1>2. PICK kind \in {"open", "close"} :
        /\ Publish(kind, p)
        /\ pos' \in [Positions -> States]
        /\ pos'[p] \in Says(kind) /\ pos'[p] \notin {"opening", "closing"}
        /\ \A r \in Positions : r # p => pos'[r] = pos[r]
  BY <1>1, TellsIs
<1> DEFINE e == [n |-> published + 1, kind |-> kind, pos |-> p]
<1>3. /\ e \in Event
      /\ published' = published + 1
      /\ queue' \in [Followers -> Seq(Event)]
      /\ queue'["notifier"] = Put(queue["notifier"], e)
      /\ viewer # "off" => queue'["viewer"] = Put(q, e)
      /\ viewer = "off" => queue'["viewer"] = q
      /\ dropped' \in BOOLEAN
      /\ ~dropped' => ~dropped /\ Len(q) # QueueSize
  BY <1>1, <1>2, PublishIs
<1>4. e.n = published + 1 /\ e.kind = kind /\ e.pos = p
  OBVIOUS
<1> HIDE DEF e
<1>5. told' = told /\ viewer' = viewer /\ shown' = shown
  BY DEF Tells
<1>6. /\ queue["notifier"] \in Seq(Event) /\ q \in Seq(Event)
      /\ published \in Nat /\ told \in Nat
  BY <1>1 DEF ObserverTypes, Followers
<1>7. ObserverTypes'
  BY <1>1, <1>2, <1>3, <1>5 DEF ObserverTypes
<1>8. Continues(queue["notifier"], told, published)'
  <2>1. Continues(Put(queue["notifier"], e), told, published + 1)
    BY <1>1, <1>3, <1>4, <1>6, ContinuesPut
  <2> QED BY <1>3, <1>5, <2>1
<1>9. CASE viewer = "off"
  <2>1. Len(q) <= QueueSize /\ q = <<>>
    BY <1>1, <1>9 DEF PageInv
  <2>2. queue'["viewer"] = q /\ viewer' = "off"
    BY <1>3, <1>5, <1>9
  <2>3. PageInv'
    BY <2>1, <2>2 DEF PageInv
  <2> QED BY <1>7, <1>8, <2>3 DEF ObserverInv
<1>10. CASE viewer # "off"
  <2>1. /\ Len(q) \in Nat /\ Len(q) <= QueueSize /\ QueueSize \in Nat \ {0}
        /\ ~dropped => \A r \in Positions : QueueTrue(q, r) /\ PageTrue(q, r)
    BY <1>1, <1>6, <1>10, LenProperties, ObserversAssumption DEF PageInv
  <2>4. /\ Len(q) < QueueSize =>
             /\ Len(Put(q, e)) = Len(q) + 1
             /\ Put(q, e)[Len(Put(q, e))] = e
             /\ \A i \in 1 .. Len(q) : Put(q, e)[i] = q[i]
        /\ ~(Len(q) < QueueSize) => Len(Put(q, e)) = Len(q)
    <3> HIDE DEF q
    <3>1. q \in Seq(Event) /\ e \in Event
      BY <1>3, <1>6
    <3> QED BY <3>1, PutIs
  <2>2. Len(queue'["viewer"]) <= QueueSize
    BY <1>3, <1>10, <2>1, <2>4
  <2>3. ASSUME ~dropped', NEW r \in Positions
        PROVE  QueueTrue(queue["viewer"], r)' /\ PageTrue(queue["viewer"], r)'
    <3> DEFINE s == queue'["viewer"]
    <3>1. /\ Len(q) < QueueSize /\ s = Put(q, e)
          /\ QueueTrue(q, r) /\ PageTrue(q, r)
      BY <1>3, <1>10, <2>1, <2>3
    <3>2. QueueTrue(queue["viewer"], r)'
      <4>1. pos'[e.pos] \in Says(e.kind) /\ (r # e.pos => pos'[r] = pos[r])
        BY <1>2, <1>4
      <4>2. \A i \in 1 .. Len(s) : LastAbout(s, i, r) => pos'[r] \in Says(s[i].kind)
        BY <1>3, <1>6, <3>1, <4>1, QueueTruePut
      <4> QED BY <4>2 DEF QueueTrue, LastAbout
    <3>3. PageTrue(queue["viewer"], r)'
      <4>1. /\ Len(s) = Len(q) + 1 /\ s[Len(s)] = e
            /\ \A i \in 1 .. Len(q) : s[i] = q[i]
        BY <2>4, <3>1
      <4>2. CASE r = p
        <5>1. Len(s) \in 1 .. Len(s) /\ s[Len(s)].pos = r
          BY <1>4, <2>1, <4>1, <4>2
        <5> QED BY <5>1 DEF PageTrue
      <4>3. CASE r # p
        <5>1. (\A i \in 1 .. Len(s) : s[i].pos # r) => \A i \in 1 .. Len(q) : q[i].pos # r
          BY <2>1, <4>1
        <5>2. pos'[r] = pos[r] /\ (RowOpen(r) <=> RowOpen(r)')
          BY <1>2, <4>3 DEF RowOpen
        <5> QED BY <1>5, <3>1, <5>1, <5>2 DEF PageTrue
      <4> QED BY <4>2, <4>3
    <3> QED BY <3>2, <3>3
  <2> QED BY <1>5, <1>7, <1>8, <1>10, <2>2, <2>3 DEF PageInv, ObserverInv
<1> QED BY <1>7, <1>8, <1>9, <1>10 DEF ObserverInv

LEMMA TakesKeeps == ASSUME ObserverInv, Takes PROVE ObserverInv'
<1> DEFINE q == queue["notifier"]
<1>1. /\ ObserverTypes /\ Continues(q, told, published) /\ PageInv
      /\ q # <<>> /\ told' = Head(q).n /\ queue' = [queue EXCEPT !["notifier"] = Tail(q)]
      /\ UNCHANGED <<pos, order, published, dropped, viewer, shown>>
  BY DEF ObserverInv, Takes
<1>2. q \in Seq(Event) /\ published \in Nat
  BY <1>1 DEF ObserverTypes, Followers
<1>3. Head(q).n \in Nat /\ Continues(Tail(q), Head(q).n, published)
  <2> HIDE DEF q
  <2> QED BY <1>1, <1>2, ContinuesTail
<1>4. Tail(q) \in Seq(Event)
  BY <1>1, <1>2, TailIs
<1>5. queue'["notifier"] = Tail(q) /\ queue'["viewer"] = queue["viewer"]
  BY <1>1 DEF ObserverTypes, Followers
<1>6. queue' \in [Followers -> Seq(Event)]
  BY <1>1, <1>4 DEF ObserverTypes
<1>7. ObserverTypes'
  BY <1>1, <1>3, <1>6 DEF ObserverTypes
<1>8. PageInv'
  BY <1>1, <1>5 DEF PageInv, QueueTrue, PageTrue, LastAbout, RowOpen
<1> QED BY <1>1, <1>3, <1>5, <1>7, <1>8 DEF ObserverInv

LEMMA FollowKeeps == ASSUME ObserverInv, Follow PROVE ObserverInv'
<1> DEFINE q == queue["viewer"]
           e == Head(q)
<1>1. ObserverTypes /\ Continues(queue["notifier"], told, published) /\ PageInv
  BY DEF ObserverInv
<1>2. /\ viewer = "live" /\ q # <<>>
      /\ shown' = IF e.kind = "open" THEN shown \cup {e.pos} ELSE shown \ {e.pos}
      /\ queue' = [queue EXCEPT !["viewer"] = Tail(q)]
      /\ UNCHANGED <<pos, order, published, told, dropped, viewer>>
  BY DEF Follow
<1>3. q \in Seq(Event)
  BY <1>1 DEF ObserverTypes, Followers
<1>4. queue'["viewer"] = Tail(q) /\ queue'["notifier"] = queue["notifier"]
  BY <1>1, <1>2 DEF ObserverTypes, Followers
<1>5. /\ Len(q) \in Nat \ {0} /\ e = q[1] /\ e \in Event
      /\ Tail(q) \in Seq(Event) /\ Len(Tail(q)) = Len(q) - 1
      /\ \A i \in 1 .. Len(q) - 1 : Tail(q)[i] = q[i + 1]
  <2> HIDE DEF q
  <2> QED BY <1>2, <1>3, TailIs
<1>6. ObserverTypes'
  <2>1. queue' \in [Followers -> Seq(Event)]
    BY <1>1, <1>2, <1>5 DEF ObserverTypes
  <2>2. shown' \subseteq Positions
    BY <1>1, <1>2, <1>5 DEF ObserverTypes, Event
  <2> QED BY <1>1, <1>2, <2>1, <2>2 DEF ObserverTypes
<1>7. Continues(queue["notifier"], told, published)'
  BY <1>1, <1>2, <1>4
<1>8. ASSUME ~dropped, NEW r \in Positions
      PROVE  QueueTrue(queue["viewer"], r)' /\ PageTrue(queue["viewer"], r)'
  <2>1. QueueTrue(q, r) /\ PageTrue(q, r)
    BY <1>1, <1>2, <1>8 DEF PageInv
  <2>2. /\ \A i \in 1 .. Len(Tail(q)) :
             LastAbout(Tail(q), i, r) => LastAbout(q, i + 1, r) /\ i + 1 \in 1 .. Len(q)
        /\ (\A i \in 1 .. Len(Tail(q)) : Tail(q)[i].pos # r) =>
             IF e.pos = r THEN LastAbout(q, 1, r) ELSE \A i \in 1 .. Len(q) : q[i].pos # r
    <3> HIDE DEF q
    <3> QED BY <1>2, <1>3, LastAboutTail
  <2>3. QueueTrue(queue["viewer"], r)'
    <3>1. ASSUME NEW i \in 1 .. Len(Tail(q)), LastAbout(Tail(q), i, r)
          PROVE  pos[r] \in Says(Tail(q)[i].kind)
      <4>1. LastAbout(q, i + 1, r) /\ i + 1 \in 1 .. Len(q) /\ Tail(q)[i] = q[i + 1]
        BY <1>5, <2>2, <3>1
      <4> QED BY <2>1, <4>1 DEF QueueTrue
    <3> QED BY <1>2, <1>4, <3>1 DEF QueueTrue, LastAbout
  <2>4. PageTrue(queue["viewer"], r)'
    <3>1. SUFFICES ASSUME \A i \in 1 .. Len(Tail(q)) : Tail(q)[i].pos # r,
                          pos[r] \notin {"opening", "closing"}
                   PROVE  r \in shown' <=> RowOpen(r)
      BY <1>2, <1>4 DEF PageTrue, RowOpen
    <3>2. CASE e.pos = r
      <4>1. LastAbout(q, 1, r)
        BY <2>2, <3>1, <3>2
      <4>2. pos[r] \in Says(e.kind) /\ e.kind \in {"open", "close"}
        BY <1>5, <2>1, <4>1 DEF QueueTrue, Event
      <4> QED BY <1>2, <3>1, <3>2, <4>2 DEF Says, RowOpen
    <3>3. CASE e.pos # r
      <4>1. \A i \in 1 .. Len(q) : q[i].pos # r
        BY <2>2, <3>1, <3>3
      <4> QED BY <1>2, <2>1, <3>1, <3>3, <4>1 DEF PageTrue
    <3> QED BY <3>2, <3>3
  <2> QED BY <2>3, <2>4
<1>9. PageInv'
  <2>1. Len(Tail(q)) <= QueueSize
    BY <1>1, <1>5, ObserversAssumption DEF PageInv
  <2> QED BY <1>2, <1>4, <1>8, <2>1 DEF PageInv
<1> QED BY <1>6, <1>7, <1>9 DEF ObserverInv

(* The dashboard connects to an empty queue, and reads the rows of now.    *)
LEMMA ConnectKeeps == ASSUME ObserverInv, Connect PROVE ObserverInv'
<1> DEFINE q == queue["viewer"]
<1>1. /\ ObserverTypes /\ Continues(queue["notifier"], told, published) /\ PageInv
      /\ viewer = "off" /\ viewer' = "subscribed" /\ dropped' = FALSE
      /\ UNCHANGED <<pos, order, published, queue, told, shown>>
  BY DEF ObserverInv, Connect
<1>2. q = <<>> /\ Len(q) = 0 /\ Len(q) <= QueueSize
  BY <1>1, EmptySeq DEF PageInv
<1>3. PageInv'
  BY <1>1, <1>2 DEF PageInv, QueueTrue, PageTrue
<1>4. ObserverTypes'
  BY <1>1 DEF ObserverTypes
<1> QED BY <1>1, <1>3, <1>4 DEF ObserverInv

LEMMA SnapshotKeeps == ASSUME ObserverInv, Snapshot PROVE ObserverInv'
<1>1. /\ ObserverTypes /\ Continues(queue["notifier"], told, published) /\ PageInv
      /\ viewer = "subscribed" /\ viewer' = "read"
      /\ shown' = {p \in Positions : RowOpen(p)}
      /\ UNCHANGED <<pos, order, published, queue, told, dropped>>
  BY DEF ObserverInv, Snapshot
<1>2. PageInv'
  BY <1>1 DEF PageInv, QueueTrue, PageTrue, LastAbout, RowOpen
<1>3. ObserverTypes'
  BY <1>1 DEF ObserverTypes
<1> QED BY <1>1, <1>2, <1>3 DEF ObserverInv

LEMMA SnapshotSentKeeps == ASSUME ObserverInv, SnapshotSent PROVE ObserverInv'
<1>1. /\ ObserverTypes /\ Continues(queue["notifier"], told, published) /\ PageInv
      /\ viewer = "read" /\ viewer' = "live"
      /\ UNCHANGED <<pos, order, published, queue, told, dropped, shown>>
  BY DEF ObserverInv, SnapshotSent
<1>2. PageInv'
  BY <1>1 DEF PageInv, QueueTrue, PageTrue, LastAbout, RowOpen
<1>3. ObserverTypes'
  BY <1>1 DEF ObserverTypes
<1> QED BY <1>1, <1>2, <1>3 DEF ObserverInv

LEMMA DisconnectKeeps == ASSUME ObserverInv, Disconnect PROVE ObserverInv'
<1>1. /\ ObserverTypes /\ Continues(queue["notifier"], told, published) /\ PageInv
      /\ viewer' = "off" /\ queue' = [queue EXCEPT !["viewer"] = <<>>]
      /\ UNCHANGED <<pos, order, published, told, dropped, shown>>
  BY DEF ObserverInv, Disconnect
<1>2. <<>> \in Seq(Event) /\ Len(<<>>) = 0
  BY EmptySeq
<1>3. queue'["viewer"] = <<>> /\ queue'["notifier"] = queue["notifier"]
  BY <1>1 DEF ObserverTypes, Followers
<1>4. PageInv'
  BY <1>1, <1>2, <1>3, ObserversAssumption DEF PageInv
<1>5. ObserverTypes'
  BY <1>1, <1>2 DEF ObserverTypes
<1> QED BY <1>1, <1>3, <1>4, <1>5 DEF ObserverInv

LEMMA RestartKeeps == ASSUME ObserverInv, ObserversRestart PROVE ObserverInv'
<1>1. ObserverTypes /\ PageInv
  BY DEF ObserverInv
<1>2. /\ pos' = [p \in Positions |-> IF RowOpen(p) THEN "open"
                                     ELSE IF pos[p] = "closing" THEN "closed" ELSE pos[p]]
      /\ queue' = [f \in Followers |-> <<>>]
      /\ told' = published /\ dropped' = FALSE /\ viewer' = "off"
      /\ UNCHANGED <<order, published, shown>>
  BY DEF ObserversRestart
<1>3. <<>> \in Seq(Event) /\ Len(<<>>) = 0
  BY EmptySeq
<1>4. queue'["viewer"] = <<>> /\ queue'["notifier"] = <<>>
  BY <1>2 DEF Followers
<1>5. Continues(queue["notifier"], told, published)'
  BY <1>2, <1>3, <1>4 DEF Continues
<1>6. PageInv'
  BY <1>2, <1>3, <1>4, ObserversAssumption DEF PageInv
<1>7. pos' \in [Positions -> States]
  BY <1>1, <1>2 DEF ObserverTypes, States
<1>8. ObserverTypes'
  BY <1>1, <1>2, <1>3, <1>7 DEF ObserverTypes
<1> QED BY <1>5, <1>6, <1>8 DEF ObserverInv

LEMMA ObserversKeep == ObserverInv /\ [ObserversNext]_observerVars => ObserverInv'
<1> SUFFICES ASSUME ObserverInv, [ObserversNext]_observerVars PROVE ObserverInv'
  OBVIOUS
<1>1. CASE UNCHANGED observerVars
  BY <1>1 DEF observerVars, ObserverInv, ObserverTypes, Continues, PageInv, QueueTrue,
              PageTrue, LastAbout, RowOpen
<1>2. CASE ObserversNext
  BY <1>2, WritesKeeps, TellsKeeps, TakesKeeps, FollowKeeps, ConnectKeeps, SnapshotKeeps,
     SnapshotSentKeeps, DisconnectKeeps, RestartKeeps DEF ObserversNext
<1> QED BY <1>1, <1>2

(* Whatever the bot does, the bus and its followers see one of their own   *)
(* steps.                                                                  *)
LEMMA BotStepObserves == [Next]_vars => [ObserversNext]_observerVars
<1> SUFFICES ASSUME [Next]_vars PROVE [ObserversNext]_observerVars
  OBVIOUS
<1>1. CASE UNCHANGED vars
  BY <1>1 DEF vars
<1>2. CASE PressStart \/ PressButton \/ SkipBacklog \/ Poll
  BY <1>2 DEF PressStart, PressButton, SkipBacklog, Poll
<1>3. CASE Handle
  <2> DEFINE u == Head(batch)
  <2>1. CASE HandleStart(u) \/ HandleShow(u) \/ HandleAsk(u)
    BY <2>1 DEF HandleStart, HandleShow, HandleAsk
  <2>2. CASE HandleConfirm(u)
    BY <2>2 DEF HandleConfirm, Closable, Writes, ObserversNext
  <2> QED BY <1>3, <2>1, <2>2 DEF Handle
<1>4. CASE Send \/ Edit \/ RefreshLoop \/ Redraw \/ CardAges \/ Alerted \/ Boot
  BY <1>4 DEF Send, Edit, RefreshLoop, Redraw, CardAges, Alerted, Boot
<1>5. CASE Alert
  BY <1>5 DEF Alert, Takes, ObserversNext
<1>6. CASE Trading
  BY <1>6 DEF Trading, Writes, Tells, ObserversNext
<1>7. CASE Viewing
  BY <1>7 DEF Viewing, ObserversNext
<1>8. CASE Crash
  BY <1>8 DEF Crash, ObserversNext
<1> QED BY <1>1, <1>2, <1>3, <1>4, <1>5, <1>6, <1>7, <1>8 DEF Next

(* The model of the bot implements that of the bus: its steps are steps of *)
(* the observers or leave them alone (bus.py, ui/server.py).               *)
THEOREM BotObserves == Spec => ObserversSpec
<1>1. Init => ObserversInit
  BY DEF Init
<1> QED BY <1>1, BotStepObserves, PTL DEF Spec, ObserversSpec

LEMMA ObserversSafe == ObserversSpec => []ObserverInv
BY ObserversStart, ObserversKeep, PTL DEF ObserversSpec

(* What the notifier still has to take is in order, is newer than what it  *)
(* took and ends with the newest event, however slow it is and however     *)
(* small its queue: EventBus.publish drops the oldest (bus.py:45-56).      *)
THEOREM NewestStays == Spec => []NewestIsKept
<1>1. ObserverInv => NewestIsKept
  <2> SUFFICES ASSUME ObserverInv PROVE NewestIsKept
    OBVIOUS
  <2> DEFINE q   == queue["notifier"]
             ns  == [i \in DOMAIN q |-> q[i].n]
             all == <<told>> \o ns
  <2>1. q \in Seq(Event) /\ told \in Nat /\ Continues(q, told, published)
    BY DEF ObserverInv, ObserverTypes, Followers
  <2>2. Len(q) \in Nat /\ DOMAIN q = 1 .. Len(q) /\ (q = <<>> <=> Len(q) = 0)
    BY <2>1, LenProperties, EmptySeq
  <2>3. \A i \in 1 .. Len(q) : q[i].n \in Nat
    <3>1. \A i \in 1 .. Len(q) : q[i] \in Event
      BY <2>1, ElementOfSeq
    <3> QED BY <3>1 DEF Event
  <2>4. ns \in Seq(Nat) /\ Len(ns) = Len(q) /\ \A i \in 1 .. Len(q) : ns[i] = q[i].n
    <3>1. ns \in [1 .. Len(q) -> Nat]
      BY <2>2, <2>3
    <3>2. ns \in Seq(Nat)
      BY <2>2, <3>1, SeqDef
    <3> QED BY <2>2, <3>1, <3>2, LenProperties
  <2>5. <<told>> \in Seq(Nat) /\ Len(<<told>>) = 1 /\ <<told>>[1] = told
    BY <2>1
  <2> HIDE DEF ns, q
  <2>6. /\ Len(all) = Len(q) + 1 /\ all[1] = told
        /\ \A i \in 1 .. Len(q) : all[i + 1] = q[i].n
    <3>1. /\ Len(all) = Len(<<told>>) + Len(ns)
          /\ \A i \in 1 .. Len(<<told>>) + Len(ns) :
               all[i] = IF i <= Len(<<told>>) THEN <<told>>[i] ELSE ns[i - Len(<<told>>)]
      BY <2>4, <2>5, ConcatProperties
    <3>2. \A i \in 1 .. Len(q) : i + 1 \in 1 .. 1 + Len(ns) /\ ~(i + 1 <= 1) /\ (i + 1) - 1 = i
      BY <2>2, <2>4
    <3> QED BY <2>2, <2>4, <2>5, <3>1, <3>2
  <2> HIDE DEF all
  <2>7. ASSUME NEW i \in 1 .. Len(all) - 1
        PROVE  all[i] < all[i + 1]
    <3>1. i \in 1 .. Len(q) /\ all[i + 1] = q[i].n
      BY <2>2, <2>6, <2>7
    <3>2. CASE i = 1
      BY <2>1, <2>2, <2>6, <3>1, <3>2 DEF Continues
    <3>3. CASE i # 1
      <4>1. i - 1 \in 1 .. Len(q) - 1 /\ all[(i - 1) + 1] = q[i - 1].n /\ (i - 1) + 1 = i
        BY <2>2, <2>6, <3>1, <3>3
      <4>2. q[i - 1].n < q[(i - 1) + 1].n
        BY <2>1, <4>1 DEF Continues
      <4> QED BY <3>1, <4>1, <4>2
    <3> QED BY <3>2, <3>3
  <2>8. all[Len(all)] = published
    <3>1. CASE q = <<>>
      BY <2>1, <2>2, <2>6, <3>1 DEF Continues
    <3>2. CASE q # <<>>
      <4>1. Len(q) \in 1 .. Len(q) /\ q[Len(q)].n = published
        BY <2>1, <2>2, <3>2 DEF Continues
      <4> QED BY <2>6, <4>1
    <3> QED BY <3>1, <3>2
  <2> QED BY <2>7, <2>8 DEF NewestIsKept, all, ns, q
<1> QED BY <1>1, BotObserves, ObserversSafe, PTL

(* A page that has caught up shows the open positions, whatever was opened *)
(* and closed while it subscribed and read the rows: it subscribes first,  *)
(* so that no event falls between (ui/server.py:265-282).                  *)
THEOREM PageShowsTheBook == Spec => []CaughtUpShowsTheBook
<1>1. ObserverInv => CaughtUpShowsTheBook
  <2> SUFFICES ASSUME ObserverInv, viewer = "live", queue["viewer"] = <<>>, ~dropped,
                      NEW p \in Positions, pos[p] \notin {"opening", "closing"}
               PROVE  p \in shown <=> RowOpen(p)
    BY DEF CaughtUpShowsTheBook
  <2>1. PageTrue(queue["viewer"], p)
    BY DEF ObserverInv, PageInv
  <2>2. Len(queue["viewer"]) = 0
    BY EmptySeq
  <2> QED BY <2>1, <2>2 DEF PageTrue
<1> QED BY <1>1, BotObserves, ObserversSafe, PTL
-----------------------------------------------------------------------------
(***************************************************************************)
(* The commands of the chat.                                               *)
(***************************************************************************)
IsSeq(s) == \E S : s \in Seq(S)

(* Updates are numbered in their order, none beyond those there were.      *)
Numbered(s) ==
  /\ IsSeq(s)
  /\ \A i \in 1 .. Len(s) : s[i].n \in Nat /\ s[i].n <= presses
  /\ \A i, j \in 1 .. Len(s) : i < j => s[i].n < s[j].n

(* That a close was confirmed: in this life, or in any if it is blind.     *)
EverConfirmed(p) == \E b \in 1 .. boot : <<p, b>> \in confirms
Confirmed(p)     == <<p, boot>> \in confirms \/ (boot \in blind /\ EverConfirmed(p))
Asked(u)         == u.data.act = "confirm"

Polling ==
  /\ presses \in Nat /\ offset \in Nat /\ boot \in Nat \ {0}
  /\ Numbered(updates) /\ Numbered(batch)
  /\ batch # <<>> => poller = "polling"
  /\ \A i \in 1 .. Len(batch) : batch[i].n >= offset

Backlog ==
  \A i \in 1 .. Len(updates) : Asked(updates[i]) =>
    /\ EverConfirmed(updates[i].data.pos)
    /\ poller = "polling" /\ updates[i].n >= offset => Confirmed(updates[i].data.pos)

InHand == \A i \in 1 .. Len(batch) : Asked(batch[i]) => Confirmed(batch[i].data.pos)

CommandInv == Polling /\ Backlog /\ InHand /\ OnlyConfirmedIsClosed
-----------------------------------------------------------------------------
(* Sequences of anything.                                                  *)
LEMMA NoneIs == IsSeq(<<>>) /\ Len(<<>>) = 0
BY EmptySeq DEF IsSeq

LEMMA OneIs == ASSUME NEW e PROVE IsSeq(<<e>>) /\ Len(<<e>>) = 1 /\ <<e>>[1] = e
<1>1. <<e>> \in Seq({e})
  OBVIOUS
<1> QED BY <1>1 DEF IsSeq

LEMMA LengthIs ==
  ASSUME NEW s, IsSeq(s)
  PROVE  Len(s) \in Nat /\ (s = <<>> <=> Len(s) = 0)
<1>1. PICK S : s \in Seq(S)
  BY DEF IsSeq
<1> QED BY <1>1, LenProperties, EmptySeq

LEMMA LongerIs ==
  ASSUME NEW s, IsSeq(s), NEW e
  PROVE  /\ IsSeq(Append(s, e)) /\ Len(Append(s, e)) = Len(s) + 1
         /\ \A i \in 1 .. Len(s) : Append(s, e)[i] = s[i]
         /\ Append(s, e)[Len(s) + 1] = e
<1>1. PICK S : s \in Seq(S)
  BY DEF IsSeq
<1>2. s \in Seq(S \cup {e})
  BY <1>1, SeqMonotonic
<1>3. e \in S \cup {e}
  OBVIOUS
<1>4. /\ Append(s, e) \in Seq(S \cup {e}) /\ Len(Append(s, e)) = Len(s) + 1
      /\ \A i \in 1 .. Len(s) : Append(s, e)[i] = s[i]
      /\ Append(s, e)[Len(s) + 1] = e
  BY <1>2, <1>3, AppendProperties
<1> QED BY <1>4 DEF IsSeq

LEMMA ShorterIs ==
  ASSUME NEW s, IsSeq(s), s # <<>>
  PROVE  /\ Len(s) \in Nat \ {0} /\ Head(s) = s[1]
         /\ IsSeq(Tail(s)) /\ Len(Tail(s)) = Len(s) - 1
         /\ \A i \in 1 .. Len(s) - 1 : Tail(s)[i] = s[i + 1]
<1>1. PICK S : s \in Seq(S)
  BY DEF IsSeq
<1>2. /\ Len(s) \in Nat \ {0} /\ Head(s) = s[1]
      /\ Tail(s) \in Seq(S) /\ Len(Tail(s)) = Len(s) - 1
      /\ \A i \in 1 .. Len(s) - 1 : Tail(s)[i] = s[i + 1]
  BY <1>1, TailIs
<1> QED BY <1>2 DEF IsSeq

LEMMA RestIs ==
  ASSUME NEW s, IsSeq(s), NEW k \in 1 .. Len(s) + 1
  PROVE  LET t == SubSeq(s, k, Len(s))
         IN /\ IsSeq(t) /\ Len(t) = Len(s) - k + 1
            /\ \A i \in 1 .. Len(t) : t[i] = s[k + i - 1] /\ k + i - 1 \in 1 .. Len(s)
<1>1. PICK S : s \in Seq(S)
  BY DEF IsSeq
<1> DEFINE t == SubSeq(s, k, Len(s))
<1>2. Len(s) \in Nat /\ k \in Nat \ {0} /\ \A i \in k .. Len(s) : s[i] \in S
  BY <1>1, LenProperties, ElementOfSeq
<1>3. /\ t \in Seq(S)
      /\ Len(t) = IF k <= Len(s) THEN Len(s) - k + 1 ELSE 0
      /\ \A i \in 1 .. Len(s) - k + 1 : t[i] = s[k + i - 1]
  BY <1>1, <1>2, SubSeqProperties
<1>4. Len(t) = Len(s) - k + 1
  BY <1>2, <1>3
<1>5. \A i \in 1 .. Len(t) : k + i - 1 \in 1 .. Len(s)
  BY <1>2, <1>4
<1> QED BY <1>3, <1>4, <1>5 DEF IsSeq

LEMMA RangeIs == ASSUME NEW s, IsSeq(s) PROVE Range(s) = {s[i] : i \in 1 .. Len(s)}
<1>1. PICK S : s \in Seq(S)
  BY DEF IsSeq
<1> QED BY <1>1, RangeEquality

(* What Telegram and the bot do to the list of the updates.                *)
LEMMA NumberedAppend ==
  ASSUME NEW s, Numbered(s), presses \in Nat, presses' = presses + 1, NEW e, e.n = presses'
  PROVE  /\ IsSeq(Append(s, e)) /\ Len(Append(s, e)) = Len(s) + 1 /\ Len(s) \in Nat
         /\ \A i \in 1 .. Len(s) : Append(s, e)[i] = s[i]
         /\ Append(s, e)[Len(s) + 1] = e
         /\ \A i \in 1 .. Len(s) + 1 : Append(s, e)[i].n \in Nat /\ Append(s, e)[i].n <= presses'
         /\ \A i, j \in 1 .. Len(s) + 1 : i < j => Append(s, e)[i].n < Append(s, e)[j].n
<1>1. /\ IsSeq(Append(s, e)) /\ Len(Append(s, e)) = Len(s) + 1 /\ Len(s) \in Nat
      /\ \A i \in 1 .. Len(s) : Append(s, e)[i] = s[i]
      /\ Append(s, e)[Len(s) + 1] = e
  BY LongerIs, LengthIs DEF Numbered
<1>2. \A i \in 1 .. Len(s) + 1 : i \in 1 .. Len(s) \/ i = Len(s) + 1
  BY <1>1
<1>3. \A i \in 1 .. Len(s) : Append(s, e)[i].n \in Nat /\ Append(s, e)[i].n <= presses
  BY <1>1 DEF Numbered
<1>4. \A i, j \in 1 .. Len(s) : i < j => Append(s, e)[i].n < Append(s, e)[j].n
  BY <1>1 DEF Numbered
<1>5. ASSUME NEW i \in 1 .. Len(s) + 1, NEW j \in 1 .. Len(s) + 1, i < j
      PROVE  Append(s, e)[i].n < Append(s, e)[j].n
  <2>1. i \in 1 .. Len(s)
    BY <1>1, <1>5
  <2>2. CASE j \in 1 .. Len(s)
    BY <1>4, <1>5, <2>1, <2>2
  <2>3. CASE j = Len(s) + 1
    BY <1>1, <1>3, <2>1, <2>3
  <2> QED BY <1>2, <2>2, <2>3
<1> QED BY <1>1, <1>2, <1>3, <1>5

LEMMA NumberedTail ==
  ASSUME NEW s, Numbered(s), s # <<>>
  PROVE  /\ Numbered(Tail(s)) /\ Head(s) = s[1]
         /\ Len(s) \in Nat \ {0} /\ Len(Tail(s)) = Len(s) - 1
         /\ \A i \in 1 .. Len(Tail(s)) :
              Tail(s)[i] = s[i + 1] /\ i + 1 \in 1 .. Len(s) /\ Tail(s)[i].n > Head(s).n
<1>1. /\ Len(s) \in Nat \ {0} /\ Head(s) = s[1]
      /\ IsSeq(Tail(s)) /\ Len(Tail(s)) = Len(s) - 1
      /\ \A i \in 1 .. Len(s) - 1 : Tail(s)[i] = s[i + 1]
  BY ShorterIs DEF Numbered
<1>2. \A i \in 1 .. Len(Tail(s)) : i + 1 \in 1 .. Len(s) /\ Tail(s)[i] = s[i + 1] /\ 1 < i + 1
  BY <1>1
<1>3. \A i \in 1 .. Len(Tail(s)) : Tail(s)[i].n > Head(s).n
  <2>1. \A i \in 1 .. Len(Tail(s)) : s[1].n < s[i + 1].n
    BY <1>1, <1>2 DEF Numbered
  <2> QED BY <1>1, <1>2, <2>1 DEF Numbered
<1>4. Numbered(Tail(s))
  <2>1. \A i, j \in 1 .. Len(Tail(s)) : i < j => i + 1 < j + 1
    BY <1>1
  <2> QED BY <1>1, <1>2, <2>1 DEF Numbered
<1> QED BY <1>1, <1>2, <1>3, <1>4

LEMMA NumberedRest ==
  ASSUME NEW s, Numbered(s), NEW k \in 1 .. Len(s) + 1
  PROVE  LET t == SubSeq(s, k, Len(s))
         IN /\ Numbered(t)
            /\ \A i \in 1 .. Len(t) : t[i] = s[k + i - 1] /\ k + i - 1 \in 1 .. Len(s)
<1> DEFINE t == SubSeq(s, k, Len(s))
<1>1. /\ IsSeq(t) /\ Len(t) = Len(s) - k + 1
      /\ \A i \in 1 .. Len(t) : t[i] = s[k + i - 1] /\ k + i - 1 \in 1 .. Len(s)
  BY RestIs DEF Numbered
<1>2. Len(s) \in Nat
  BY LengthIs DEF Numbered
<1> HIDE DEF t
<1>3. \A i, j \in 1 .. Len(t) : i < j => k + i - 1 < k + j - 1
  BY <1>1, <1>2
<1>4. Numbered(t)
  BY <1>1, <1>3 DEF Numbered
<1> QED BY <1>1, <1>4 DEF t
-----------------------------------------------------------------------------
(* What was confirmed stays confirmed while the process lives.             *)
LEMMA ConfirmedStays ==
  ASSUME confirms \subseteq confirms', blind \subseteq blind', boot' = boot, NEW p
  PROVE  /\ EverConfirmed(p) => EverConfirmed(p)'
         /\ Confirmed(p) => Confirmed(p)'
BY DEF EverConfirmed, Confirmed

LEMMA OnlyConfirmedStays ==
  ASSUME OnlyConfirmedIsClosed, confirms \subseteq confirms', blind \subseteq blind',
         ordered' = ordered
  PROVE  OnlyConfirmedIsClosed'
BY DEF OnlyConfirmedIsClosed

LEMMA CommandsStart == Init => CommandInv
<1> SUFFICES ASSUME Init PROVE CommandInv
  OBVIOUS
<1>1. /\ presses = 0 /\ offset = 0 /\ boot = 1 /\ updates = <<>> /\ batch = <<>>
      /\ ordered = {}
  BY DEF Init
<1>2. Polling
  BY <1>1, NoneIs DEF Polling, Numbered
<1>3. Backlog /\ InHand
  BY <1>1, NoneIs DEF Backlog, InHand
<1>4. OnlyConfirmedIsClosed
  BY <1>1 DEF OnlyConfirmedIsClosed
<1> QED BY <1>2, <1>3, <1>4 DEF CommandInv

(* A press is the newest update, and a confirmation is one of this life.   *)
LEMMA PressKeeps ==
  ASSUME CommandInv, presses' = presses + 1, NEW m, NEW d,
         updates' = Append(updates, Update(presses', m, d)),
         confirms \subseteq confirms', d.act = "confirm" => <<d.pos, boot>> \in confirms',
         UNCHANGED <<offset, batch, poller, boot, ordered, blind>>
  PROVE  CommandInv'
<1> DEFINE e == Update(presses', m, d)
<1>1. Polling /\ Backlog /\ InHand /\ OnlyConfirmedIsClosed
  BY DEF CommandInv
<1>2. e.n = presses' /\ e.data = d
  BY DEF Update
<1> HIDE DEF e
<1>3. Numbered(updates) /\ Numbered(batch) /\ presses \in Nat /\ boot \in Nat \ {0}
  BY <1>1 DEF Polling
<1>4. /\ IsSeq(updates') /\ Len(updates') = Len(updates) + 1 /\ Len(updates) \in Nat
      /\ \A i \in 1 .. Len(updates) : updates'[i] = updates[i]
      /\ updates'[Len(updates) + 1] = e
      /\ \A i \in 1 .. Len(updates) + 1 : updates'[i].n \in Nat /\ updates'[i].n <= presses'
      /\ \A i, j \in 1 .. Len(updates) + 1 : i < j => updates'[i].n < updates'[j].n
  <2>1. updates' = Append(updates, e)
    BY DEF e
  <2> QED BY <1>2, <1>3, <2>1, NumberedAppend
<1>5. Numbered(updates)'
  BY <1>4 DEF Numbered
<1>6. Numbered(batch)'
  BY <1>3 DEF Numbered
<1>7. Polling'
  BY <1>1, <1>5, <1>6 DEF Polling
<1>8. Backlog'
  <2>1. ASSUME NEW i \in 1 .. Len(updates'), NEW u, u = updates'[i], Asked(u)
        PROVE  /\ EverConfirmed(u.data.pos)'
               /\ poller = "polling" /\ u.n >= offset => Confirmed(u.data.pos)'
    <3>1. CASE i \in 1 .. Len(updates)
      <4>1. updates'[i] = updates[i]
        BY <1>4, <3>1
      <4>2. /\ EverConfirmed(u.data.pos)
            /\ poller = "polling" /\ u.n >= offset => Confirmed(u.data.pos)
        BY <1>1, <2>1, <3>1, <4>1 DEF Backlog
      <4> QED BY <4>2, ConfirmedStays
    <3>2. CASE i = Len(updates) + 1
      <4>1. u = Update(presses', m, d)
        BY <1>4, <2>1, <3>2 DEF e
      <4>2. <<u.data.pos, boot>> \in confirms'
        BY <2>1, <4>1 DEF Asked, Update
      <4>3. PICK p : p = u.data.pos
        OBVIOUS
      <4>4. boot' = boot /\ boot \in 1 .. boot /\ <<p, boot>> \in confirms'
        BY <1>3, <4>2, <4>3
      <4>5. Confirmed(p)' /\ EverConfirmed(p)'
        BY <4>4 DEF Confirmed, EverConfirmed
      <4> QED BY <4>3, <4>5
    <3> QED BY <1>4, <2>1, <3>1, <3>2
  <2> QED BY <2>1 DEF Backlog, Asked, Confirmed, EverConfirmed
<1>9. InHand'
  BY <1>1, ConfirmedStays DEF InHand, Asked
<1>10. OnlyConfirmedIsClosed'
  BY <1>1, OnlyConfirmedStays
<1> QED BY <1>7, <1>8, <1>9, <1>10 DEF CommandInv

LEMMA SkipKeeps == ASSUME CommandInv, SkipBacklog PROVE CommandInv'
<1>1. /\ Polling /\ Backlog /\ InHand /\ OnlyConfirmedIsClosed
      /\ poller = "skipping" /\ poller' = "polling"
      /\ UNCHANGED <<presses, batch, boot, confirms, ordered>>
  BY DEF CommandInv, SkipBacklog
<1>2. /\ batch = <<>> /\ Numbered(updates) /\ IsSeq(updates) /\ Numbered(batch)
      /\ presses \in Nat /\ boot \in Nat \ {0} /\ offset \in Nat
  BY <1>1 DEF Polling, Numbered
<1>3. Len(batch) = 0
  BY <1>2, NoneIs
<1>4. InHand'
  BY <1>1, <1>3 DEF InHand
<1>5. Numbered(batch)'
  BY <1>1, <1>2 DEF Numbered
<1>6. CASE /\ updates' = IF updates = <<>> THEN <<>> ELSE <<Last(updates)>>
           /\ offset' = IF updates = <<>> THEN 0 ELSE Last(updates).n + 1
           /\ blind' = blind
  <2>1. OnlyConfirmedIsClosed'
    BY <1>1, <1>6, OnlyConfirmedStays
  <2>2. CASE updates = <<>>
    <3>1. updates' = updates /\ offset' = 0
      BY <1>6, <2>2
    <3>2. Numbered(updates)'
      BY <1>1, <1>2, <3>1 DEF Numbered
    <3>3. Polling' /\ Backlog'
      BY <1>1, <1>2, <1>3, <1>5, <2>2, <3>1, <3>2, NoneIs DEF Polling, Backlog
    <3> QED BY <1>4, <2>1, <3>3 DEF CommandInv
  <2>3. CASE updates # <<>>
    <3> DEFINE u == updates[Len(updates)]
    <3>1. Len(updates) \in Nat \ {0} /\ Last(updates) = u
      BY <1>2, <2>3, LengthIs DEF Last
    <3>2. u.n \in Nat /\ u.n <= presses /\ (Asked(u) => EverConfirmed(u.data.pos))
      BY <1>1, <1>2, <3>1 DEF Numbered, Backlog
    <3>3. updates' = <<u>> /\ offset' = u.n + 1
      BY <1>6, <2>3, <3>1
    <3> HIDE DEF u
    <3>4. IsSeq(updates') /\ Len(updates') = 1 /\ updates'[1] = u
      BY <3>3, OneIs
    <3>5. Numbered(updates)'
      BY <1>1, <3>2, <3>4 DEF Numbered
    <3>6. Polling'
      BY <1>1, <1>2, <1>3, <1>5, <3>2, <3>3, <3>5 DEF Polling
    <3>7. Backlog'
      <4>1. \A i \in 1 .. Len(updates') : updates'[i] = u
        BY <3>4
      <4>2. \A p : EverConfirmed(p)' <=> EverConfirmed(p)
        BY <1>1 DEF EverConfirmed
      <4>3. ~(u.n >= offset')
        BY <3>2, <3>3
      <4>4. PICK v : v = u
        OBVIOUS
      <4> QED BY <3>2, <4>1, <4>2, <4>3, <4>4 DEF Backlog, Asked, EverConfirmed
    <3> QED BY <1>4, <2>1, <3>6, <3>7 DEF CommandInv
  <2> QED BY <2>2, <2>3
<1>7. CASE /\ blind' = blind \cup {boot}
           /\ UNCHANGED <<updates, offset>>
  <2>1. Polling'
    BY <1>1, <1>2, <1>3, <1>5, <1>7 DEF Polling, Numbered
  <2>2. Backlog'
    BY <1>1, <1>7 DEF Backlog, Asked, Confirmed, EverConfirmed
  <2>3. OnlyConfirmedIsClosed'
    BY <1>1, <1>7, OnlyConfirmedStays
  <2> QED BY <1>4, <2>1, <2>2, <2>3 DEF CommandInv
<1> QED BY <1>6, <1>7 DEF SkipBacklog

LEMMA PollKeeps == ASSUME CommandInv, Poll PROVE CommandInv'
<1>1. /\ Polling /\ Backlog /\ InHand /\ OnlyConfirmedIsClosed
      /\ poller = "polling" /\ batch' = updates'
      /\ UNCHANGED <<presses, offset, poller, boot, confirms, ordered, blind>>
  BY DEF CommandInv, Poll
<1>2. PICK k \in 1 .. Len(updates) + 1 :
        /\ \A i \in 1 .. Len(updates) : i >= k <=> updates[i].n >= offset
        /\ updates' = SubSeq(updates, k, Len(updates))
  BY DEF Poll
<1>3. Numbered(updates) /\ Len(updates) \in Nat
  BY <1>1, LengthIs DEF Polling, Numbered
<1>4. /\ Numbered(updates')
      /\ \A i \in 1 .. Len(updates') :
           updates'[i] = updates[k + i - 1] /\ k + i - 1 \in 1 .. Len(updates)
  BY <1>2, <1>3, NumberedRest
<1>5. Numbered(updates)' /\ Numbered(batch)'
  BY <1>1, <1>4 DEF Numbered
<1>6. ASSUME NEW i \in 1 .. Len(updates')
      PROVE  /\ updates'[i].n >= offset
             /\ Asked(updates'[i]) => Confirmed(updates'[i].data.pos)
  <2>1. updates'[i] = updates[k + i - 1] /\ k + i - 1 \in 1 .. Len(updates)
    BY <1>4
  <2>2. k + i - 1 >= k
    BY <1>2, <1>3, <2>1
  <2>3. updates[k + i - 1].n >= offset
    BY <1>2, <2>1, <2>2
  <2> QED BY <1>1, <2>1, <2>3 DEF Backlog
<1>7. Polling'
  BY <1>1, <1>5, <1>6 DEF Polling
<1>8. \A p : (Confirmed(p) => Confirmed(p)') /\ (Confirmed(p) => EverConfirmed(p)')
  <2>1. boot \in Nat \ {0}
    BY <1>1 DEF Polling
  <2> QED BY <1>1, <2>1 DEF Confirmed, EverConfirmed
<1>9. Backlog' /\ InHand'
  BY <1>1, <1>6, <1>8 DEF Backlog, InHand, Asked
<1>10. OnlyConfirmedIsClosed'
  BY <1>1, OnlyConfirmedStays
<1> QED BY <1>7, <1>9, <1>10 DEF CommandInv

LEMMA HandleKeeps == ASSUME CommandInv, Handle PROVE CommandInv'
<1> DEFINE u == Head(batch)
<1>1. /\ Polling /\ Backlog /\ InHand /\ OnlyConfirmedIsClosed
      /\ batch # <<>> /\ batch' = Tail(batch) /\ offset' = u.n + 1
      /\ HandleStart(u) \/ HandleShow(u) \/ HandleAsk(u) \/ HandleConfirm(u)
      /\ UNCHANGED <<updates, presses, poller, boot, confirms, blind>>
  BY DEF CommandInv, Handle
<1>2. /\ Numbered(Tail(batch)) /\ u = batch[1]
      /\ Len(batch) \in Nat \ {0} /\ Len(Tail(batch)) = Len(batch) - 1
      /\ \A i \in 1 .. Len(Tail(batch)) :
           Tail(batch)[i] = batch[i + 1] /\ i + 1 \in 1 .. Len(batch) /\ Tail(batch)[i].n > u.n
  BY <1>1, NumberedTail DEF Polling
<1>3. /\ u.n \in Nat /\ u.n >= offset /\ (Asked(u) => Confirmed(u.data.pos))
      /\ poller = "polling" /\ offset \in Nat
  <2>1. 1 \in 1 .. Len(batch)
    BY <1>2
  <2> QED BY <1>1, <1>2, <2>1 DEF Polling, Numbered, InHand
<1> HIDE DEF u
<1>4. \A p : Confirmed(p)' <=> Confirmed(p)
  BY <1>1 DEF Confirmed, EverConfirmed
<1>5. \A p : EverConfirmed(p)' <=> EverConfirmed(p)
  BY <1>1 DEF EverConfirmed
<1>6. Polling'
  <2>1. Numbered(updates)' /\ Numbered(batch)'
    BY <1>1, <1>2 DEF Polling, Numbered
  <2>2. \A i \in 1 .. Len(batch') : batch'[i].n >= offset'
    <3>1. \A i \in 1 .. Len(batch') : batch'[i].n \in Nat
      BY <2>1 DEF Numbered
    <3>2. \A i \in 1 .. Len(batch') : batch'[i].n > u.n
      BY <1>1, <1>2
    <3> QED BY <1>1, <1>3, <3>1, <3>2
  <2> QED BY <1>1, <1>3, <2>1, <2>2 DEF Polling
<1>7. Backlog'
  <2>1. \A i \in 1 .. Len(updates) : updates[i].n >= offset' => updates[i].n >= offset
    <3>1. \A i \in 1 .. Len(updates) : updates[i].n \in Nat
      BY <1>1 DEF Polling, Numbered
    <3> QED BY <1>1, <1>3, <3>1
  <2> QED BY <1>1, <1>4, <1>5, <2>1 DEF Backlog, Asked
<1>8. InHand'
  BY <1>1, <1>2, <1>4 DEF InHand, Asked
<1>9. OnlyConfirmedIsClosed'
  <2>1. CASE ordered' = ordered
    BY <1>1, <2>1, OnlyConfirmedStays
  <2>2. CASE ordered' = ordered \cup {<<u.data.pos, boot>>} /\ Asked(u)
    <3>1. PICK o : o = <<u.data.pos, boot>>
      OBVIOUS
    <3>2. o[1] = u.data.pos /\ o[2] = boot /\ o = <<o[1], o[2]>>
      BY <3>1
    <3>3. o \in confirms \/ (o[2] \in blind /\ \E b \in 1 .. o[2] : <<o[1], b>> \in confirms)
      BY <1>3, <2>2, <3>1, <3>2 DEF Confirmed, EverConfirmed
    <3> QED BY <1>1, <2>2, <3>1, <3>3 DEF OnlyConfirmedIsClosed
  <2>3. HandleConfirm(u) => Asked(u)
                            /\ (ordered' = ordered \/ ordered' = ordered \cup {<<u.data.pos, boot>>})
    BY DEF HandleConfirm, Asked, Target
  <2> QED BY <1>1, <2>1, <2>2, <2>3 DEF HandleStart, HandleShow, HandleAsk
<1> QED BY <1>6, <1>7, <1>8, <1>9 DEF CommandInv

(* A crash forgets what was being handled, and a restart begins a life in  *)
(* which nothing was confirmed.                                            *)
LEMMA BotRestartKeeps == ASSUME CommandInv, Crash \/ Boot PROVE CommandInv'
<1>1. /\ Polling /\ Backlog /\ InHand /\ OnlyConfirmedIsClosed
      /\ UNCHANGED <<updates, presses, confirms, ordered, blind>>
      /\ poller' # "polling" /\ boot' \in {boot, boot + 1}
      /\ batch' = <<>> /\ offset' \in {0, offset}
  <2>1. Boot => batch = <<>>
    BY DEF Boot, CommandInv, Polling
  <2> QED BY <2>1 DEF CommandInv, Crash, Boot
<1>2. presses \in Nat /\ boot \in Nat \ {0} /\ offset \in Nat /\ Numbered(updates)
  BY <1>1 DEF Polling
<1>3. IsSeq(batch') /\ Len(batch') = 0
  BY <1>1, NoneIs
<1>4. Polling'
  BY <1>1, <1>2, <1>3 DEF Polling, Numbered
<1>5. \A p : EverConfirmed(p) => EverConfirmed(p)'
  <2>1. \A b \in 1 .. boot : b \in 1 .. boot'
    BY <1>1, <1>2
  <2> QED BY <1>1, <2>1 DEF EverConfirmed
<1>6. Backlog'
  BY <1>1, <1>5 DEF Backlog, Asked
<1>7. InHand'
  BY <1>3 DEF InHand
<1>8. OnlyConfirmedIsClosed'
  BY <1>1, OnlyConfirmedStays
<1> QED BY <1>4, <1>6, <1>7, <1>8 DEF CommandInv

LEMMA CommandsKeep == CommandInv /\ [Next]_vars => CommandInv'
<1> SUFFICES ASSUME CommandInv, [Next]_vars PROVE CommandInv'
  OBVIOUS
<1> DEFINE commands == <<updates, presses, offset, batch, poller, boot, confirms, ordered, blind>>
<1>1. CASE UNCHANGED commands
  BY <1>1 DEF CommandInv, Polling, Numbered, Backlog, InHand, Asked, Confirmed, EverConfirmed,
              OnlyConfirmedIsClosed
<1>2. CASE PressStart
  <2>1. /\ presses' = presses + 1 /\ updates' = Append(updates, Update(presses', 0, Start))
        /\ UNCHANGED <<offset, batch, poller, boot, ordered, blind, confirms>>
    BY <1>2 DEF PressStart
  <2>2. Start.act # "confirm"
    BY DEF Start
  <2> QED BY <2>1, <2>2, PressKeeps
<1>3. CASE PressButton
  <2>1. PICK m \in Messages : \E b \in Buttons(chat[m]) :
          /\ presses' = presses + 1 /\ updates' = Append(updates, Update(presses', m, b))
          /\ confirms' = IF b.act = "confirm" THEN confirms \cup {<<b.pos, boot>>} ELSE confirms
          /\ UNCHANGED <<offset, batch, poller, boot, ordered, blind>>
    BY <1>3 DEF PressButton
  <2>2. PICK b \in Buttons(chat[m]) :
          /\ presses' = presses + 1 /\ updates' = Append(updates, Update(presses', m, b))
          /\ confirms' = IF b.act = "confirm" THEN confirms \cup {<<b.pos, boot>>} ELSE confirms
          /\ UNCHANGED <<offset, batch, poller, boot, ordered, blind>>
    BY <2>1
  <2>3. confirms \subseteq confirms' /\ (b.act = "confirm" => <<b.pos, boot>> \in confirms')
    BY <2>2
  <2> QED BY <2>2, <2>3, PressKeeps
<1>4. CASE Send \/ Edit \/ RefreshLoop \/ Redraw \/ CardAges \/ Alert \/ Alerted \/ Trading
           \/ Viewing
  BY <1>1, <1>4 DEF Send, Edit, RefreshLoop, Redraw, CardAges, Alert, Alerted, Trading, Viewing,
                    botVars
<1>5. CASE UNCHANGED vars
  BY <1>1, <1>5 DEF vars, botVars
<1> QED BY <1>2, <1>3, <1>4, <1>5, SkipKeeps, PollKeeps, HandleKeeps, BotRestartKeeps DEF Next

(* The bot closes only what was confirmed on a prompt that named it, in    *)
(* this life of the process unless its backlog could not be skipped        *)
(* (telegram.py:121-130, 302-314): whatever the list did in between, and   *)
(* with any number of crashes between a press and its handling.            *)
THEOREM ConfirmedOnly == Spec => []OnlyConfirmedIsClosed
<1>1. CommandInv => OnlyConfirmedIsClosed
  BY DEF CommandInv
<1> QED BY <1>1, CommandsStart, CommandsKeep, PTL DEF Spec
-----------------------------------------------------------------------------
(***************************************************************************)
(* The prompt on the card.                                                 *)
(***************************************************************************)

(* The backlog is skipped at every start: without it an update from before *)
(* a restart is handled twice, and a prompt drawn long ago is no longer    *)
(* the newest word on its message.                                         *)
BacklogIsSkipped == "skip" \notin BotFaults

(* All that is still to be handled came after update k.                    *)
Past(k) ==
  /\ k \in Nat /\ k <= presses
  /\ poller = "polling" => \A i \in 1 .. Len(updates) : updates[i].n >= offset => updates[i].n > k
  /\ \A i \in 1 .. Len(batch) : batch[i].n > k

Acts    == {"start", "show", "ask", "confirm"}
Plain   == {"empty", "browse"}
Drawing == {"edit", "closing"}

TapKnown(u) ==
  /\ u.data.act \in Acts
  /\ u.data.act = "start" => u.msg = 0
  /\ u.data.act # "start" => u.msg \in Messages /\ u.n <= lastTap[u.msg]

TapsKnown ==
  /\ \A i \in 1 .. Len(updates) : TapKnown(updates[i])
  /\ \A i \in 1 .. Len(batch) : TapKnown(batch[i])

ChatIs ==
  /\ DOMAIN chat = Messages
  /\ lastTap \in [Messages -> Nat]
  /\ \A m \in Messages : chat[m].kind \in Plain \cup {"none", "prompt"}
  /\ \A m \in Messages : chat[m].kind = "prompt" => Past(chat[m].press)

JobIs ==
  /\ job.step \in Drawing \cup {"none", "send"}
  /\ job.step = "send" => job.view.kind \in Plain
  /\ job.step \in Drawing =>
       /\ job.msg \in Messages
       /\ chat[job.msg].kind = "prompt" => lastTap[job.msg] > chat[job.msg].press
  /\ job.step = "edit" =>
       /\ job.view.kind \in Plain \cup {"prompt"}
       /\ job.view.kind = "prompt" => Past(job.view.press)
       /\ job.view.kind = "prompt" /\ card.msg = job.msg => card.confirming

RedrawIs ==
  /\ DOMAIN redraw = Refreshers
  /\ \A r \in Refreshers : redraw[r] # NoJob => redraw[r].msg \in Messages
                                                /\ redraw[r].view.kind \in Plain

CardIs == \/ card = NoCard
          \/ {"msg", "confirming"} \subseteq DOMAIN card /\ card.msg \in Messages

Idle(m) == /\ \A i \in 1 .. Len(batch) : batch[i].msg # m
           /\ job.step \in Drawing => job.msg # m
Held ==
  \A m \in Messages :
    chat[m].kind = "prompt" /\ lastTap[m] = chat[m].press /\ card.msg = m /\ Idle(m)
    => card.confirming

PromptInv == CommandInv /\ TapsKnown /\ ChatIs /\ JobIs /\ RedrawIs /\ CardIs /\ Held
-----------------------------------------------------------------------------
LEMMA BrowserIs == ASSUME NEW list, NEW i PROVE Browser(list, i).kind \in Plain
BY DEF Browser, Plain

LEMMA PromptIs == ASSUME NEW u PROVE Prompt(u).kind = "prompt" /\ Prompt(u).press = u.n
BY DEF Prompt

LEMMA DrawIs ==
  ASSUME NEW m, NEW v
  PROVE  Draw(m, v).step = "edit" /\ Draw(m, v).msg = m /\ Draw(m, v).view = v
BY DEF Draw

LEMMA TouchedIs ==
  ASSUME NEW m \in Messages, NEW i, NEW c
  PROVE  /\ Touched(m, i, c).msg = m /\ Touched(m, i, c).confirming = c
         /\ {"msg", "confirming"} \subseteq DOMAIN Touched(m, i, c)
BY DEF Touched

LEMMA NothingIs == NoJob.step = "none" /\ NoCard.msg = 0 /\ NoView.kind = "none" /\ 0 \notin Messages
BY DEF NoJob, NoCard, NoView, Messages

LEMMA ButtonIs ==
  ASSUME NEW v, v.kind \in Plain \cup {"none", "prompt"}, NEW b \in Buttons(v)
  PROVE  b.act \in Acts \ {"start"}
<1>1. CASE v.kind = "none"
  BY <1>1 DEF Buttons
<1>2. CASE v.kind = "empty"
  BY <1>2 DEF Buttons, Show, Acts
<1>3. CASE v.kind = "browse"
  BY <1>3 DEF Buttons, Show, Ask, Acts
<1>4. CASE v.kind = "prompt"
  BY <1>4 DEF Buttons, Show, Confirm, Acts
<1> QED BY <1>1, <1>2, <1>3, <1>4 DEF Plain

(* What is over stays over.                                                *)
LEMMA PastStays ==
  ASSUME CommandInv, BacklogIsSkipped, [Next]_vars, NEW k, Past(k)
  PROVE  Past(k)'
<1>1. /\ Polling /\ k \in Nat /\ k <= presses
      /\ poller = "polling" =>
           \A i \in 1 .. Len(updates) : updates[i].n >= offset => updates[i].n > k
      /\ \A i \in 1 .. Len(batch) : batch[i].n > k
  BY DEF CommandInv, Past
<1>2. /\ Numbered(updates) /\ Numbered(batch) /\ presses \in Nat /\ offset \in Nat
      /\ IsSeq(updates) /\ IsSeq(batch)
  BY <1>1 DEF Polling, Numbered
<1>3. CASE UNCHANGED <<updates, presses, offset, batch, poller>>
  BY <1>1, <1>3 DEF Past
<1>4. ASSUME presses' = presses + 1, NEW e, e.n = presses', updates' = Append(updates, e),
             UNCHANGED <<offset, batch, poller>>
      PROVE  Past(k)'
  <2>1. /\ Len(updates') = Len(updates) + 1 /\ Len(updates) \in Nat
        /\ \A i \in 1 .. Len(updates) : updates'[i] = updates[i]
        /\ updates'[Len(updates) + 1] = e
    BY <1>2, <1>4, LongerIs, LengthIs
  <2>2. \A i \in 1 .. Len(updates') : i \in 1 .. Len(updates) \/ updates'[i].n > k
    BY <1>1, <1>2, <1>4, <2>1
  <2> QED BY <1>1, <1>2, <1>4, <2>1, <2>2 DEF Past
<1>5. CASE PressStart
  <2>1. presses' = presses + 1 /\ updates' = Append(updates, Update(presses', 0, Start))
        /\ UNCHANGED <<offset, batch, poller>>
    BY <1>5 DEF PressStart
  <2> QED BY <1>4, <2>1 DEF Update
<1>6. CASE PressButton
  <2>1. PICK m, b : /\ presses' = presses + 1
                    /\ updates' = Append(updates, Update(presses', m, b))
                    /\ UNCHANGED <<offset, batch, poller>>
    BY <1>6 DEF PressButton
  <2> QED BY <1>4, <2>1 DEF Update
<1>7. CASE SkipBacklog
  <2>1. /\ updates' = IF updates = <<>> THEN <<>> ELSE <<Last(updates)>>
        /\ offset' = IF updates = <<>> THEN 0 ELSE Last(updates).n + 1
        /\ presses' = presses /\ batch' = batch
    BY <1>7 DEF SkipBacklog, Fault, BacklogIsSkipped
  <2>2. ASSUME NEW i \in 1 .. Len(updates')
        PROVE  ~(updates'[i].n >= offset')
    <3>1. updates # <<>>
      BY <2>1, <2>2, NoneIs
    <3>2. Len(updates) \in Nat \ {0} /\ updates[Len(updates)].n \in Nat
      BY <1>2, <3>1, LengthIs DEF Numbered
    <3>3. Len(updates') = 1 /\ updates'[1] = Last(updates)
      BY <2>1, <3>1, OneIs
    <3>4. i = 1 /\ offset' = updates'[1].n + 1 /\ updates'[1].n \in Nat
      BY <2>1, <2>2, <3>1, <3>2, <3>3 DEF Last
    <3> QED BY <3>4
  <2> QED BY <1>1, <2>1, <2>2 DEF Past
<1>8. CASE Poll
  <2>1. poller = "polling" /\ batch' = updates' /\ UNCHANGED <<presses, offset, poller>>
    BY <1>8 DEF Poll
  <2>2. PICK j \in 1 .. Len(updates) + 1 :
          /\ \A i \in 1 .. Len(updates) : i >= j <=> updates[i].n >= offset
          /\ updates' = SubSeq(updates, j, Len(updates))
    BY <1>8 DEF Poll
  <2>3. /\ Len(updates) \in Nat
        /\ \A i \in 1 .. Len(updates') :
             updates'[i] = updates[j + i - 1] /\ j + i - 1 \in 1 .. Len(updates)
    BY <1>2, <2>2, NumberedRest, LengthIs
  <2>4. ASSUME NEW i \in 1 .. Len(updates')
        PROVE  updates'[i].n > k
    <3>1. /\ updates'[i] = updates[j + i - 1] /\ j + i - 1 \in 1 .. Len(updates)
          /\ j + i - 1 >= j
      BY <2>2, <2>3
    <3> QED BY <1>1, <2>1, <2>2, <3>1
  <2> QED BY <1>1, <2>1, <2>4 DEF Past
<1>9. CASE Handle
  <2> DEFINE u == Head(batch)
  <2>1. /\ batch # <<>> /\ batch' = Tail(batch) /\ offset' = u.n + 1
        /\ UNCHANGED <<updates, presses, poller>>
    BY <1>9 DEF Handle
  <2>2. /\ u = batch[1] /\ Len(batch) \in Nat \ {0}
        /\ \A i \in 1 .. Len(batch') : batch'[i] = batch[i + 1] /\ i + 1 \in 1 .. Len(batch)
    BY <1>2, <2>1, NumberedTail
  <2>3. u.n \in Nat /\ u.n >= offset /\ poller = "polling"
    BY <1>1, <1>2, <2>1, <2>2 DEF Polling, Numbered
  <2> HIDE DEF u
  <2>4. \A i \in 1 .. Len(updates) : updates[i].n >= offset' => updates[i].n >= offset
    <3>1. \A i \in 1 .. Len(updates) : updates[i].n \in Nat
      BY <1>2 DEF Numbered
    <3> QED BY <1>2, <2>1, <2>3, <3>1
  <2> QED BY <1>1, <2>1, <2>2, <2>3, <2>4 DEF Past
<1>10. CASE Crash \/ Boot
  <2>1. poller' # "polling" /\ presses' = presses /\ (batch' = <<>> \/ batch' = batch)
    BY <1>10 DEF Crash, Boot
  <2>2. \A i \in 1 .. Len(batch') : batch'[i].n > k
    BY <1>1, <2>1, NoneIs
  <2> QED BY <1>1, <2>1, <2>2 DEF Past
<1>11. CASE Send \/ Edit \/ RefreshLoop \/ Redraw \/ CardAges \/ Alert \/ Alerted \/ Trading
            \/ Viewing
  BY <1>3, <1>11 DEF Send, Edit, RefreshLoop, Redraw, CardAges, Alert, Alerted, Trading,
                     Viewing, botVars
<1>12. CASE UNCHANGED vars
  BY <1>3, <1>12 DEF vars, botVars
<1> QED BY <1>5, <1>6, <1>7, <1>8, <1>9, <1>10, <1>11, <1>12 DEF Next
-----------------------------------------------------------------------------
LEMMA PromptStart == Init => PromptInv
<1> SUFFICES ASSUME Init PROVE PromptInv
  OBVIOUS
<1>1. /\ chat = [m \in Messages |-> NoView] /\ lastTap = [m \in Messages |-> 0]
      /\ updates = <<>> /\ batch = <<>> /\ job = NoJob /\ card = NoCard
      /\ redraw = [r \in Refreshers |-> NoJob]
  BY DEF Init
<1>2. CommandInv
  BY CommandsStart
<1>3. TapsKnown
  BY <1>1, NoneIs DEF TapsKnown
<1>4. ChatIs /\ Held
  BY <1>1, NothingIs DEF ChatIs, Held
<1>5. JobIs
  BY <1>1, NothingIs DEF JobIs, Drawing
<1>6. RedrawIs /\ CardIs
  BY <1>1 DEF RedrawIs, CardIs
<1> QED BY <1>2, <1>3, <1>4, <1>5, <1>6 DEF PromptInv

(* Steps that touch neither the chat nor what is about to be drawn.        *)
LEMMA UntouchedKeeps ==
  ASSUME PromptInv, CommandInv', \A k : Past(k) => Past(k)', TapsKnown',
         UNCHANGED <<chat, lastTap, job, redraw, card>>,
         \A m : (\A i \in 1 .. Len(batch') : batch'[i].msg # m)
                => \A i \in 1 .. Len(batch) : batch[i].msg # m
  PROVE  PromptInv'
<1>1. CommandInv /\ TapsKnown /\ ChatIs /\ JobIs /\ RedrawIs /\ CardIs /\ Held
  BY DEF PromptInv
<1>2. ChatIs'
  <2>1. ASSUME NEW m \in Messages, chat[m].kind = "prompt"
        PROVE  Past(chat[m].press)'
    <3>1. PICK k : k = chat[m].press
      OBVIOUS
    <3>2. Past(k)'
      BY <1>1, <2>1, <3>1 DEF ChatIs
    <3> QED BY <3>1, <3>2
  <2> QED BY <1>1, <2>1 DEF ChatIs, Past
<1>3. JobIs'
  <2>1. ASSUME job.step = "edit", job.view.kind = "prompt"
        PROVE  Past(job.view.press)'
    <3>1. PICK k : k = job.view.press
      OBVIOUS
    <3>2. Past(k)'
      BY <1>1, <2>1, <3>1 DEF JobIs
    <3> QED BY <3>1, <3>2
  <2> QED BY <1>1, <2>1 DEF JobIs
<1>4. RedrawIs' /\ CardIs'
  BY <1>1 DEF RedrawIs, CardIs
<1>5. Held'
  BY <1>1 DEF Held, Idle
<1> QED BY <1>2, <1>3, <1>4, <1>5 DEF PromptInv

LEMMA TapsStay ==
  ASSUME TapsKnown, UNCHANGED lastTap,
         \A i \in 1 .. Len(updates') : TapKnown(updates'[i]),
         \A i \in 1 .. Len(batch') : TapKnown(batch'[i])
  PROVE  TapsKnown'
BY DEF TapsKnown, TapKnown

(* A press is newer than every prompt.                                     *)
LEMMA PressStartPrompt ==
  ASSUME PromptInv, CommandInv', \A k : Past(k) => Past(k)', PressStart
  PROVE  PromptInv'
<1> DEFINE e == Update(presses', 0, Start)
<1>1. /\ updates' = Append(updates, e)
      /\ UNCHANGED <<chat, lastTap, job, redraw, card, batch>>
  BY DEF PressStart
<1>2. TapKnown(e)
  BY DEF TapKnown, Update, Start, Acts
<1> HIDE DEF e
<1>3. TapsKnown /\ IsSeq(updates)
  BY DEF PromptInv, CommandInv, Polling, Numbered
<1>4. /\ Len(updates') = Len(updates) + 1 /\ Len(updates) \in Nat
      /\ \A i \in 1 .. Len(updates) : updates'[i] = updates[i]
      /\ updates'[Len(updates) + 1] = e
  BY <1>1, <1>3, LongerIs, LengthIs
<1>5. ASSUME NEW i \in 1 .. Len(updates')
      PROVE  TapKnown(updates'[i])
  <2>1. i \in 1 .. Len(updates) \/ i = Len(updates) + 1
    BY <1>4
  <2>2. PICK u : u = updates'[i]
    OBVIOUS
  <2>3. u = e \/ \E j \in 1 .. Len(updates) : u = updates[j]
    BY <1>4, <2>1, <2>2
  <2>4. TapKnown(u)
    BY <1>2, <1>3, <2>3 DEF TapsKnown
  <2> QED BY <2>2, <2>4
<1>6. TapsKnown'
  BY <1>1, <1>3, <1>5, TapsStay DEF TapsKnown
<1> QED BY <1>1, <1>6, UntouchedKeeps

LEMMA PressButtonPrompt ==
  ASSUME PromptInv, CommandInv', \A k : Past(k) => Past(k)', PressButton
  PROVE  PromptInv'
<1>1. /\ CommandInv /\ TapsKnown /\ ChatIs /\ JobIs /\ RedrawIs /\ CardIs /\ Held
      /\ Numbered(updates) /\ Numbered(batch) /\ IsSeq(updates) /\ presses \in Nat
  BY DEF PromptInv, CommandInv, Polling, Numbered
<1>2. PICK m \in Messages : \E b \in Buttons(chat[m]) :
        /\ presses' = presses + 1
        /\ updates' = Append(updates, Update(presses', m, b))
        /\ lastTap' = [lastTap EXCEPT ![m] = presses']
        /\ UNCHANGED <<chat, job, redraw, card, batch>>
  BY DEF PressButton
<1>3. PICK b \in Buttons(chat[m]) :
        /\ presses' = presses + 1
        /\ updates' = Append(updates, Update(presses', m, b))
        /\ lastTap' = [lastTap EXCEPT ![m] = presses']
        /\ UNCHANGED <<chat, job, redraw, card, batch>>
  BY <1>2
<1>4. PICK e : e = Update(presses', m, b)
  OBVIOUS
<1>5. e.n = presses' /\ e.msg = m /\ e.data.act \in Acts \ {"start"}
  <2>1. b.act \in Acts \ {"start"}
    BY <1>1, ButtonIs DEF ChatIs
  <2> QED BY <1>4, <2>1 DEF Update
<1>6. /\ lastTap' \in [Messages -> Nat] /\ lastTap'[m] = presses'
      /\ \A x \in Messages : x # m => lastTap'[x] = lastTap[x]
      /\ \A x \in Messages : lastTap[x] \in Nat
  BY <1>1, <1>3 DEF ChatIs
<1>7. ASSUME NEW u, TapKnown(u), u.n \in Nat, u.n <= presses
      PROVE  TapKnown(u)'
  BY <1>1, <1>3, <1>6, <1>7 DEF TapKnown
<1>8. TapKnown(e)'
  BY <1>1, <1>3, <1>5, <1>6 DEF TapKnown
<1>9. TapsKnown'
  <2>1. /\ Len(updates') = Len(updates) + 1 /\ Len(updates) \in Nat
        /\ \A i \in 1 .. Len(updates) : updates'[i] = updates[i]
        /\ updates'[Len(updates) + 1] = e
    BY <1>1, <1>3, <1>4, LongerIs, LengthIs
  <2>2. ASSUME NEW i \in 1 .. Len(updates'), NEW u, u = updates'[i]
        PROVE  TapKnown(u)'
    <3>1. i \in 1 .. Len(updates) \/ i = Len(updates) + 1
      BY <2>1
    <3>2. u = e \/ \E j \in 1 .. Len(updates) : u = updates[j]
      BY <2>1, <2>2, <3>1
    <3>3. ASSUME NEW j \in 1 .. Len(updates), u = updates[j]
          PROVE  u.n \in Nat /\ u.n <= presses /\ TapKnown(u)
      <4>1. updates[j].n \in Nat /\ updates[j].n <= presses
        BY <1>1 DEF Numbered
      <4> QED BY <1>1, <3>3, <4>1 DEF TapsKnown
    <3> QED BY <1>7, <1>8, <3>2, <3>3
  <2>3. ASSUME NEW i \in 1 .. Len(batch'), NEW u, u = batch'[i]
        PROVE  TapKnown(u)'
    <3>1. u.n \in Nat /\ u.n <= presses /\ TapKnown(u)
      BY <1>1, <1>3, <2>3 DEF Numbered, TapsKnown
    <3> QED BY <1>7, <3>1
  <2> QED BY <2>2, <2>3 DEF TapsKnown, TapKnown
<1>10. ChatIs'
  <2>1. ASSUME NEW x \in Messages, chat[x].kind = "prompt"
        PROVE  Past(chat[x].press)'
    <3>1. PICK k : k = chat[x].press
      OBVIOUS
    <3>2. Past(k)'
      BY <1>1, <2>1, <3>1 DEF ChatIs
    <3> QED BY <1>3, <3>1, <3>2 DEF Past
  <2> QED BY <1>1, <1>3, <1>6, <2>1 DEF ChatIs
<1>11. JobIs'
  <2>1. ASSUME job.step = "edit", job.view.kind = "prompt"
        PROVE  Past(job.view.press)'
    <3>1. PICK k : k = job.view.press
      OBVIOUS
    <3>2. Past(k)'
      BY <1>1, <2>1, <3>1 DEF JobIs
    <3> QED BY <1>3, <3>1, <3>2 DEF Past
  <2>2. ASSUME job.step \in Drawing, chat[job.msg].kind = "prompt"
        PROVE  lastTap'[job.msg] > chat[job.msg].press
    <3>1. /\ job.msg \in Messages /\ lastTap[job.msg] > chat[job.msg].press
          /\ chat[job.msg].press <= presses /\ chat[job.msg].press \in Nat
      BY <1>1, <2>2 DEF JobIs, ChatIs, Past
    <3> QED BY <1>1, <1>3, <1>6, <3>1
  <2> QED BY <1>1, <1>3, <2>1, <2>2 DEF JobIs
<1>12. RedrawIs' /\ CardIs'
  BY <1>1, <1>3 DEF RedrawIs, CardIs
<1>13. Held'
  <2>1. ASSUME NEW x \in Messages, chat[x].kind = "prompt", lastTap'[x] = chat[x].press
        PROVE  lastTap[x] = chat[x].press
    <3>1. chat[x].press <= presses /\ chat[x].press \in Nat
      BY <1>1, <2>1 DEF ChatIs, Past
    <3>2. x # m
      BY <1>1, <1>3, <1>6, <2>1, <3>1
    <3> QED BY <1>6, <2>1, <3>2
  <2> QED BY <1>1, <1>3, <2>1 DEF Held, Idle
<1> QED BY <1>9, <1>10, <1>11, <1>12, <1>13 DEF PromptInv

LEMMA SkipPrompt ==
  ASSUME PromptInv, CommandInv', \A k : Past(k) => Past(k)', BacklogIsSkipped, SkipBacklog
  PROVE  PromptInv'
<1>1. /\ updates' = IF updates = <<>> THEN <<>> ELSE <<Last(updates)>>
      /\ UNCHANGED <<chat, lastTap, job, redraw, card, batch>>
  BY DEF SkipBacklog, Fault, BacklogIsSkipped
<1>2. TapsKnown /\ IsSeq(updates)
  BY DEF PromptInv, CommandInv, Polling, Numbered
<1>3. ASSUME NEW i \in 1 .. Len(updates')
      PROVE  TapKnown(updates'[i])
  <2>1. updates # <<>>
    BY <1>1, <1>3, NoneIs
  <2>2. Len(updates) \in Nat \ {0} /\ updates' = <<updates[Len(updates)]>>
    BY <1>1, <1>2, <2>1, LengthIs DEF Last
  <2>3. PICK u : u = updates[Len(updates)]
    OBVIOUS
  <2>4. TapKnown(u)
    BY <1>2, <2>2, <2>3 DEF TapsKnown
  <2>5. updates'[i] = u
    <3>1. Len(updates') = 1 /\ updates'[1] = u
      BY <2>2, <2>3, OneIs
    <3> QED BY <1>3, <3>1
  <2> QED BY <2>4, <2>5
<1>4. TapsKnown'
  BY <1>1, <1>2, <1>3, TapsStay DEF TapsKnown
<1> QED BY <1>1, <1>4, UntouchedKeeps

LEMMA PollPrompt ==
  ASSUME PromptInv, CommandInv', \A k : Past(k) => Past(k)', Poll
  PROVE  PromptInv'
<1>1. /\ batch = <<>> /\ batch' = updates'
      /\ UNCHANGED <<chat, lastTap, job, redraw, card>>
  BY DEF Poll
<1>2. TapsKnown /\ Numbered(updates)
  BY DEF PromptInv, CommandInv, Polling
<1>3. PICK k \in 1 .. Len(updates) + 1 : updates' = SubSeq(updates, k, Len(updates))
  BY DEF Poll
<1>4. ASSUME NEW i \in 1 .. Len(updates')
      PROVE  TapKnown(updates'[i])
  <2>1. updates'[i] = updates[k + i - 1] /\ k + i - 1 \in 1 .. Len(updates)
    BY <1>2, <1>3, <1>4, NumberedRest
  <2>2. PICK u : u = updates[k + i - 1]
    OBVIOUS
  <2>3. TapKnown(u)
    BY <1>2, <2>1, <2>2 DEF TapsKnown
  <2> QED BY <2>1, <2>2, <2>3
<1>5. TapsKnown'
  BY <1>1, <1>2, <1>4, TapsStay
<1>6. Len(batch) = 0
  BY <1>1, NoneIs
<1> QED BY <1>1, <1>5, <1>6, UntouchedKeeps

(* The number of a prompt that is on show, or about to be, is past.        *)
LEMMA PromptsArePast ==
  ASSUME PromptInv, \A k : Past(k) => Past(k)'
  PROVE  /\ \A k : \A m \in Messages : chat[m].kind = "prompt" /\ k = chat[m].press => Past(k)'
         /\ \A k : job.step = "edit" /\ job.view.kind = "prompt" /\ k = job.view.press => Past(k)'
BY DEF PromptInv, ChatIs, JobIs

(* A handler touches the card of its message, and what it is about to draw *)
(* there is newer than what the message shows.                             *)
LEMMA HandlePrompt ==
  ASSUME PromptInv, CommandInv', \A k : Past(k) => Past(k)', Handle
  PROVE  PromptInv'
<1>1. /\ CommandInv /\ Polling /\ TapsKnown /\ ChatIs /\ JobIs /\ RedrawIs /\ CardIs /\ Held
      /\ Numbered(batch)
  BY DEF PromptInv, CommandInv, Polling
<1>2. PICK u : u = Head(batch)
  OBVIOUS
<1>3. /\ batch # <<>> /\ job = NoJob /\ batch' = Tail(batch) /\ offset' = u.n + 1
      /\ HandleStart(u) \/ HandleShow(u) \/ HandleAsk(u) \/ HandleConfirm(u)
      /\ UNCHANGED <<chat, updates, presses, redraw, lastTap, poller>>
  BY <1>2 DEF Handle
<1>4. /\ u = batch[1] /\ Len(batch) \in Nat \ {0} /\ Numbered(batch')
      /\ \A i \in 1 .. Len(batch') : batch'[i] = batch[i + 1] /\ i + 1 \in 1 .. Len(batch)
                                     /\ batch'[i].n > u.n
      /\ \A i \in 2 .. Len(batch) : i - 1 \in 1 .. Len(batch') /\ batch'[i - 1] = batch[i]
  <2>1. /\ u = batch[1] /\ Len(batch) \in Nat \ {0} /\ Numbered(batch')
        /\ Len(batch') = Len(batch) - 1
        /\ \A i \in 1 .. Len(batch') : batch'[i] = batch[i + 1] /\ i + 1 \in 1 .. Len(batch)
                                       /\ batch'[i].n > u.n
    BY <1>1, <1>2, <1>3, NumberedTail DEF Numbered
  <2>2. ASSUME NEW i \in 2 .. Len(batch)
        PROVE  i - 1 \in 1 .. Len(batch') /\ batch'[i - 1] = batch[i]
    <3>1. i - 1 \in 1 .. Len(batch') /\ (i - 1) + 1 = i
      BY <2>1, <2>2
    <3> QED BY <2>1, <3>1
  <2> QED BY <2>1, <2>2
<1>5. TapKnown(u) /\ u.n \in Nat /\ u.n <= presses
  <2>1. 1 \in 1 .. Len(batch)
    BY <1>4
  <2>2. batch[1].n \in Nat /\ batch[1].n <= presses /\ TapKnown(batch[1])
    BY <1>1, <2>1 DEF Numbered, TapsKnown
  <2> QED BY <1>4, <2>2
<1>6. TapsKnown'
  <2>1. ASSUME NEW i \in 1 .. Len(batch')
        PROVE  TapKnown(batch'[i])
    <3>1. PICK t : t = batch'[i]
      OBVIOUS
    <3>2. TapKnown(t)
      BY <1>1, <1>4, <3>1 DEF TapsKnown
    <3> QED BY <3>1, <3>2
  <2>2. \A i \in 1 .. Len(updates') : TapKnown(updates'[i])
    BY <1>1, <1>3 DEF TapsKnown
  <2> QED BY <1>1, <1>3, <2>1, <2>2, TapsStay
<1>7. /\ \A k : \A m \in Messages : chat[m].kind = "prompt" /\ k = chat[m].press => Past(k)'
      /\ \A k : \A m \in Messages : chat[m].kind = "prompt" /\ k = chat[m].press => k < u.n /\ k \in Nat
  <2>1. 1 \in 1 .. Len(batch)
    BY <1>4
  <2> QED BY <1>1, <1>4, <2>1, PromptsArePast DEF ChatIs, Past
<1>8. ChatIs'
  <2>1. ASSUME NEW m \in Messages, chat[m].kind = "prompt"
        PROVE  Past(chat[m].press)'
    <3>1. PICK k : k = chat[m].press
      OBVIOUS
    <3> QED BY <1>3, <1>7, <2>1, <3>1 DEF Past
  <2> QED BY <1>1, <1>3, <2>1 DEF ChatIs
<1>9. RedrawIs'
  BY <1>1, <1>3 DEF RedrawIs
<1>10. Past(u.n)'
  <2>1. ASSUME NEW i \in 1 .. Len(updates'), updates'[i].n >= offset'
        PROVE  updates'[i].n > u.n
    <3>1. updates'[i].n \in Nat
      BY <1>1, <1>3, <2>1 DEF Polling, Numbered
    <3> QED BY <1>3, <1>5, <2>1, <3>1
  <2>2. u.n \in Nat /\ u.n <= presses' /\ \A i \in 1 .. Len(batch') : batch'[i].n > u.n
    BY <1>3, <1>4, <1>5
  <2> QED BY <2>1, <2>2 DEF Past
<1>11. CASE HandleStart(u)
  <2>1. /\ u.data.act = "start" /\ card' = card
        /\ job' = [step |-> "send", view |-> Browser(Listed, 0)]
    BY <1>11 DEF HandleStart
  <2>2. job'.step = "send" /\ job'.view.kind \in Plain
    BY <2>1, BrowserIs
  <2>3. JobIs'
    BY <2>2 DEF JobIs, Drawing
  <2>4. CardIs'
    BY <1>1, <2>1 DEF CardIs
  <2>5. ASSUME NEW m \in Messages, chat[m].kind = "prompt", lastTap[m] = chat[m].press,
               card.msg = m, \A i \in 1 .. Len(batch') : batch'[i].msg # m
        PROVE  card.confirming
    <3>1. ASSUME NEW i \in 1 .. Len(batch)
          PROVE  batch[i].msg # m
      <4>1. i = 1 \/ i \in 2 .. Len(batch)
        BY <1>4, <3>1
      <4>2. u.msg # m
        BY <1>5, <2>1, <2>5, NothingIs DEF TapKnown
      <4> QED BY <1>4, <2>5, <4>1, <4>2
    <3> QED BY <1>1, <1>3, <2>5, <3>1, NothingIs DEF Held, Idle, Drawing
  <2>6. Held'
    BY <1>3, <2>1, <2>5 DEF Held, Idle
  <2> QED BY <1>6, <1>8, <1>9, <2>3, <2>4, <2>6 DEF PromptInv
<1>12. ASSUME u.data.act # "start", NEW i, NEW c, card' = Touched(u.msg, i, c),
              job'.step \in Drawing, job'.msg = u.msg,
              job'.step = "edit" =>
                /\ job'.view.kind \in Plain \cup {"prompt"}
                /\ job'.view.kind = "prompt" => job'.view.press = u.n /\ c = TRUE
       PROVE  PromptInv'
  <2>1. u.msg \in Messages /\ u.n <= lastTap[u.msg] /\ lastTap[u.msg] \in Nat
    BY <1>1, <1>5, <1>12 DEF TapKnown, ChatIs
  <2>2. card'.msg = u.msg /\ card'.confirming = c
        /\ {"msg", "confirming"} \subseteq DOMAIN card'
    BY <1>12, <2>1, TouchedIs
  <2>3. CardIs'
    BY <2>1, <2>2 DEF CardIs
  <2>4. ASSUME chat[u.msg].kind = "prompt"
        PROVE  lastTap[u.msg] > chat[u.msg].press
    <3>1. PICK k : k = chat[u.msg].press
      OBVIOUS
    <3>2. k < u.n /\ k \in Nat
      BY <1>7, <2>1, <2>4, <3>1
    <3> QED BY <1>5, <2>1, <3>1, <3>2
  <2>5. ASSUME job'.step = "edit", job'.view.kind = "prompt"
        PROVE  Past(job.view.press)' /\ card'.confirming
    <3>1. PICK k : k = u.n
      OBVIOUS
    <3>2. Past(k)'
      BY <1>10, <1>2, <1>3, <3>1 DEF Past
    <3> QED BY <1>12, <2>2, <2>5, <3>1, <3>2 DEF Past
  <2>6. JobIs'
    BY <1>3, <1>12, <2>1, <2>4, <2>5 DEF JobIs, Drawing
  <2>7. Held'
    BY <1>12, <2>2 DEF Held, Idle
  <2> QED BY <1>6, <1>8, <1>9, <2>3, <2>6, <2>7 DEF PromptInv
<1>13. CASE HandleShow(u)
  <2>1. /\ u.data.act = "show" /\ card' = Touched(u.msg, u.data.idx, FALSE)
        /\ job' = Draw(u.msg, Browser(Listed, u.data.idx))
    BY <1>13 DEF HandleShow
  <2>2. job'.step = "edit" /\ job'.msg = u.msg /\ job'.view.kind \in Plain
    BY <2>1, DrawIs, BrowserIs
  <2> QED BY <1>12, <2>1, <2>2 DEF Drawing, Plain
<1>14. CASE HandleAsk(u)
  <2>1. /\ u.data.act = "ask" /\ card' = Touched(u.msg, u.data.idx, Tracked(u.data.pos))
        /\ job' = Draw(u.msg, IF Tracked(u.data.pos) THEN Prompt(u) ELSE Browser(Listed, 0))
    BY <1>14 DEF HandleAsk
  <2>2. job'.step = "edit" /\ job'.msg = u.msg
    BY <2>1, DrawIs
  <2>3. CASE Tracked(u.data.pos)
    <3>1. job'.view.kind = "prompt" /\ job'.view.press = u.n /\ Tracked(u.data.pos) = TRUE
      BY <2>1, <2>3, DrawIs, PromptIs DEF Tracked
    <3> QED BY <1>12, <2>1, <2>2, <3>1 DEF Drawing
  <2>4. CASE ~Tracked(u.data.pos)
    <3>1. job'.view.kind \in Plain
      BY <2>1, <2>4, DrawIs, BrowserIs
    <3> QED BY <1>12, <2>1, <2>2, <3>1 DEF Drawing, Plain
  <2> QED BY <2>3, <2>4
<1>15. CASE HandleConfirm(u)
  <2>1. u.data.act = "confirm" /\ card' = Touched(u.msg, 0, FALSE)
    BY <1>15 DEF HandleConfirm
  <2>2. CASE job' = [step |-> "closing", msg |-> u.msg, pos |-> Target(u)]
    <3>1. job'.step = "closing" /\ job'.msg = u.msg
      BY <2>2
    <3> QED BY <1>12, <2>1, <3>1 DEF Drawing
  <2>3. CASE job' = Draw(u.msg, Browser(Listed, 0))
    <3>1. job'.step = "edit" /\ job'.msg = u.msg /\ job'.view.kind \in Plain
      BY <2>3, DrawIs, BrowserIs
    <3> QED BY <1>12, <2>1, <3>1 DEF Drawing, Plain
  <2> QED BY <1>15, <2>2, <2>3 DEF HandleConfirm
<1> QED BY <1>3, <1>11, <1>13, <1>14, <1>15

(* What a message shows after a step, and whose prompts are past.          *)
LEMMA ChatGoesOn ==
  ASSUME PromptInv, \A k : Past(k) => Past(k)', lastTap' = lastTap, DOMAIN chat' = Messages,
         \A m \in Messages : \/ chat'[m] = chat[m]
                             \/ chat'[m].kind \in Plain
                             \/ /\ chat'[m].kind = "prompt"
                                /\ \A k : k = chat'[m].press => Past(k)'
  PROVE  ChatIs'
<1>1. ChatIs
  BY DEF PromptInv
<1>2. ASSUME NEW m \in Messages, chat'[m].kind = "prompt"
      PROVE  Past(chat[m].press)'
  <2>1. PICK k : k = chat'[m].press
    OBVIOUS
  <2>2. chat'[m] = chat[m] => Past(k)
    BY <1>1, <1>2, <2>1 DEF ChatIs
  <2>3. Past(k)'
    BY <1>2, <2>1, <2>2 DEF Plain
  <2> QED BY <2>1, <2>3 DEF Past
<1>3. \A m \in Messages : chat'[m].kind \in Plain \cup {"none", "prompt"}
  BY <1>1 DEF ChatIs
<1> QED BY <1>1, <1>2, <1>3 DEF ChatIs

(* The card's message and whether it is confirming are kept by the steps   *)
(* of its clock.                                                           *)
LEMMA CardGoesOn ==
  ASSUME CardIs, card # NoCard, NEW f \in {"aged", "expired"}, NEW x,
         card' = [card EXCEPT ![f] = x]
  PROVE  CardIs' /\ card'.msg = card.msg /\ card'.confirming = card.confirming
BY DEF CardIs

LEMMA SendPrompt ==
  ASSUME PromptInv, CommandInv', \A k : Past(k) => Past(k)', Send
  PROVE  PromptInv'
<1>1. /\ TapsKnown /\ ChatIs /\ JobIs /\ RedrawIs /\ CardIs /\ Held
  BY DEF PromptInv
<1>2. /\ job.step = "send" /\ job' = NoJob /\ UNCHANGED <<updates, batch, lastTap, redraw>>
      /\ \/ UNCHANGED <<chat, card>>
         \/ \E m \in Messages : /\ chat[m] = NoView
                                /\ chat' = [chat EXCEPT ![m] = job.view]
                                /\ card' = Touched(m, 0, FALSE)
  BY DEF Send
<1>3. TapsKnown' /\ RedrawIs'
  BY <1>1, <1>2 DEF TapsKnown, TapKnown, RedrawIs
<1>4. JobIs'
  BY <1>2, NothingIs DEF JobIs, Drawing
<1>5. CASE UNCHANGED <<chat, card>>
  <2>1. ChatIs'
    BY <1>1, <1>2, <1>5, ChatGoesOn DEF ChatIs
  <2>2. Held' /\ CardIs'
    BY <1>1, <1>2, <1>5, NothingIs DEF Held, CardIs, Idle, Drawing
  <2> QED BY <1>3, <1>4, <2>1, <2>2 DEF PromptInv
<1>6. ASSUME NEW m \in Messages, chat' = [chat EXCEPT ![m] = job.view],
             card' = Touched(m, 0, FALSE)
      PROVE  PromptInv'
  <2>1. /\ DOMAIN chat' = Messages /\ chat'[m].kind \in Plain
        /\ \A x \in Messages : x # m => chat'[x] = chat[x]
    BY <1>1, <1>2, <1>6 DEF ChatIs, JobIs
  <2>2. ChatIs'
    BY <1>2, <2>1, ChatGoesOn
  <2>3. card'.msg = m /\ {"msg", "confirming"} \subseteq DOMAIN card'
    BY <1>6 DEF Touched
  <2>4. CardIs'
    BY <2>3 DEF CardIs
  <2>5. Held'
    BY <2>1, <2>3 DEF Held, Plain
  <2> QED BY <1>3, <1>4, <2>2, <2>4, <2>5 DEF PromptInv
<1> QED BY <1>2, <1>5, <1>6

(* A prompt reaches the chat while the card it is for is held; if it does  *)
(* not, its message was pressed after what it shows.                       *)
LEMMA EditPrompt ==
  ASSUME PromptInv, CommandInv', \A k : Past(k) => Past(k)', Edit
  PROVE  PromptInv'
<1>1. /\ TapsKnown /\ ChatIs /\ JobIs /\ RedrawIs /\ CardIs /\ Held
  BY DEF PromptInv
<1>2. /\ job.step = "edit" /\ job' = NoJob /\ UNCHANGED <<updates, batch, lastTap, redraw, card>>
      /\ chat' = chat \/ chat' = [chat EXCEPT ![job.msg] = job.view]
  BY DEF Edit, Edited
<1>3. TapsKnown' /\ RedrawIs' /\ CardIs'
  BY <1>1, <1>2 DEF TapsKnown, TapKnown, RedrawIs, CardIs
<1>4. JobIs'
  BY <1>2, NothingIs DEF JobIs, Drawing
<1>5. job.msg \in Messages /\ job.view.kind \in Plain \cup {"prompt"}
  BY <1>1, <1>2 DEF JobIs, Drawing
<1>6. \A x \in Messages : Idle(x)' /\ x # job.msg => Idle(x)
  BY <1>2 DEF Idle
<1>7. CASE chat' = chat
  <2>1. ChatIs'
    BY <1>1, <1>2, <1>7, ChatGoesOn DEF ChatIs
  <2>2. chat[job.msg].kind = "prompt" => lastTap[job.msg] # chat[job.msg].press
    BY <1>1, <1>2, <1>5 DEF JobIs, Drawing, ChatIs, Past
  <2>3. Held'
    BY <1>1, <1>2, <1>6, <1>7, <2>2 DEF Held
  <2> QED BY <1>3, <1>4, <2>1, <2>3 DEF PromptInv
<1>8. CASE chat' = [chat EXCEPT ![job.msg] = job.view]
  <2>1. /\ DOMAIN chat' = Messages /\ chat'[job.msg] = job.view
        /\ \A x \in Messages : x # job.msg => chat'[x] = chat[x]
    BY <1>1, <1>5, <1>8 DEF ChatIs
  <2>2. \A k : job.view.kind = "prompt" /\ k = job.view.press => Past(k)'
    BY <1>2, PromptsArePast
  <2>3. ChatIs'
    BY <1>2, <1>5, <2>1, <2>2, ChatGoesOn
  <2>4. job.view.kind = "prompt" /\ card.msg = job.msg => card.confirming
    BY <1>1, <1>2 DEF JobIs
  <2>5. Held'
    BY <1>1, <1>2, <1>6, <2>1, <2>4 DEF Held
  <2> QED BY <1>3, <1>4, <2>3, <2>5 DEF PromptInv
<1> QED BY <1>2, <1>7, <1>8

(* A redraw never draws a prompt.                                          *)
LEMMA RedrawPrompt ==
  ASSUME PromptInv, CommandInv', \A k : Past(k) => Past(k)', Redraw
  PROVE  PromptInv'
<1>1. /\ TapsKnown /\ ChatIs /\ JobIs /\ RedrawIs /\ CardIs /\ Held
  BY DEF PromptInv
<1>2. PICK r \in Refreshers :
        /\ redraw[r] # NoJob /\ redraw' = [redraw EXCEPT ![r] = NoJob]
        /\ chat' = chat \/ chat' = [chat EXCEPT ![redraw[r].msg] = redraw[r].view]
        /\ UNCHANGED <<updates, batch, lastTap, job, card>>
  BY DEF Redraw, Edited
<1>3. TapsKnown' /\ RedrawIs' /\ CardIs'
  BY <1>1, <1>2 DEF TapsKnown, TapKnown, RedrawIs, CardIs
<1>4. redraw[r].msg \in Messages /\ redraw[r].view.kind \in Plain
  BY <1>1, <1>2 DEF RedrawIs
<1>5. /\ DOMAIN chat' = Messages
      /\ \A x \in Messages : chat'[x] = chat[x] \/ chat'[x].kind \in Plain
  BY <1>1, <1>2, <1>4 DEF ChatIs
<1>6. ChatIs'
  BY <1>2, <1>5, ChatGoesOn
<1>7. \A x \in Messages : chat'[x].kind = "prompt" => chat'[x] = chat[x]
  BY <1>5 DEF Plain
<1>8. JobIs'
  <2>1. ASSUME job.step = "edit", job.view.kind = "prompt"
        PROVE  Past(job.view.press)'
    <3>1. PICK k : k = job.view.press
      OBVIOUS
    <3>2. Past(k)'
      BY <2>1, <3>1, PromptsArePast
    <3> QED BY <1>2, <3>1, <3>2 DEF Past
  <2> QED BY <1>1, <1>2, <1>7, <2>1 DEF JobIs
<1>9. Held'
  BY <1>1, <1>2, <1>7 DEF Held, Idle
<1> QED BY <1>3, <1>6, <1>8, <1>9 DEF PromptInv

(* The clock of the card, and a redraw that it begins.                     *)
LEMMA CardPrompt ==
  ASSUME PromptInv, CommandInv', \A k : Past(k) => Past(k)',
         RefreshLoop \/ Alerted \/ CardAges
  PROVE  PromptInv'
<1>1. /\ TapsKnown /\ ChatIs /\ JobIs /\ RedrawIs /\ CardIs /\ Held
  BY DEF PromptInv
<1>2. /\ UNCHANGED <<updates, batch, lastTap, chat, job>>
      /\ \/ card' = card /\ redraw' = redraw
         \/ card # NoCard /\ card' = [card EXCEPT !["aged"] = TRUE] /\ redraw' = redraw
         \/ card # NoCard /\ \E r \in Refreshers : BeginRedraw(r)
  BY DEF RefreshLoop, Alerted, CardAges, Redrawable, Refreshers
<1>3. TapsKnown'
  BY <1>1, <1>2 DEF TapsKnown, TapKnown
<1>4. ChatIs'
  BY <1>1, <1>2, ChatGoesOn DEF ChatIs
<1>5. ASSUME CardIs', card' # card => card'.msg = card.msg /\ card'.confirming = card.confirming,
             RedrawIs'
      PROVE  PromptInv'
  <2>1. Held'
    BY <1>1, <1>2, <1>5 DEF Held, Idle
  <2>2. ASSUME job.step = "edit", job.view.kind = "prompt"
        PROVE  Past(job.view.press)'
    <3>1. PICK k : k = job.view.press
      OBVIOUS
    <3>2. Past(k)'
      BY <2>2, <3>1, PromptsArePast
    <3> QED BY <1>2, <3>1, <3>2 DEF Past
  <2>3. JobIs'
    BY <1>1, <1>2, <1>5, <2>2 DEF JobIs
  <2> QED BY <1>3, <1>4, <1>5, <2>1, <2>3 DEF PromptInv
<1>6. CASE card' = card /\ redraw' = redraw
  BY <1>1, <1>5, <1>6 DEF CardIs, RedrawIs
<1>7. CASE card # NoCard /\ card' = [card EXCEPT !["aged"] = TRUE] /\ redraw' = redraw
  <2>1. CardIs' /\ card'.msg = card.msg /\ card'.confirming = card.confirming
    BY <1>1, <1>7, CardGoesOn
  <2>2. RedrawIs'
    BY <1>1, <1>7 DEF RedrawIs
  <2> QED BY <1>5, <2>1, <2>2
<1>8. ASSUME NEW r \in Refreshers, card # NoCard, BeginRedraw(r)
      PROVE  PromptInv'
  <2>1. PICK x : card' = [card EXCEPT !["expired"] = x]
    BY <1>8 DEF BeginRedraw
  <2>2. CardIs' /\ card'.msg = card.msg /\ card'.confirming = card.confirming
    BY <1>1, <1>8, <2>1, CardGoesOn
  <2>3. PICK d : /\ d = Draw(card.msg, Browser(Listed, card.idx))
                 /\ redraw' = [redraw EXCEPT ![r] = d]
    BY <1>8 DEF BeginRedraw
  <2>4. d.msg \in Messages /\ d.view.kind \in Plain
    BY <1>1, <1>8, <2>3, DrawIs, BrowserIs DEF CardIs
  <2>5. RedrawIs'
    BY <1>1, <1>8, <2>3, <2>4 DEF RedrawIs
  <2> QED BY <1>5, <2>2, <2>5
<1> QED BY <1>2, <1>6, <1>7, <1>8

(* The handler of a close that is over goes on to draw the list.           *)
LEMMA TradingPrompt ==
  ASSUME PromptInv, CommandInv', \A k : Past(k) => Past(k)', Trading
  PROVE  PromptInv'
<1>1. /\ TapsKnown /\ ChatIs /\ JobIs /\ RedrawIs /\ CardIs /\ Held
  BY DEF PromptInv
<1>2. /\ UNCHANGED <<updates, batch, lastTap, chat, redraw, card>>
      /\ job' = job \/ (job.step = "closing" /\ job' = Draw(job.msg, Browser(Listed', 0)))
  <2>1. PICK p \in Positions : UNCHANGED job \/ Resumes(p)
    BY DEF Trading
  <2>2. PICK d : d = Draw(job.msg, Browser(Listed', 0))
    OBVIOUS
  <2>3. Resumes(p) => job' = IF job.step = "closing" /\ job.pos = p THEN d ELSE job
    BY <2>2 DEF Resumes
  <2>4. job' = job \/ (job.step = "closing" /\ job' = d)
    BY <2>1, <2>3
  <2>5. UNCHANGED <<updates, batch, lastTap, chat, redraw, card>>
    BY DEF Trading
  <2> QED BY <2>2, <2>4, <2>5
<1>3. TapsKnown' /\ RedrawIs' /\ CardIs'
  BY <1>1, <1>2 DEF TapsKnown, TapKnown, RedrawIs, CardIs
<1>4. ChatIs'
  BY <1>1, <1>2, ChatGoesOn DEF ChatIs
<1>5. CASE job' = job
  <2>1. ASSUME job.step = "edit", job.view.kind = "prompt"
        PROVE  Past(job.view.press)'
    <3>1. PICK k : k = job.view.press
      OBVIOUS
    <3>2. Past(k)'
      BY <2>1, <3>1, PromptsArePast
    <3> QED BY <1>5, <3>1, <3>2 DEF Past
  <2>2. JobIs'
    BY <1>1, <1>2, <1>5, <2>1 DEF JobIs
  <2>3. Held'
    BY <1>1, <1>2, <1>5 DEF Held, Idle
  <2> QED BY <1>3, <1>4, <2>2, <2>3 DEF PromptInv
<1>6. CASE job.step = "closing" /\ job' = Draw(job.msg, Browser(Listed', 0))
  <2>1. PICK l : l = Listed'
    OBVIOUS
  <2>2. job'.step = "edit" /\ job'.msg = job.msg /\ job'.view.kind \in Plain
    BY <1>6, <2>1, DrawIs, BrowserIs
  <2>3. JobIs'
    BY <1>1, <1>2, <1>6, <2>2 DEF JobIs, Drawing, Plain
  <2>4. Held'
    BY <1>1, <1>2, <1>6, <2>2 DEF Held, Idle, Drawing
  <2> QED BY <1>3, <1>4, <2>3, <2>4 DEF PromptInv
<1> QED BY <1>2, <1>5, <1>6

(* A crash forgets the card and everything that was to be drawn.           *)
LEMMA CrashPrompt ==
  ASSUME PromptInv, CommandInv', \A k : Past(k) => Past(k)', Crash
  PROVE  PromptInv'
<1>1. TapsKnown /\ ChatIs
  BY DEF PromptInv
<1>2. /\ batch' = <<>> /\ job' = NoJob /\ card' = NoCard
      /\ redraw' = [r \in Refreshers |-> NoJob]
      /\ UNCHANGED <<updates, lastTap, chat>>
  BY DEF Crash
<1>3. TapsKnown'
  BY <1>1, <1>2, NoneIs DEF TapsKnown, TapKnown
<1>4. ChatIs'
  BY <1>1, <1>2, ChatGoesOn DEF ChatIs
<1>5. JobIs' /\ Held'
  BY <1>2, NothingIs DEF JobIs, Held, Drawing
<1>6. RedrawIs' /\ CardIs'
  BY <1>2 DEF RedrawIs, CardIs
<1> QED BY <1>3, <1>4, <1>5, <1>6 DEF PromptInv

LEMMA PromptKeeps ==
  ASSUME PromptInv, BacklogIsSkipped, [Next]_vars
  PROVE  PromptInv'
<1>1. CommandInv /\ TapsKnown
  BY DEF PromptInv
<1>2. CommandInv'
  BY <1>1, CommandsKeep
<1>3. \A k : Past(k) => Past(k)'
  BY <1>1, PastStays
<1>4. CASE Alert \/ Viewing \/ Boot \/ UNCHANGED vars
  <2>1. UNCHANGED <<chat, lastTap, job, redraw, card, batch, updates>>
    BY <1>4 DEF Alert, Viewing, Boot, vars, botVars
  <2>2. TapsKnown'
    BY <1>1, <2>1 DEF TapsKnown, TapKnown
  <2> QED BY <1>2, <1>3, <2>1, <2>2, UntouchedKeeps
<1>5. CASE PressStart
  BY <1>2, <1>3, <1>5, PressStartPrompt
<1>6. CASE PressButton
  BY <1>2, <1>3, <1>6, PressButtonPrompt
<1>7. CASE SkipBacklog
  BY <1>2, <1>3, <1>7, SkipPrompt
<1>8. CASE Poll
  BY <1>2, <1>3, <1>8, PollPrompt
<1>9. CASE Handle
  BY <1>2, <1>3, <1>9, HandlePrompt
<1>10. CASE Send
  BY <1>2, <1>3, <1>10, SendPrompt
<1>11. CASE Edit
  BY <1>2, <1>3, <1>11, EditPrompt
<1>12. CASE Redraw
  BY <1>2, <1>3, <1>12, RedrawPrompt
<1>13. CASE RefreshLoop \/ Alerted \/ CardAges
  BY <1>2, <1>3, <1>13, CardPrompt
<1>14. CASE Trading
  BY <1>2, <1>3, <1>14, TradingPrompt
<1>15. CASE Crash
  BY <1>2, <1>3, <1>15, CrashPrompt
<1> QED BY <1>4, <1>5, <1>6, <1>7, <1>8, <1>9, <1>10, <1>11, <1>12, <1>13, <1>14, <1>15
        DEF Next

(* PROMPT HOLDS: as long as every restart skips its backlog, no refresh    *)
(* begins of a card that asks whether to close a position while nobody     *)
(* pressed anything on it since the press that brought the prompt          *)
(* (_ask_close and _refresh_card_once, telegram.py:219-246, 266-300):      *)
(* whatever is still on its way to the chat, fails on the way or is        *)
(* handled late.                                                           *)
THEOREM PromptHolds == BacklogIsSkipped => (Spec => []PromptHoldsTheCard)
<1> SUFFICES ASSUME BacklogIsSkipped PROVE Spec => []PromptHoldsTheCard
  OBVIOUS
<1>1. PromptInv => PromptHoldsTheCard
  <2> SUFFICES ASSUME PromptInv, NEW m \in Messages,
                      chat[m].kind = "prompt", lastTap[m] = chat[m].press, card.msg = m,
                      \A u \in Range(batch) : u.msg # m,
                      job.step \in {"edit", "closing"} => job.msg # m
               PROVE  card.confirming
    BY DEF PromptHoldsTheCard
  <2>1. Held
    BY DEF PromptInv
  <2>2. \A i \in 1 .. Len(batch) : batch[i].msg # m
    <3>1. Numbered(batch)
      BY DEF PromptInv, CommandInv, Polling
    <3> QED BY <3>1, RangeIs DEF Numbered
  <2> QED BY <2>1, <2>2 DEF Held, Idle, Drawing
<1>2. PromptInv /\ [Next]_vars => PromptInv'
  BY PromptKeeps
<1> QED BY <1>1, <1>2, PromptStart, PTL DEF Spec
=============================================================================
