---------------------------------- MODULE Bot ----------------------------------
(***************************************************************************)
(* The Telegram bot (notify/telegram.py): alerts, and commands from the    *)
(* chat.  /start sends a card that browses the open positions, with        *)
(* buttons; one of them asks for a close, a second one confirms it.  The   *)
(* card last touched is redrawn by a loop and after every trade alert.     *)
(* Every call of the bot API lies between two steps, so the book and the   *)
(* chat may change while a card is drawn.                                  *)
(***************************************************************************)
EXTENDS Observers, SequencesExt

CONSTANTS
  MaxMessages,   \* bound: cards in the chat
  MaxPresses,    \* bound: updates from the chat
  MaxBoots,      \* bound: lives of the process
  BotFaults,     \* of "skip", "edit"
  MaxBotFaults   \* bound

ASSUME BotAssumption == {MaxMessages, MaxPresses, MaxBoots, MaxBotFaults} \subseteq Nat

Messages   == 1 .. MaxMessages
Refreshers == {"loop", "notifier"}

VARIABLES
  chat,       \* what each message shows
  updates,    \* the updates Telegram keeps for the bot
  presses,    \* how many there were
  offset,     \* the offset of the next getUpdates, 0 for None
  batch,      \* the updates being handled
  poller,     \* "down", "skipping", "polling"
  job,        \* the update being handled
  card,       \* _card
  redraw,     \* a refresh of the card under way
  alerting,   \* the notifier sends an alert
  boot,
  lastTap,    \* history: the last press on each message
  confirms,   \* history: the closes confirmed, and in which life
  ordered,    \* history: the closes the bot began, and in which life
  blind,      \* history: lives whose backlog was not skipped
  botFaults

botVars == <<chat, updates, presses, offset, batch, poller, job, card, redraw, alerting,
             boot, lastTap, confirms, ordered, blind, botFaults>>
vars == <<observerVars, botVars>>

NoView == [kind |-> "none"]
NoJob  == [step |-> "none"]
NoCard == [msg |-> 0]

Init ==
  /\ ObserversInit
  /\ chat = [m \in Messages |-> NoView]
  /\ updates = <<>>
  /\ presses = 0
  /\ offset = 0
  /\ batch = <<>>
  /\ poller = "skipping"
  /\ job = NoJob
  /\ card = NoCard
  /\ redraw = [r \in Refreshers |-> NoJob]
  /\ alerting = FALSE
  /\ boot = 1
  /\ lastTap = [m \in Messages |-> 0]
  /\ confirms = {}
  /\ ordered = {}
  /\ blind = {}
  /\ botFaults = 0

Fault(f) == f \in BotFaults /\ botFaults < MaxBotFaults /\ botFaults' = botFaults + 1
-----------------------------------------------------------------------------
(* _render_browser: the index wraps around the positions of now.           *)
At(list, idx) == list[(idx % Len(list)) + 1]
Browser(list, idx) ==
  IF list = <<>> THEN [kind |-> "empty"]
  ELSE [kind |-> "browse", idx |-> idx % Len(list), pos |-> At(list, idx), of |-> Len(list)]
Prompt(u) ==
  [kind |-> "prompt", idx |-> u.data.idx, pos |-> u.data.pos, press |-> u.n]

(* The callback data behind the buttons of a message, and the updates that *)
(* carry them.                                                             *)
Start      == [act |-> "start"]
Show(i)    == [act |-> "show", idx |-> i]
Ask(i, p)  == [act |-> "ask", idx |-> i, pos |-> p]
Confirm(p) == [act |-> "confirm", pos |-> p]
Buttons(v) ==
  CASE v.kind = "none"   -> {}
    [] v.kind = "empty"  -> {Show(0)}
    [] v.kind = "browse" -> {Show(v.idx), Show((v.idx + 1) % v.of), Ask(v.idx, v.pos)}
    [] v.kind = "prompt" -> {Show(v.idx), Confirm(v.pos)}

Update(n, m, d) == [n |-> n, msg |-> m, data |-> d]

(* Someone types /start or presses a button of a message.                  *)
PressStart ==
  /\ presses < MaxPresses /\ presses' = presses + 1
  /\ updates' = Append(updates, Update(presses', 0, Start))
  /\ UNCHANGED <<observerVars, chat, offset, batch, poller, job, card, redraw, alerting,
                 boot, lastTap, confirms, ordered, blind, botFaults>>

PressButton ==
  \E m \in Messages : \E b \in Buttons(chat[m]) :
    /\ presses < MaxPresses /\ presses' = presses + 1
    /\ updates' = Append(updates, Update(presses', m, b))
    /\ lastTap' = [lastTap EXCEPT ![m] = presses']
    /\ confirms' = IF b.act = "confirm" THEN confirms \cup {<<b.pos, boot>>} ELSE confirms
    /\ UNCHANGED <<observerVars, chat, offset, batch, poller, job, card, redraw, alerting,
                   boot, ordered, blind, botFaults>>
-----------------------------------------------------------------------------
(***************************************************************************)
(* The command loop.  Telegram forgets the updates below the offset.       *)
(***************************************************************************)
SkipBacklog ==
  /\ poller = "skipping" /\ poller' = "polling"
  /\ \/ /\ updates' = IF updates = <<>> THEN <<>> ELSE <<Last(updates)>>
        /\ offset' = IF updates = <<>> THEN 0 ELSE Last(updates).n + 1
        /\ UNCHANGED <<blind, botFaults>>
     \/ /\ Fault("skip")
        /\ blind' = blind \cup {boot}
        /\ UNCHANGED <<updates, offset>>
  /\ UNCHANGED <<observerVars, chat, presses, batch, job, card, redraw, alerting, boot,
                 lastTap, confirms, ordered>>

Poll ==
  /\ poller = "polling" /\ batch = <<>> /\ job = NoJob
  /\ updates # <<>>
  /\ \E k \in 1 .. Len(updates) + 1 :
       /\ \A i \in 1 .. Len(updates) : i >= k <=> updates[i].n >= offset
       /\ updates' = SubSeq(updates, k, Len(updates))
  /\ batch' = updates'
  /\ UNCHANGED <<observerVars, chat, presses, offset, poller, job, card, redraw, alerting,
                 boot, lastTap, confirms, ordered, blind, botFaults>>

(* _touch_card.                                                            *)
Touched(m, i, confirming) ==
  [msg |-> m, idx |-> i, confirming |-> confirming, aged |-> FALSE, expired |-> FALSE]

Draw(m, view) == [step |-> "edit", msg |-> m, view |-> view]

HandleStart(u) ==
  /\ u.data.act = "start"
  /\ job' = [step |-> "send", view |-> Browser(Listed, 0)]
  /\ UNCHANGED <<observerVars, card, ordered>>

HandleShow(u) ==
  /\ u.data.act = "show"
  /\ card' = Touched(u.msg, u.data.idx, FALSE)
  /\ job' = Draw(u.msg, Browser(Listed, u.data.idx))
  /\ UNCHANGED <<observerVars, ordered>>

HandleAsk(u) ==
  /\ u.data.act = "ask"
  /\ card' = Touched(u.msg, u.data.idx, Tracked(u.data.pos))
  /\ job' = Draw(u.msg, IF Tracked(u.data.pos) THEN Prompt(u) ELSE Browser(Listed, 0))
  /\ UNCHANGED <<observerVars, ordered>>

(* The close is addressed by the id of the position, never by an index.    *)
FirstListed(u) == IF Listed = <<>> THEN u.data.pos ELSE Head(Listed) \* mutant
Target(u)      == u.data.pos

Closable == {p \in Positions : pos[p] = "open"}

(* force_close, unless the position is gone or somebody is closing it.     *)
HandleConfirm(u) ==
  /\ u.data.act = "confirm"
  /\ card' = Touched(u.msg, 0, FALSE)
  /\ IF Target(u) \in Closable
     THEN /\ BeginSell(Target(u))
          /\ ordered' = ordered \cup {<<Target(u), boot>>}
          /\ job' = [step |-> "closing", msg |-> u.msg, pos |-> Target(u)]
          /\ UNCHANGED <<told, viewer, shown>>
     ELSE /\ job' = Draw(u.msg, Browser(Listed, 0))
          /\ UNCHANGED <<observerVars, ordered>>

Handle ==
  /\ batch # <<>> /\ job = NoJob
  /\ LET u == Head(batch)
     IN /\ offset' = u.n + 1
        /\ HandleStart(u) \/ HandleShow(u) \/ HandleAsk(u) \/ HandleConfirm(u)
  /\ batch' = Tail(batch)
  /\ UNCHANGED <<chat, updates, presses, poller, redraw, alerting, boot, lastTap, confirms,
                 blind, botFaults>>

(* sendMessage and editMessageText; when they fail the chat stays as it is.*)
Send ==
  /\ job.step = "send" /\ job' = NoJob
  /\ \/ \E m \in Messages :
          /\ chat[m] = NoView /\ \A k \in 1 .. m - 1 : chat[k] # NoView
          /\ chat' = [chat EXCEPT ![m] = job.view]
          /\ card' = Touched(m, 0, FALSE)
          /\ UNCHANGED botFaults
     \/ /\ \/ Fault("edit")
           \/ (\A m \in Messages : chat[m] # NoView) /\ UNCHANGED botFaults
        /\ UNCHANGED <<chat, card>>
  /\ UNCHANGED <<observerVars, updates, presses, offset, batch, poller, redraw, alerting,
                 boot, lastTap, confirms, ordered, blind>>

Edited(j) ==
  \/ chat' = [chat EXCEPT ![j.msg] = j.view] /\ UNCHANGED botFaults
  \/ Fault("edit") /\ UNCHANGED chat

Edit ==
  /\ job.step = "edit" /\ job' = NoJob
  /\ Edited(job)
  /\ UNCHANGED <<observerVars, updates, presses, offset, batch, poller, card, redraw,
                 alerting, boot, lastTap, confirms, ordered, blind>>
-----------------------------------------------------------------------------
(* _refresh_card_once: not on a prompt; once more when its time is over.   *)
Redrawable == card # NoCard /\ ~card.confirming /\ ~(card.aged /\ card.expired)

BeginRedraw(r) ==
  /\ card' = [card EXCEPT !.expired = card.aged]
  /\ redraw' = [redraw EXCEPT ![r] = Draw(card.msg, Browser(Listed, card.idx))]

RefreshLoop ==
  /\ poller # "down" /\ redraw["loop"] = NoJob
  /\ Redrawable /\ BeginRedraw("loop")
  /\ UNCHANGED <<observerVars, chat, updates, presses, offset, batch, poller, job, alerting,
                 boot, lastTap, confirms, ordered, blind, botFaults>>

Redraw ==
  \E r \in Refreshers :
    /\ redraw[r] # NoJob
    /\ redraw' = [redraw EXCEPT ![r] = NoJob]
    /\ Edited(redraw[r])
    /\ UNCHANGED <<observerVars, updates, presses, offset, batch, poller, job, card, alerting,
                   boot, lastTap, confirms, ordered, blind>>

CardAges ==
  /\ card # NoCard /\ ~card.aged
  /\ card' = [card EXCEPT !.aged = TRUE]
  /\ UNCHANGED <<observerVars, chat, updates, presses, offset, batch, poller, job, redraw,
                 alerting, boot, lastTap, confirms, ordered, blind, botFaults>>

(* The notifier: one event after the other, and the card after each.       *)
Alert ==
  /\ queue["notifier"] # <<>> /\ ~alerting /\ redraw["notifier"] = NoJob
  /\ alerting' = TRUE
  /\ told' = Head(queue["notifier"]).n
  /\ queue' = [queue EXCEPT !["notifier"] = Tail(@)]
  /\ UNCHANGED <<pos, order, published, dropped, viewer, shown, chat, updates, presses,
                 offset, batch, poller, job, card, redraw, boot, lastTap, confirms, ordered,
                 blind, botFaults>>

Alerted ==
  /\ alerting /\ alerting' = FALSE
  /\ IF Redrawable THEN BeginRedraw("notifier") ELSE UNCHANGED <<card, redraw>>
  /\ UNCHANGED <<observerVars, chat, updates, presses, offset, batch, poller, job, boot,
                 lastTap, confirms, ordered, blind, botFaults>>
-----------------------------------------------------------------------------
(* What the rest of the program does to the positions.  The handler of a   *)
(* confirmed close goes on when the close is over.                         *)
Resumes(p) ==
  job' = IF job.step = "closing" /\ job.pos = p
         THEN Draw(job.msg, Browser(Listed', 0)) ELSE job

Trading ==
  /\ poller # "down"
  /\ \E p \in Positions :
       \/ (WriteOpen(p) \/ FinishOpen(p) \/ BeginSell(p) \/ WriteClosed(p)) /\ UNCHANGED job
       \/ (Unfilled(p) \/ FinishSell(p)) /\ Resumes(p)
  /\ UNCHANGED <<told, viewer, shown, chat, updates, presses, offset, batch, poller, card,
                 redraw, alerting, boot, lastTap, confirms, ordered, blind, botFaults>>

Viewing ==
  /\ poller # "down"
  /\ Connect \/ Snapshot \/ SnapshotSent \/ Follow \/ Disconnect
  /\ UNCHANGED botVars

Crash ==
  /\ poller # "down" /\ boot < MaxBoots
  /\ poller' = "down"
  /\ ObserversRestart
  /\ batch' = <<>> /\ offset' = 0
  /\ job' = NoJob /\ card' = NoCard /\ alerting' = FALSE
  /\ redraw' = [r \in Refreshers |-> NoJob]
  /\ UNCHANGED <<chat, updates, presses, boot, lastTap, confirms, ordered, blind, botFaults>>

Boot ==
  /\ poller = "down"
  /\ poller' = "skipping"
  /\ boot' = boot + 1
  /\ UNCHANGED <<observerVars, chat, updates, presses, offset, batch, job, card, redraw,
                 alerting, lastTap, confirms, ordered, blind, botFaults>>

Next == \/ PressStart \/ PressButton \/ SkipBacklog \/ Poll \/ Handle \/ Send \/ Edit
        \/ RefreshLoop \/ Redraw \/ CardAges \/ Alert \/ Alerted
        \/ Trading \/ Viewing \/ Crash \/ Boot

Spec == Init /\ [][Next]_vars
-----------------------------------------------------------------------------
(* The bot closes a position only if its close was confirmed on a prompt   *)
(* that named it, however the list shifted in between, and only if that    *)
(* was done in this life of the process ("a stale close-confirmation       *)
(* callback replaying on reboot would be a money action", telegram.py:122-124) *)
(* - unless the backlog could not be skipped.                              *)
OnlyConfirmedIsClosed ==
  \A o \in ordered :
    \/ o \in confirms
    \/ o[2] \in blind /\ \E b \in 1 .. o[2] : <<o[1], b>> \in confirms

(* While a close is being asked for on the card and nobody pressed         *)
(* anything since, no refresh of the card begins.                          *)
PromptHoldsTheCard ==
  \A m \in Messages :
    /\ chat[m].kind = "prompt" /\ lastTap[m] = chat[m].press
    /\ card.msg = m
    /\ \A u \in Range(batch) : u.msg # m
    /\ job.step \in {"edit", "closing"} => job.msg # m
    => card.confirming
=============================================================================
