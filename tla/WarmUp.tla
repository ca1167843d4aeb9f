-------------------------------- MODULE WarmUp ---------------------------------
(***************************************************************************)
(* What a process makes its judgements from besides the headline, and how  *)
(* it finds it again after a restart (main.py): the store's recent news,   *)
(* filled up from the channels' history, the regime brief, and the capital *)
(* baseline of the dashboard.                                              *)
(*                                                                         *)
(* A post is its channel and the time of it.                               *)
(***************************************************************************)
EXTENDS Requests, FiniteSets, FiniteSetsExt

CONSTANTS
  Channels,
  BackfillDays,   \* regime_backfill_days
  Slack,          \* what the gap is widened by
  MinItems,       \* regime_min_items
  Refresh,        \* regime_refresh_seconds
  Warmup,         \* the loop's first pause: 600 s, at most Refresh
  MaxPosts,       \* bound: posts
  Wallets,        \* spot and the perp account of each dex
  NoValue

ASSUME WarmUpAssumption ==
  /\ {BackfillDays, Refresh, Warmup} \subseteq Nat \ {0}
  /\ {Slack, MinItems, MaxPosts} \subseteq Nat
  /\ Warmup <= Refresh

VARIABLES
  posts,     \* on the channels
  stored,    \* the news of the store
  excused,   \* history: posts that no fetch could reach
  boot,      \* where the process is, what it still saves, and since when it
             \* builds a brief, or when it starts the next one
  brief,     \* when the brief was made, of which news; 0 before the first
  tried,     \* history: when building one last failed or was skipped
  equity,    \* CapitalTracker: starting and current
  file,      \* CAPITAL_BASELINE_FILE
  lost       \* history: the file could not be read or written

warmUpVars == <<posts, stored, excused, boot, brief, tried, equity, file, lost>>
newsVars == <<posts, stored, excused>>
briefVars == <<brief, tried>>
capitalVars == <<equity, file, lost>>

Down == [pc |-> "down", todo |-> {}, at |-> 0]
Nothing == [starting |-> NoValue, current |-> NoValue]

WarmUpInit ==
  /\ posts = {} /\ stored = {} /\ excused = {}
  /\ boot = Down
  /\ brief = 0 /\ tried = 0
  /\ equity = Nothing /\ file = NoValue /\ lost = FALSE

In(pc) == boot.pc = pc
Go(pc, at) == boot' = [Down EXCEPT !.pc = pc, !.at = at]
When(p) == p[2]
-----------------------------------------------------------------------------
Post(ch) ==
  /\ <<ch, now>> \notin posts /\ Cardinality(posts) < MaxPosts
  /\ posts' = posts \cup {<<ch, now>>}
  /\ stored' = IF In("live") \/ In("summary") THEN stored \cup {<<ch, now>>} ELSE stored
  /\ excused' = IF In("save") \/ In("build") THEN excused \cup {<<ch, now>>} ELSE excused
  /\ UNCHANGED <<boot, brief, tried, capitalVars, now, failures>>

(* The latest headline in the store tells how far back to ask.             *)
Gap ==
  IF stored = {} THEN BackfillDays
  ELSE Min({BackfillDays, now - Max({When(p) : p \in stored}) + Slack})

Missed(channels) == {p \in posts : p[1] \in channels /\ When(p) >= now - Gap}

Backfill(channels) ==
  /\ In("down")
  /\ boot' = [pc |-> "save", todo |-> Missed(channels), at |-> now]
  /\ excused' = excused \cup (Missed(Channels \ channels) \ stored)
  /\ IF channels # Channels THEN Fail ELSE UNCHANGED failures
  /\ UNCHANGED <<posts, stored, briefVars, capitalVars, now>>

NewestFirst(todo) == {p \in todo : \A q \in todo : When(q) <= When(p)}      \* mutant
Following(todo) == {p \in todo : \A q \in todo : When(p) <= When(q)}

SavePost ==
  /\ In("save")
  /\ \E p \in Following(boot.todo) :
       /\ stored' = stored \cup {p}
       /\ boot' = [boot EXCEPT !.todo = @ \ {p}]
  /\ UNCHANGED <<posts, excused, briefVars, capitalVars, now, failures>>
-----------------------------------------------------------------------------
(* At the start a brief is built only if the saved one is stale; later, in *)
(* every round of regime_refresh_loop, whose first pause is short.         *)
BriefIsFresh == brief # 0 /\ now - brief <= Refresh

Enough == Cardinality(stored) >= MinItems

StartBuild ==
  /\ In("save") /\ boot.todo = {}
  /\ IF BriefIsFresh \/ ~Enough THEN Go("live", now + Warmup) ELSE Go("build", now)
  /\ tried' = IF BriefIsFresh \/ Enough THEN tried ELSE now
  /\ UNCHANGED <<newsVars, brief, capitalVars, now, failures>>

Built ==
  /\ In("build") \/ In("summary")
  /\ Go("live", now + IF In("build") THEN Warmup ELSE Refresh)
  /\ \/ brief' = now /\ UNCHANGED <<tried, failures>>
     \/ tried' = now /\ Fail /\ UNCHANGED brief
  /\ UNCHANGED <<newsVars, capitalVars, now>>

RefreshRound ==
  /\ In("live") /\ now >= boot.at
  /\ IF Enough THEN Go("summary", now) ELSE Go("live", now + Refresh)
  /\ tried' = IF Enough THEN tried ELSE now
  /\ UNCHANGED <<newsVars, brief, capitalVars, now, failures>>

Stop == boot.pc # "down" /\ Fail /\ boot' = Down

Crash ==
  /\ Stop
  /\ UNCHANGED <<newsVars, briefVars, capitalVars, now>>
-----------------------------------------------------------------------------
(***************************************************************************)
(* The capital tracker.  A reading adds up the wallets that could be read  *)
(* and is none when none could; the first one ever is the baseline.        *)
(***************************************************************************)
SaveBaseline(reading) ==
  \/ file' = reading /\ UNCHANGED <<lost, failures>>
  \/ Fail /\ lost' = TRUE /\ UNCHANGED file

Capture(reading) == equity.starting = NoValue

ReadCapital(wallets) ==
  /\ In("live")
  /\ wallets # {}
  /\ LET reading == [of |-> wallets, at |-> now]
     IN IF Capture(reading)
        THEN equity' = [starting |-> reading, current |-> reading] /\ SaveBaseline(reading)
        ELSE equity' = [equity EXCEPT !.current = reading] /\ UNCHANGED <<file, lost, failures>>
  /\ UNCHANGED <<newsVars, briefVars, boot, now>>

(* The operator takes the last reading as the new baseline.                *)
ResetCapital ==
  /\ In("live")
  /\ equity.current # NoValue
  /\ equity' = [equity EXCEPT !.starting = equity.current]
  /\ SaveBaseline(equity.current)
  /\ UNCHANGED <<newsVars, briefVars, boot, now>>

LoadCapital ==
  /\ In("down")
  /\ Go("live", now)
  /\ \/ equity' = [starting |-> file, current |-> NoValue] /\ UNCHANGED <<lost, failures>>
     \/ equity' = Nothing /\ Fail /\ lost' = TRUE
  /\ UNCHANGED <<newsVars, briefVars, file, now>>
-----------------------------------------------------------------------------
(* A brief takes a minute at most; the pauses end when they are over.      *)
WarmUpTick ==
  /\ now < MaxNow
  /\ (In("build") \/ In("summary")) => now - boot.at < Timeout
  /\ In("live") => now < boot.at
  /\ now' = now + 1
  /\ UNCHANGED <<warmUpVars, failures>>

NewsNext ==
  \/ \E ch \in Channels : Post(ch)
  \/ \E channels \in SUBSET Channels : Backfill(channels)
  \/ SavePost \/ StartBuild \/ Built \/ RefreshRound \/ Crash
  \/ WarmUpTick

CapitalNext ==
  \/ \E wallets \in SUBSET Wallets : ReadCapital(wallets)
  \/ ResetCapital \/ LoadCapital
  \/ Stop /\ UNCHANGED <<newsVars, briefVars, capitalVars, now>>
  \/ now < MaxNow /\ now' = now + 1 /\ UNCHANGED <<warmUpVars, failures>>
-----------------------------------------------------------------------------
(* A process that trades knows what was posted while it was down, however  *)
(* often a start was cut short: "pull the recent channel history the bot   *)
(* missed into the store" (main.py:183).  What was posted between the      *)
(* fetch and the source's connection is the exception.                     *)
NothingMissed ==
  (In("live") \/ In("summary")) =>
    \A p \in posts : When(p) >= now - BackfillDays => p \in stored \cup excused

(* Its brief is at most a round old, and the first pause, unless a round   *)
(* failed or found too little news (main.py:142, main.py:208).             *)
BriefIsCurrent ==
  In("live") => now - Max({brief, tried}) <= Refresh + Warmup

(* The baseline on the disk outlives every restart (main.py:41): it is the *)
(* first reading, or the one the operator set it to, while the file could  *)
(* be read and written.                                                    *)
BaselineSurvives ==
  [][(file \in {file', NoValue}) \/ lost' \/ (file' = equity["current"])]_capitalVars
=============================================================================
