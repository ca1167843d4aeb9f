-------------------------------- MODULE Analyst --------------------------------
(***************************************************************************)
(* The analyzer (analysis/analyzer.py) over the universe: headlines are    *)
(* analysed concurrently with each other, with the keep-warm calls of the  *)
(* prompt cache and with the refresh of what the prompts are built from.   *)
(* Every request is repeated on transient errors; a 400 takes the optional *)
(* features out of the request and out of all later ones.  The models of   *)
(* the arena that are not Claude are reached through a provider            *)
(* (analysis/providers/), whose requests carry no such features.           *)
(***************************************************************************)
EXTENDS Universe

CONSTANTS
  Headlines, Options,  \* the optional features: "strict", "effort"
  Attempts,            \* max_retries
  MaxIdle,             \* cache_keepwarm_seconds
  MaxCall,             \* how long a call with its retries may take
  MaxBrief,            \* bound: regime refreshes
  Faults,              \* of "transient", "bad", "garbled"
  MaxFaults            \* bound: faults of the API

ASSUME AnalystAssumption ==
  /\ {Attempts, MaxIdle, MaxCall} \subseteq Nat \ {0}
  /\ "warmer" \notin Headlines

Callers == Headlines \cup {"warmer"}

VARIABLES
  refused,    \* what the API rejects: optional features, "zero" (max_tokens=0)
  brief,      \* regime_context
  allowed,    \* _strict_ok, _effort_ok
  warmKey, usedAt,
  call,       \* the request of each caller
  verdict, second,
  failed,     \* history: the main call of a headline got no usable answer
  hot,        \* the API's prompt cache: when each prefix was last sent
  faults

analystVars == <<refused, brief, allowed, warmKey, usedAt, call, verdict, second, failed,
                 hot, faults>>
vars == <<uniVars, analystVars>>

NoKey  == <<>>
NoCall == [kind |-> "none"]

(* What renders into the cached part of the prompt.                        *)
Prefix(opts) == <<brief, tradable, "strict" \in opts>>
Key == Prefix(allowed)

Main == {"fast", "provider"}

(* The optional features each kind of request carries.                     *)
Optional(kind) ==
  CASE kind \in {"triage", "provider"} -> {}
    [] kind \in {"fast", "smart"}      -> allowed
    [] kind \in {"confirm", "warm"}    -> allowed \cap {"strict"}

Request(kind) ==
  [kind |-> kind, opts |-> Optional(kind), zero |-> kind = "warm", tries |-> 1,
   born |-> now, about |-> IF kind \in {"fast", "warm"} THEN <<brief, tradable>> ELSE <<>>,
   key |-> IF kind = "warm" THEN Key ELSE NoKey]

Sent(c) == <<c.about[1], c.about[2], "strict" \in c.opts>>

Fault(f) == f \in Faults /\ faults < MaxFaults /\ faults' = faults + 1

Init ==
  /\ UniInit
  /\ refused \in SUBSET (Options \cup {"zero"})
  /\ brief = 0
  /\ allowed = Options
  /\ warmKey = NoKey
  /\ usedAt = 0
  /\ call = [p \in Callers |-> NoCall]
  /\ verdict = [h \in Headlines |-> "none"]
  /\ second = [h \in Headlines |-> "none"]
  /\ failed = {}
  /\ hot = <<>>
  /\ faults = 0

Up == tradable # {}
Active(p) == call[p] # NoCall
-----------------------------------------------------------------------------
(***************************************************************************)
(* A headline: triage, the analysis, a stronger model if it is borderline, *)
(* and the skeptic if the gate would enter.                                *)
(***************************************************************************)
Start ==
  \E h \in Headlines, k \in {"triage", "fast", "provider"} :
    /\ Up /\ ~Active(h) /\ verdict[h] = "none"
    /\ call' = [call EXCEPT ![h] = Request(k)]
    /\ UNCHANGED <<uniVars, refused, brief, allowed, warmKey, usedAt, verdict, second,
                   failed, hot, faults>>

Ends(p)    == call' = [call EXCEPT ![p] = NoCall]
Asks(p, k) == call' = [call EXCEPT ![p] = Request(k)]

KeyNow(p)    == Key                                                  \* mutant
WarmedKey(p) == call[p].key

(* What follows a usable answer.                                           *)
AfterTriage(p) ==
  /\ call[p].kind = "triage"
  /\ \/ Asks(p, "fast") /\ UNCHANGED verdict
     \/ Ends(p) /\ verdict' = [verdict EXCEPT ![p] = "filtered"]
  /\ UNCHANGED <<second, warmKey, usedAt>>

AfterAnalysis(p) ==
  /\ call[p].kind \in {"fast", "smart"}
  /\ verdict' = [verdict EXCEPT ![p] = "judged"]
  /\ \/ Ends(p)
     \/ Asks(p, "confirm")
     \/ call[p].kind = "fast" /\ Asks(p, "smart")
  /\ usedAt' = IF call[p].kind = "fast" THEN now ELSE usedAt
  /\ UNCHANGED <<second, warmKey>>

AfterConfirm(p) ==
  /\ call[p].kind = "confirm"
  /\ Ends(p)
  /\ second' = [second EXCEPT ![p] = "given"]
  /\ UNCHANGED <<verdict, warmKey, usedAt>>

AfterWarm(p) ==
  /\ call[p].kind = "warm"
  /\ Ends(p)
  /\ warmKey' = WarmedKey(p)
  /\ usedAt' = now
  /\ UNCHANGED <<verdict, second>>

(* What follows an exception: triage and the skeptic fail open, the fast   *)
(* result is kept if the stronger model fails, and only the main call      *)
(* makes an error of it.                                                   *)
Raised(p) ==
  CASE call[p].kind = "triage" ->
         Asks(p, "fast") /\ UNCHANGED <<verdict, second>>
    [] call[p].kind \in Main ->
         /\ Ends(p)
         /\ verdict' = [verdict EXCEPT ![p] = "error"]
         /\ UNCHANGED second
    [] call[p].kind = "smart" ->
         (Ends(p) \/ Asks(p, "confirm")) /\ UNCHANGED <<verdict, second>>
    [] call[p].kind = "confirm" ->
         /\ Ends(p)
         /\ second' = [second EXCEPT ![p] = "open"]
         /\ UNCHANGED verdict
    [] call[p].kind = "warm" -> Ends(p) /\ UNCHANGED <<verdict, second>>
-----------------------------------------------------------------------------
(***************************************************************************)
(* The answers to a request.                                               *)
(***************************************************************************)
Refuses(c) == refused \cap c.opts # {} \/ (c.zero /\ "zero" \in refused)

(* A request of the fast model leaves its prefix in the API's cache.       *)
Touched(c) ==
  IF c.kind \in {"fast", "warm"}
  THEN [k \in DOMAIN hot \cup {Sent(c)} |->
          IF k # Sent(c) \/ (k \in DOMAIN hot /\ hot[k] > c.born) THEN hot[k] ELSE c.born]
  ELSE hot

Replies ==
  \E p \in Callers :
    /\ Active(p) /\ ~Refuses(call[p])
    /\ hot' = Touched(call[p])
    /\ AfterTriage(p) \/ AfterAnalysis(p) \/ AfterConfirm(p) \/ AfterWarm(p)
    /\ UNCHANGED <<uniVars, refused, brief, allowed, failed, faults>>

ProviderReplies ==
  \E p \in Headlines :
    /\ call[p].kind = "provider"
    /\ Ends(p)
    /\ verdict' = [verdict EXCEPT ![p] = "judged"]
    /\ UNCHANGED <<uniVars, refused, brief, allowed, warmKey, usedAt, second, failed, hot,
                   faults>>

(* The exception leaves the request for good; by a fault, if not because   *)
(* the API rejects a feature.                                              *)
GivesUp(p, byFault) ==
  /\ Raised(p)
  /\ failed' = IF call[p].kind \in Main /\ byFault THEN failed \cup {p} ELSE failed
  /\ UNCHANGED allowed

(* An answer without the tool call that was asked for.                     *)
Garbled ==
  \E p \in Callers :
    /\ Active(p) /\ ~Refuses(call[p])
    /\ call[p].kind \in {"fast", "smart", "confirm"}
    /\ Fault("garbled")
    /\ hot' = Touched(call[p])
    /\ usedAt' = IF call[p].kind = "fast" THEN now ELSE usedAt
    /\ GivesUp(p, TRUE)
    /\ UNCHANGED <<uniVars, refused, brief, warmKey>>

(* Once more, up to max_retries.                                           *)
Again(p) ==
  IF call[p].tries < Attempts
  THEN /\ call' = [call EXCEPT ![p].tries = @ + 1]
       /\ UNCHANGED <<verdict, second, failed, allowed>>
  ELSE GivesUp(p, TRUE)

(* A timeout, a rate limit or a 5xx.                                       *)
Transient ==
  \E p \in Callers :
    /\ Active(p)
    /\ Fault("transient")
    /\ Again(p)
    /\ UNCHANGED <<uniVars, refused, brief, warmKey, usedAt, hot>>

(* A provider's answer without the tool call is asked for again.           *)
EmptyReply ==
  \E p \in Headlines :
    /\ call[p].kind = "provider"
    /\ Fault("garbled")
    /\ Again(p)
    /\ UNCHANGED <<uniVars, refused, brief, warmKey, usedAt, hot>>

(* _without_optional_features: what this request carried is taken out of   *)
(* it, and out of every later one.                                         *)
StillAllowed(p) == call[p].opts \cap allowed                         \* mutant
Strippable(p)   == call[p].opts
Stripped(p) ==
  /\ Strippable(p) # {}
  /\ allowed' = allowed \ Strippable(p)
  /\ call' = [call EXCEPT ![p].opts = {}, ![p].tries = 1]
  /\ UNCHANGED <<verdict, second, failed>>

(* A 400.  The warmer first tries with max_tokens=1.                       *)
BadRequest ==
  \E p \in Callers :
    /\ Active(p)
    /\ IF Refuses(call[p]) THEN UNCHANGED faults ELSE Fault("bad")
    /\ CASE call[p].zero ->
              /\ call' = [call EXCEPT ![p].zero = FALSE, ![p].tries = 1]
              /\ UNCHANGED <<verdict, second, failed, allowed>>
         [] ~call[p].zero -> Stripped(p) \/ (Strippable(p) = {} /\ GivesUp(p, ~Refuses(call[p])))
    /\ UNCHANGED <<uniVars, refused, brief, warmKey, usedAt, hot>>
-----------------------------------------------------------------------------
(* maybe_warm_cache: nothing to do if the prefix is the one last warmed    *)
(* and was used a short time ago.                                          *)
Skips == warmKey = Key /\ now - usedAt < MaxIdle

Warm ==
  /\ Up /\ ~Active("warmer") /\ ~Skips
  /\ Asks("warmer", "warm")
  /\ UNCHANGED <<uniVars, refused, brief, allowed, warmKey, usedAt, verdict, second,
                 failed, hot, faults>>

RefreshRegime ==
  /\ brief < MaxBrief
  /\ brief' = brief + 1
  /\ UNCHANGED <<uniVars, refused, allowed, warmKey, usedAt, call, verdict, second,
                 failed, hot, faults>>

Tick ==
  /\ now < MaxTime
  /\ \A p \in Callers : Active(p) => now - call[p].born < MaxCall
  /\ now' = now + 1
  /\ UNCHANGED <<listed, tradable, firstSeen, file, ref, loaded, after, uniFaults,
                 analystVars>>

Restart ==
  \E torn \in BOOLEAN :
    /\ UniRestarts(torn)
    /\ allowed' = Options
    /\ warmKey' = NoKey
    /\ usedAt' = 0
    /\ call' = [p \in Callers |-> NoCall]
    /\ verdict' = [h \in Headlines |-> IF Active(h) THEN "lost" ELSE verdict[h]]
    /\ UNCHANGED <<refused, brief, second, failed, hot, faults>>

Next == \/ UniNext /\ UNCHANGED analystVars
        \/ Start \/ Replies \/ ProviderReplies \/ Garbled \/ Transient \/ EmptyReply
        \/ BadRequest
        \/ Warm \/ RefreshRegime \/ Tick \/ Restart

Spec == Init /\ [][Next]_vars
-----------------------------------------------------------------------------
(* A headline ends in an error exactly if its main call got no usable      *)
(* answer: neither triage, the stronger model, the skeptic nor a feature   *)
(* the API rejects - for this request or for one sent at the same time -   *)
(* takes a verdict away ("a 400 can never blind the bot", analyzer.py:98), *)
(* and no error passes for a verdict.                                      *)
AnsweredIsJudged ==
  \A h \in Headlines :
    /\ verdict[h] = "error" <=> h \in failed
    /\ second[h] # "none" => verdict[h] \in {"judged", "lost"}

(* When the keep-warm loop finds nothing to do, the prefix the next        *)
(* headline will use is in the API's cache: it was sent less than the idle *)
(* time and one call ago.                                                  *)
PrefixIsHot ==
  Up /\ Skips => Key \in DOMAIN hot /\ now - hot[Key] < MaxIdle + MaxCall
=============================================================================
