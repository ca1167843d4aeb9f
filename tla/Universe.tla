------------------------------- MODULE Universe --------------------------------
(***************************************************************************)
(* The tradable universe (analysis/universe.py): the markets of every      *)
(* exchange ("dex"), loaded one dex after another while headlines are      *)
(* resolved against the last complete load, and the persisted times at     *)
(* which each market was first seen, 0 for those that were there before    *)
(* the bot.  A new market is penalised for its first hours.                *)
(***************************************************************************)
EXTENDS Integers, Sequences, FiniteSets

CONSTANTS
  Markets, Dexes,  \* Dexes: allowed_dexes, in order
  DexOf,
  Early,           \* the markets listed before the bot ran for the first time
  MaxTime,         \* bound: the clock
  UniverseFaults,  \* of "dex", "save", "torn", "crash"
  MaxUniFaults     \* bound: faults of the universe

ASSUME UniverseAssumption ==
  /\ DexOf \in [Markets -> {Dexes[i] : i \in DOMAIN Dexes}]
  /\ Early \subseteq Markets
  /\ {MaxTime, MaxUniFaults} \subseteq Nat

VARIABLES
  now,
  listed,     \* what the exchange lists
  tradable,   \* by_symbol
  firstSeen,  \* _first_seen
  file,       \* LISTING_SEEN_FILE
  ref,        \* the refresh under way
  loaded,     \* history: the markets this process has loaded
  after,      \* history: the markets listed after the history was on file
  uniFaults

uniVars == <<now, listed, tradable, firstSeen, file, ref, loaded, after, uniFaults>>

Unseen   == -1
NothingSeen == [m \in Markets |-> Unseen]
Idle     == [step |-> 0, baseline |-> FALSE, at |-> 0, new |-> {}, ok |-> {},
             changed |-> FALSE]

UniInit ==
  /\ now = 1
  /\ listed = Early
  /\ tradable = {}
  /\ firstSeen = NothingSeen
  /\ file = NothingSeen
  /\ ref = Idle
  /\ loaded = {}
  /\ after = {}
  /\ uniFaults = 0
-----------------------------------------------------------------------------
(* The exchange lists and delists.  Bound: what was listed later stays.    *)
List ==
  \E m \in Markets \ (listed \cup loaded \cup Early) :
    /\ firstSeen[m] = Unseen /\ file[m] = Unseen
    /\ listed' = listed \cup {m}
    /\ after' = IF file = NothingSeen THEN after ELSE after \cup {m}
    /\ UNCHANGED <<now, tradable, firstSeen, file, ref, loaded, uniFaults>>

Delist ==
  \E m \in listed \cap Early :
    /\ listed' = listed \ {m}
    /\ UNCHANGED <<now, tradable, firstSeen, file, ref, loaded, after, uniFaults>>

(* refresh() begins: with nothing ever seen it takes the baseline.         *)
BeginRefresh ==
  /\ ref = Idle
  /\ ref' = [Idle EXCEPT !.step = 1, !.baseline = firstSeen = NothingSeen, !.at = now]
  /\ UNCHANGED <<now, listed, tradable, firstSeen, file, loaded, after, uniFaults>>

OnDex(i) == {m \in listed : DexOf[m] = Dexes[i]}
Fresh(i) == {m \in OnDex(i) : firstSeen[m] = Unseen}

(* The markets of dexes that did not answer are carried over.              *)
CarryNothing(r) == {}                                                \* mutant
CarriedOver(r) == {m \in tradable : DexOf[m] \notin r.ok}

(* A baseline with a dex missing is not kept, or that dex's markets would  *)
(* be taken for new.                                                       *)
KeepPartial(r, seen) == seen                                         \* mutant
Remembered(r, seen) ==
  IF r.baseline /\ \E i \in DOMAIN Dexes : Dexes[i] \notin r.ok THEN NothingSeen ELSE seen

(* After the answer of a dex: on to the next, or the end of the refresh,   *)
(* which runs on without a pause.  The file is written if this refresh saw *)
(* something new; that may fail, silently, and is not tried again.         *)
Continue(r, seen, n) ==
  LET universe == r.new \cup CarriedOver(r)
      kept     == Remembered(r, seen)
  IN IF r.step < Len(Dexes)
     THEN /\ ref' = [r EXCEPT !.step = @ + 1]
          /\ firstSeen' = seen
          /\ uniFaults' = n
          /\ UNCHANGED <<tradable, file, loaded>>
     ELSE /\ ref' = Idle
          /\ firstSeen' = IF universe = {} THEN seen ELSE kept
          /\ IF universe = {} THEN UNCHANGED <<tradable, loaded>>
             ELSE tradable' = universe /\ loaded' = loaded \cup universe
          /\ \/ /\ file' = IF r.changed /\ kept = seen THEN kept ELSE file
                /\ uniFaults' = n
             \/ /\ r.changed /\ kept = seen
                /\ "save" \in UniverseFaults /\ n < MaxUniFaults
                /\ uniFaults' = n + 1
                /\ UNCHANGED file

LoadDex ==
  /\ ref # Idle
  /\ LET fresh == Fresh(ref.step)
     IN Continue([ref EXCEPT !.new = @ \cup OnDex(ref.step), !.ok = @ \cup {Dexes[ref.step]},
                             !.changed = @ \/ fresh # {}],
                 [m \in Markets |-> IF m \notin fresh THEN firstSeen[m]
                                    ELSE IF ref.baseline THEN 0 ELSE ref.at],
                 uniFaults)
  /\ UNCHANGED <<now, listed, after>>

DexFails ==
  /\ ref # Idle
  /\ "dex" \in UniverseFaults /\ uniFaults < MaxUniFaults
  /\ Continue(ref, firstSeen, uniFaults + 1)
  /\ UNCHANGED <<now, listed, after>>

(* The process dies, perhaps while it writes the file, and starts again.   *)
UniRestarts(torn) ==
  /\ torn \/ "crash" \in UniverseFaults
  /\ torn => "torn" \in UniverseFaults /\ ref.step = Len(Dexes)
                /\ (ref.changed \/ Fresh(ref.step) # {})
  /\ uniFaults < MaxUniFaults /\ uniFaults' = uniFaults + 1
  /\ file' = IF torn THEN NothingSeen ELSE file
  /\ firstSeen' = file'
  /\ after' = IF torn THEN {} ELSE after
  /\ tradable' = {}
  /\ ref' = Idle
  /\ loaded' = {}
  /\ UNCHANGED <<now, listed>>

UniNext == List \/ Delist \/ BeginRefresh \/ LoadDex \/ DexFails
-----------------------------------------------------------------------------
(* A market the bot finds at its first complete load is never penalised as *)
(* new, and one listed later is never taken for old: not when a dex fails  *)
(* during the baseline, the file cannot be written, or the process dies.   *)
NewMeansNew ==
  /\ \A m \in Early : firstSeen[m] <= 0
  /\ \A m \in after : firstSeen[m] # 0

(* A market that was tradable once is so as long as the exchange lists it, *)
(* whichever dex fails to answer ("so its symbols don't vanish",           *)
(* universe.py:162-164).                                                   *)
ListedStaysTradable == loaded \cap listed \subseteq tradable
=============================================================================
