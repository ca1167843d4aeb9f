---------------------------- MODULE UniverseProofs ----------------------------
(***************************************************************************)
(* What the universe promises the analyzer, and what the analyzer promises *)
(* the headlines, for every set of markets, exchanges and headlines and    *)
(* every number of listings, faults and restarts.                          *)
(*                                                                         *)
(* No property here is inductive.  That an early market is never penalised *)
(* rests on what a refresh has already seen of it (Baseline) and on the    *)
(* file never being ahead of the memory or behind a baseline (OnFile);     *)
(* that a market stays tradable, on what the refresh under way has already *)
(* taken over (Loading).  That a rejected request blinds nobody rests on   *)
(* what each kind of request says of its headline (Judged); that the       *)
(* prompt cache is hot, on no prefix coming back (Behind), and on which    *)
(* requests under way carry an older one (OldOrSame).                      *)
(***************************************************************************)
EXTENDS Analyst, TLAPS

DexValues == {Dexes[i] : i \in Nat}

UniTypeOK ==
  /\ now \in Nat \ {0}
  /\ listed \in SUBSET Markets
  /\ tradable \in SUBSET Markets
  /\ firstSeen \in [Markets -> Int]
  /\ file \in [Markets -> Int]
  /\ ref \in [step : Nat, baseline : BOOLEAN, at : Nat, new : SUBSET Markets,
              ok : SUBSET DexValues, changed : BOOLEAN]
  /\ loaded \in SUBSET Markets
  /\ after \in SUBSET Markets

(* What a refresh under way has seen.                                      *)
Baseline ==
  ref # Idle =>
    /\ ref.at > 0
    /\ ~ref.baseline => firstSeen # NothingSeen
    /\ ref.baseline =>
         /\ file = NothingSeen
         /\ \A m \in Markets : firstSeen[m] # Unseen => m \in ref.new
         /\ \A m \in Early \cap listed : DexOf[m] \in ref.ok => firstSeen[m] # Unseen

(* Once there is a baseline it holds every market of the first days.       *)
Complete ==
  (ref = Idle \/ ~ref.baseline) /\ firstSeen # NothingSeen =>
    \A m \in Early \cap listed : firstSeen[m] # Unseen

OnFile ==
  /\ firstSeen = NothingSeen => file = NothingSeen
  /\ file = NothingSeen => after = {}
  /\ file # NothingSeen => \A m \in Early \cap listed : file[m] # Unseen
  /\ \A m \in Early : file[m] <= 0
  /\ \A m \in after : file[m] # 0

Loading == \A m \in loaded \cap listed : DexOf[m] \in ref.ok => m \in ref.new

UniInv ==
  /\ UniTypeOK
  /\ Baseline
  /\ Complete
  /\ OnFile
  /\ Loading
  /\ NewMeansNew
  /\ ListedStaysTradable
-----------------------------------------------------------------------------
(* The steps of the analyzer leave the universe alone.                     *)
UniTick == now' = now + 1 /\ UNCHANGED <<listed, tradable, firstSeen, file, ref, loaded, after>>

UniStep == UniNext \/ UniTick \/ (\E torn \in BOOLEAN : UniRestarts(torn)) \/ UNCHANGED uniVars

LEMMA StepOfAnalyst == [Next]_vars => UniStep
<1> SUFFICES ASSUME [Next]_vars PROVE UniStep
  OBVIOUS
<1>1. CASE UniNext
  BY <1>1 DEF UniStep
<1>2. CASE Start
  BY <1>2 DEF UniStep, Start
<1>3. CASE Replies
  BY <1>3 DEF UniStep, Replies
<1>4. CASE ProviderReplies
  BY <1>4 DEF UniStep, ProviderReplies
<1>5. CASE Garbled
  BY <1>5 DEF UniStep, Garbled
<1>6. CASE Transient
  BY <1>6 DEF UniStep, Transient
<1>7. CASE EmptyReply
  BY <1>7 DEF UniStep, EmptyReply
<1>8. CASE BadRequest
  BY <1>8, Zenon DEF UniStep, BadRequest
<1>9. CASE Warm
  BY <1>9 DEF UniStep, Warm
<1>10. CASE RefreshRegime
  BY <1>10 DEF UniStep, RefreshRegime
<1>11. CASE Tick
  BY <1>11, Zenon DEF UniStep, UniTick, Tick
<1>12. CASE Restart
  BY <1>12, Zenon DEF UniStep, Restart
<1>13. CASE UNCHANGED vars
  BY <1>13 DEF UniStep, vars
<1> QED
  BY <1>1, <1>2, <1>3, <1>4, <1>5, <1>6, <1>7, <1>8, <1>9, <1>10, <1>11, <1>12, <1>13 DEF Next

LEMMA UniInitial == Init => UniInv
<1> SUFFICES ASSUME Init PROVE UniInv
  OBVIOUS
<1>1. Early \subseteq Markets
  BY UniverseAssumption
<1>2. /\ now = 1 /\ listed = Early /\ tradable = {} /\ loaded = {} /\ after = {}
      /\ firstSeen = NothingSeen /\ file = NothingSeen /\ ref = Idle
  BY DEF Init, UniInit
<1>3. \A m \in Markets : NothingSeen[m] = -1
  BY DEF NothingSeen, Unseen
<1>4. NothingSeen \in [Markets -> Int]
  BY DEF NothingSeen, Unseen
<1>5. UniTypeOK
  BY <1>1, <1>2, <1>4 DEF UniTypeOK, Idle
<1>6. Baseline /\ Complete
  BY <1>2 DEF Baseline, Complete
<1>7. OnFile
  BY <1>1, <1>2, <1>3 DEF OnFile
<1>8. Loading /\ NewMeansNew /\ ListedStaysTradable
  BY <1>1, <1>2, <1>3 DEF Loading, NewMeansNew, ListedStaysTradable
<1> QED
  BY <1>5, <1>6, <1>7, <1>8 DEF UniInv
-----------------------------------------------------------------------------
(* What holds of a refresh r and of what it has seen, before it goes on.   *)
Rounds == [step : Nat, baseline : BOOLEAN, at : Nat, new : SUBSET Markets,
           ok : SUBSET DexValues, changed : BOOLEAN]

Sound(r, seen) ==
  /\ r \in Rounds
  /\ seen \in [Markets -> Int]
  /\ r.at > 0
  /\ ~r.baseline => /\ seen # NothingSeen
                    /\ \A m \in Early \cap listed : seen[m] # Unseen
  /\ r.baseline => /\ file = NothingSeen
                   /\ \A m \in Markets : seen[m] # Unseen => m \in r.new
                   /\ \A m \in Early \cap listed : DexOf[m] \in r.ok => seen[m] # Unseen
  /\ \A m \in Early : seen[m] <= 0
  /\ \A m \in after : seen[m] # 0
  /\ \A m \in loaded \cap listed : DexOf[m] \in r.ok => m \in r.new

LEMMA AllUnseen == ASSUME NEW seen \in [Markets -> Int], \A m \in Markets : seen[m] = Unseen
                   PROVE  seen = NothingSeen
  BY DEF NothingSeen, Unseen

LEMMA NextStep ==
  ASSUME NEW r \in Rounds, NEW s, s = [r EXCEPT !.step = r.step + 1]
  PROVE  /\ s \in Rounds /\ s.at = r.at /\ s.baseline = r.baseline
         /\ s.new = r.new /\ s.ok = r.ok
  BY DEF Rounds

LEMMA MidRefresh ==
  ASSUME UniInv, Sound(ref', firstSeen'),
         UNCHANGED <<now, listed, after, tradable, file, loaded>>
  PROVE  UniInv'
<1>2. UniTypeOK'
  BY DEF UniInv, UniTypeOK, Rounds, Sound
<1>3. ref' # Idle
  <2>1. ref'.at > 0 /\ ref'.at \in Nat
    BY DEF Sound, Rounds
  <2> QED BY <2>1 DEF Idle
<1>4. Baseline'
  BY DEF Sound, Baseline
<1>5. Complete'
  BY <1>3 DEF Sound, Complete
<1>6. OnFile'
  <2>1. firstSeen' = NothingSeen => file' = NothingSeen
    BY DEF Sound
  <2> QED BY <2>1 DEF UniInv, OnFile
<1>7. Loading'
  BY DEF Sound, Loading
<1>8. NewMeansNew'
  BY DEF Sound, NewMeansNew
<1>9. ListedStaysTradable'
  BY DEF UniInv, ListedStaysTradable
<1> QED
  BY <1>2, <1>4, <1>5, <1>6, <1>7, <1>8, <1>9 DEF UniInv

LEMMA EndRefresh ==
  ASSUME UniInv, NEW r, NEW seen, Sound(r, seen), ref' = Idle,
         NEW universe, universe = r.new \cup CarriedOver(r),
         firstSeen' = IF universe = {} THEN seen ELSE Remembered(r, seen),
         IF universe = {} THEN UNCHANGED <<tradable, loaded>>
         ELSE tradable' = universe /\ loaded' = loaded \cup universe,
         file' = file \/ (Remembered(r, seen) = seen /\ file' = seen),
         UNCHANGED <<now, listed, after>>
  PROVE  UniInv'
<1>1. UniTypeOK /\ Early \subseteq Markets
  BY UniverseAssumption DEF UniInv
<1>2. NothingSeen \in [Markets -> Int] /\ \A m \in Markets : NothingSeen[m] = Unseen
  BY DEF NothingSeen, Unseen
<1>3. /\ seen \in [Markets -> Int] /\ r \in Rounds
      /\ ~r.baseline => seen # NothingSeen
      /\ ~r.baseline => \A m \in Early \cap listed : seen[m] # Unseen
      /\ r.baseline => file = NothingSeen
      /\ r.baseline => \A m \in Markets : seen[m] # Unseen => m \in r.new
      /\ r.baseline => \A m \in Early \cap listed : DexOf[m] \in r.ok => seen[m] # Unseen
      /\ \A m \in Early : seen[m] <= 0
      /\ \A m \in after : seen[m] # 0
      /\ \A m \in loaded \cap listed : DexOf[m] \in r.ok => m \in r.new
  BY DEF Sound
<1>4. Remembered(r, seen) \in {seen, NothingSeen}
  BY DEF Remembered
<1>5. ~r.baseline => Remembered(r, seen) = seen
  BY DEF Remembered
<1>6. ASSUME Remembered(r, seen) # NothingSeen, NEW m \in Early \cap listed
      PROVE  seen[m] # Unseen
  <2>1. CASE ~r.baseline
    BY <2>1, <1>3
  <2>2. CASE r.baseline
    <3>1. \A i \in DOMAIN Dexes : Dexes[i] \in r.ok
      BY <2>2, <1>6 DEF Remembered
    <3>2. DexOf[m] \in {Dexes[i] : i \in DOMAIN Dexes}
      BY <1>1, UniverseAssumption
    <3> QED BY <3>1, <3>2, <2>2, <1>3
  <2> QED BY <2>1, <2>2
<1>7. ASSUME r.baseline, universe = {} PROVE seen = NothingSeen
  <2>1. r.new = {}
    BY <1>7
  <2> QED BY <2>1, <1>7, <1>3, AllUnseen
<1>8. firstSeen' # NothingSeen => firstSeen' = seen /\ Remembered(r, seen) # NothingSeen
  BY <1>3, <1>4, <1>5, <1>7
<1>9. UniTypeOK'
  <2>1. firstSeen' \in [Markets -> Int]
    BY <1>2, <1>3, <1>4
  <2>2. file' \in [Markets -> Int]
    BY <1>1, <1>3 DEF UniTypeOK
  <2>3. universe \in SUBSET Markets
    BY <1>1, <1>3 DEF CarriedOver, UniTypeOK, Rounds
  <2>4. tradable' \in SUBSET Markets /\ loaded' \in SUBSET Markets
    BY <2>3, <1>1 DEF UniTypeOK
  <2> QED BY <1>1, <2>1, <2>2, <2>4 DEF UniTypeOK, Idle
<1>10. Baseline'
  BY DEF Baseline
<1>11. Complete'
  <2>1. ASSUME firstSeen' # NothingSeen, NEW m \in Early \cap listed PROVE firstSeen'[m] # Unseen
    BY <2>1, <1>6, <1>8
  <2> QED BY <2>1 DEF Complete
<1>12. OnFile'
  <2>1. OnFile
    BY DEF UniInv
  <2>2. firstSeen' = NothingSeen => file' = NothingSeen
    <3>1. CASE ~r.baseline
      BY <3>1, <1>3, <1>5
    <3>2. CASE r.baseline /\ file' = file
      BY <3>2, <1>3
    <3>3. CASE r.baseline /\ Remembered(r, seen) = seen /\ file' = seen
      BY <3>3
    <3> QED BY <3>1, <3>2, <3>3
  <2>3. file' = NothingSeen => after' = {}
    BY <2>1, <1>3, <1>5 DEF OnFile
  <2>4. ASSUME file' # NothingSeen, NEW m \in Early \cap listed PROVE file'[m] # Unseen
    <3>1. CASE file' = file
      BY <3>1, <2>4, <2>1 DEF OnFile
    <3>2. CASE Remembered(r, seen) = seen /\ file' = seen
      BY <3>2, <2>4, <1>6
    <3> QED BY <3>1, <3>2
  <2>5. (\A m \in Early : file'[m] <= 0) /\ (\A m \in after : file'[m] # 0)
    BY <2>1, <1>3 DEF OnFile
  <2> QED BY <2>2, <2>3, <2>4, <2>5 DEF OnFile
<1>13. Loading'
  BY DEF Loading, Idle
<1>14. NewMeansNew'
  <2>1. \A m \in Early : NothingSeen[m] <= 0
    BY <1>1, <1>2 DEF Unseen
  <2>2. \A m \in after : NothingSeen[m] # 0
    BY <1>1, <1>2 DEF Unseen, UniTypeOK
  <2>3. firstSeen' \in {seen, NothingSeen}
    BY <1>4
  <2> QED BY <2>1, <2>2, <2>3, <1>3 DEF NewMeansNew
<1>15. ListedStaysTradable'
  <2>1. loaded \cap listed \subseteq tradable
    BY DEF UniInv, ListedStaysTradable
  <2>2. loaded \cap listed \subseteq universe
    BY <2>1, <1>3 DEF CarriedOver
  <2> QED BY <2>1, <2>2 DEF ListedStaysTradable
<1> QED
  BY <1>9, <1>10, <1>11, <1>12, <1>13, <1>14, <1>15 DEF UniInv

LEMMA ContinueKeeps ==
  ASSUME UniInv, NEW r, NEW seen, NEW n, Sound(r, seen), Continue(r, seen, n),
         UNCHANGED <<now, listed, after>>
  PROVE  UniInv'
<1>1. CASE r.step < Len(Dexes)
  <2>1. r \in Rounds /\ ref' = [r EXCEPT !.step = r.step + 1] /\ firstSeen' = seen
    BY <1>1 DEF Continue, Sound
  <2>2. Sound(ref', firstSeen')
    BY <2>1, NextStep DEF Sound
  <2>3. UNCHANGED <<tradable, file, loaded>>
    BY <1>1 DEF Continue
  <2> QED BY <2>2, <2>3, MidRefresh
<1>2. CASE ~(r.step < Len(Dexes))
  <2>1. file' = file \/ (Remembered(r, seen) = seen /\ file' = seen)
    BY <1>2 DEF Continue
  <2> QED BY <1>2, <2>1, EndRefresh DEF Continue
<1> QED BY <1>1, <1>2

(* A dex that answers: what it lists is in the universe and has been seen. *)
LEMMA LoadDexKeeps == UniInv /\ LoadDex => UniInv'
<1> SUFFICES ASSUME UniInv, LoadDex PROVE UniInv'
  OBVIOUS
<1> DEFINE on    == OnDex(ref.step)
           fresh == Fresh(ref.step)
           r     == [ref EXCEPT !.new = ref.new \cup on, !.ok = ref.ok \cup {Dexes[ref.step]},
                                !.changed = ref.changed \/ fresh # {}]
           seen  == [m \in Markets |-> IF m \notin fresh THEN firstSeen[m]
                                      ELSE IF ref.baseline THEN 0 ELSE ref.at]
<1>1. /\ ref \in Rounds /\ ref # Idle /\ firstSeen \in [Markets -> Int]
      /\ listed \subseteq Markets /\ Early \subseteq Markets
      /\ after \subseteq Markets /\ loaded \subseteq Markets
  BY UniverseAssumption DEF UniInv, UniTypeOK, Rounds, LoadDex
<1>2. /\ \A m \in Markets : m \in fresh <=> m \in on /\ firstSeen[m] = Unseen
      /\ on \subseteq listed
      /\ \A m \in listed : m \in on <=> DexOf[m] = Dexes[ref.step]
  BY <1>1 DEF OnDex, Fresh
<1>3. /\ r.at = ref.at /\ r.baseline = ref.baseline /\ r.new = ref.new \cup on
      /\ r.ok = ref.ok \cup {Dexes[ref.step]}
  BY <1>1 DEF Rounds
<1>4. ref.at > 0 /\ ref.at \in Nat /\ ref.baseline \in BOOLEAN
  BY <1>1 DEF UniInv, Baseline, Rounds
<1>5. /\ seen \in [Markets -> Int]
      /\ \A m \in Markets : m \notin fresh => seen[m] = firstSeen[m]
      /\ \A m \in Markets : m \in fresh => seen[m] # Unseen
      /\ \A m \in Markets : m \in fresh /\ ref.baseline => seen[m] = 0
      /\ \A m \in Markets : m \in fresh /\ ~ref.baseline => seen[m] > 0
  BY <1>1, <1>4 DEF Unseen
<1>6. r \in Rounds
  <2>1. Dexes[ref.step] \in DexValues
    BY <1>1 DEF DexValues, Rounds
  <2>2. on \in SUBSET Markets
    BY <1>1, <1>2
  <2>3. (ref.changed \/ fresh # {}) \in BOOLEAN
    OBVIOUS
  <2> HIDE DEF on, fresh
  <2> QED BY <1>1, <2>1, <2>2, <2>3 DEF Rounds
<1>7. Continue(r, seen, uniFaults) /\ UNCHANGED <<now, listed, after>>
  BY DEF LoadDex
<1> HIDE DEF on, fresh, r, seen
<1>8. \A m \in Markets : firstSeen[m] # Unseen => seen[m] = firstSeen[m]
  BY <1>2, <1>5
<1>9. ASSUME ~ref.baseline
      PROVE  seen # NothingSeen /\ \A m \in Early \cap listed : seen[m] # Unseen
  <2>1. \A m \in Early \cap listed : firstSeen[m] # Unseen
    BY <1>1, <1>9 DEF UniInv, Baseline, Complete
  <2>2. PICK m \in Markets : firstSeen[m] # Unseen
    BY <1>1, <1>9, AllUnseen DEF UniInv, Baseline
  <2>3. seen[m] # Unseen /\ NothingSeen[m] = Unseen
    BY <2>2, <1>8 DEF NothingSeen
  <2> QED BY <2>1, <2>3, <1>1, <1>8
<1>10. ASSUME ref.baseline
       PROVE  /\ file = NothingSeen
              /\ \A m \in Markets : seen[m] # Unseen => m \in r.new
              /\ \A m \in Early \cap listed : DexOf[m] \in r.ok => seen[m] # Unseen
  <2>1. /\ file = NothingSeen
        /\ \A m \in Markets : firstSeen[m] # Unseen => m \in ref.new
        /\ \A m \in Early \cap listed : DexOf[m] \in ref.ok => firstSeen[m] # Unseen
    BY <1>1, <1>10 DEF UniInv, Baseline
  <2> QED BY <2>1, <1>1, <1>2, <1>3, <1>5
<1>11. \A m \in Early : seen[m] <= 0
  <2> SUFFICES ASSUME NEW m \in Early PROVE seen[m] <= 0
    OBVIOUS
  <2>1. firstSeen[m] <= 0
    BY DEF UniInv, NewMeansNew
  <2>2. CASE m \notin fresh
    BY <2>1, <2>2, <1>1, <1>5
  <2>3. CASE m \in fresh /\ ref.baseline
    BY <2>3, <1>1, <1>5
  <2>4. CASE m \in fresh /\ ~ref.baseline
    BY <2>4, <1>1, <1>2 DEF UniInv, Baseline, Complete
  <2> QED BY <2>2, <2>3, <2>4
<1>12. \A m \in after : seen[m] # 0
  <2> SUFFICES ASSUME NEW m \in after PROVE seen[m] # 0
    OBVIOUS
  <2>1. firstSeen[m] # 0 /\ ~ref.baseline
    BY <1>1 DEF UniInv, NewMeansNew, Baseline, OnFile
  <2> QED BY <2>1, <1>1, <1>5
<1>13. \A m \in loaded \cap listed : DexOf[m] \in r.ok => m \in r.new
  BY <1>2, <1>3 DEF UniInv, Loading
<1>14. Sound(r, seen)
  BY <1>3, <1>4, <1>5, <1>6, <1>9, <1>10, <1>11, <1>12, <1>13 DEF Sound
<1> QED
  BY <1>7, <1>14, ContinueKeeps

(* A dex that does not answer leaves what was seen as it was.              *)
LEMMA DexFailsKeeps == UniInv /\ DexFails => UniInv'
<1> SUFFICES ASSUME UniInv, DexFails PROVE UniInv'
  OBVIOUS
<1>1. ref \in Rounds /\ ref # Idle /\ firstSeen \in [Markets -> Int]
  BY DEF UniInv, UniTypeOK, Rounds, DexFails
<1>2. Sound(ref, firstSeen)
  BY <1>1 DEF UniInv, Baseline, Complete, NewMeansNew, Loading, Sound
<1> QED
  BY <1>2, ContinueKeeps DEF DexFails

LEMMA ListKeeps == UniInv /\ List => UniInv'
<1> SUFFICES ASSUME UniInv, NEW m \in Markets \ (listed \cup loaded \cup Early),
                    firstSeen[m] = Unseen /\ file[m] = Unseen,
                    listed' = listed \cup {m},
                    after' = IF file = NothingSeen THEN after ELSE after \cup {m},
                    UNCHANGED <<now, tradable, firstSeen, file, ref, loaded>>
             PROVE  UniInv'
  BY DEF List
<1>1. UniTypeOK' /\ Baseline' /\ Complete' /\ OnFile'
  BY DEF UniInv, UniTypeOK, Baseline, Complete, OnFile, Unseen
<1>2. Loading' /\ NewMeansNew' /\ ListedStaysTradable'
  BY DEF UniInv, Loading, NewMeansNew, ListedStaysTradable, Unseen
<1> QED
  BY <1>1, <1>2 DEF UniInv

LEMMA RestartKeeps == ASSUME UniInv, NEW torn \in BOOLEAN, UniRestarts(torn) PROVE UniInv'
<1>1. /\ firstSeen' = file' /\ tradable' = {} /\ ref' = Idle /\ loaded' = {}
      /\ now' = now /\ listed' = listed
      /\ \/ file' = file /\ after' = after
         \/ file' = NothingSeen /\ after' = {}
  BY DEF UniRestarts
<1>2. NothingSeen \in [Markets -> Int] /\ \A m \in Early : NothingSeen[m] <= 0
  BY UniverseAssumption DEF NothingSeen, Unseen
<1>3. Idle \in Rounds
  BY DEF Idle, Rounds
<1>4. UniTypeOK'
  BY <1>1, <1>2, <1>3 DEF UniInv, UniTypeOK, Rounds
<1>5. OnFile'
  BY <1>1, <1>2 DEF UniInv, OnFile
<1>6. Baseline' /\ Complete' /\ NewMeansNew'
  BY <1>1, <1>5 DEF Baseline, Complete, NewMeansNew, OnFile
<1>7. Loading' /\ ListedStaysTradable'
  BY <1>1 DEF Loading, ListedStaysTradable
<1> QED
  BY <1>4, <1>5, <1>6, <1>7 DEF UniInv

LEMMA BeginKeeps == UniInv /\ BeginRefresh => UniInv'
<1> SUFFICES ASSUME UniInv, BeginRefresh PROVE UniInv'
  OBVIOUS
<1>1. /\ ref' \in Rounds /\ ref'.at = now /\ ref'.new = {} /\ ref'.ok = {}
      /\ ref'.baseline = (firstSeen = NothingSeen)
      /\ ref = Idle /\ now \in Nat \ {0}
      /\ UNCHANGED <<now, listed, tradable, firstSeen, file, loaded, after>>
  BY DEF BeginRefresh, Idle, Rounds, UniInv, UniTypeOK
<1>2. UniTypeOK'
  BY <1>1 DEF UniInv, UniTypeOK, Rounds
<1>3. \A m \in Markets : NothingSeen[m] = Unseen
  BY DEF NothingSeen
<1>4. Baseline'
  <2>1. firstSeen = NothingSeen => file = NothingSeen /\ \A m \in Markets : firstSeen[m] = Unseen
    BY <1>3 DEF UniInv, OnFile
  <2>2. ref'.at > 0 /\ (~ref'.baseline => firstSeen' # NothingSeen')
    <3>1. now > 0
      BY <1>1
    <3>2. ~ref'.baseline => firstSeen # NothingSeen
      BY <1>1
    <3> QED BY <1>1, <3>1, <3>2 DEF NothingSeen, Unseen
  <2>3. ASSUME ref'.baseline
        PROVE  /\ file' = NothingSeen'
               /\ \A m \in Markets : firstSeen'[m] # Unseen => m \in ref'.new
               /\ \A m \in Early \cap listed' : DexOf[m] \in ref'.ok => firstSeen'[m] # Unseen
    BY <1>1, <2>1, <2>3 DEF NothingSeen
  <2> HIDE DEF NothingSeen
  <2> QED BY <2>2, <2>3 DEF Baseline
<1>5. Complete' /\ OnFile'
  BY <1>1 DEF UniInv, Complete, OnFile
<1>6. Loading' /\ NewMeansNew' /\ ListedStaysTradable'
  BY <1>1 DEF UniInv, Loading, NewMeansNew, ListedStaysTradable
<1> QED
  BY <1>2, <1>4, <1>5, <1>6 DEF UniInv

LEMMA UniStepKeeps == UniInv /\ UniStep => UniInv'
<1> SUFFICES ASSUME UniInv, UniStep PROVE UniInv'
  OBVIOUS
<1>1. CASE List
  BY <1>1, ListKeeps
<1>2. CASE Delist
  BY <1>2 DEF Delist, UniInv, UniTypeOK, Baseline, Complete, OnFile, Loading, NewMeansNew,
              ListedStaysTradable
<1>3. CASE BeginRefresh
  BY <1>3, BeginKeeps
<1>4. CASE LoadDex
  BY <1>4, LoadDexKeeps
<1>5. CASE DexFails
  BY <1>5, DexFailsKeeps
<1>6. CASE UniTick
  BY <1>6 DEF UniTick, UniInv, UniTypeOK, Baseline, Complete, OnFile, Loading, NewMeansNew,
              ListedStaysTradable
<1>7. CASE \E torn \in BOOLEAN : UniRestarts(torn)
  BY <1>7, RestartKeeps
<1>8. CASE UNCHANGED uniVars
  BY <1>8 DEF uniVars, UniInv, UniTypeOK, Baseline, Complete, OnFile, Loading, NewMeansNew,
              ListedStaysTradable
<1> QED
  BY <1>1, <1>2, <1>3, <1>4, <1>5, <1>6, <1>7, <1>8 DEF UniStep, UniNext
-----------------------------------------------------------------------------
(* No market of the first complete load is ever penalised as new, and none *)
(* that was listed later passes for old, whichever dexes fail, however     *)
(* often the file cannot be written, is torn or the process dies           *)
(* (universe.py, refresh and _load_first_seen).                            *)
THEOREM NewIsNew == Spec => []NewMeansNew
<1>1. Init => UniInv
  BY UniInitial
<1>2. UniInv /\ [Next]_vars => UniInv'
  BY StepOfAnalyst, UniStepKeeps
<1>3. UniInv => NewMeansNew
  BY DEF UniInv
<1> QED
  BY <1>1, <1>2, <1>3, PTL DEF Spec

(* A market the process has loaded stays tradable while it is listed: a    *)
(* refresh replaces the universe in one piece, and carries over what it    *)
(* could not ask for (universe.py, refresh).                               *)
THEOREM ListedStays == Spec => []ListedStaysTradable
<1>1. Init => UniInv
  BY UniInitial
<1>2. UniInv /\ [Next]_vars => UniInv'
  BY StepOfAnalyst, UniStepKeeps
<1>3. UniInv => ListedStaysTradable
  BY DEF UniInv
<1> QED
  BY <1>1, <1>2, <1>3, PTL DEF Spec
-----------------------------------------------------------------------------
(***************************************************************************)
(* The analyzer.                                                           *)
(***************************************************************************)
Abouts == {<<>>} \cup (Nat \X (SUBSET Markets))
Keys   == {NoKey} \cup {<<b, t, s>> : b \in Nat, t \in SUBSET Markets, s \in BOOLEAN}
Calls  == [ kind : {"triage", "fast", "smart", "confirm", "provider", "warm"},
            opts : SUBSET Options, zero : BOOLEAN, tries : Nat, born : Nat,
            about : Abouts, key : Keys ]

AnalystTypeOK ==
  /\ brief \in Nat
  /\ allowed \in SUBSET Options
  /\ call \in [Callers -> Calls \cup {NoCall}]
  /\ verdict \in [Headlines -> {"none", "filtered", "judged", "error", "lost"}]
  /\ second \in [Headlines -> {"none", "given", "open"}]

LEMMA RequestTyped ==
  ASSUME UniTypeOK, AnalystTypeOK,
         NEW k \in {"triage", "fast", "smart", "confirm", "provider", "warm"}
  PROVE  /\ Request(k) \in Calls
         /\ Request(k).kind = k /\ Request(k).opts = Optional(k) /\ Request(k).born = now
         /\ Request(k).about = IF k \in {"fast", "warm"} THEN <<brief, tradable>> ELSE <<>>
         /\ Request(k).key = IF k = "warm" THEN Key ELSE NoKey
<1>1. Optional(k) \in SUBSET Options
  BY DEF Optional, AnalystTypeOK
<1>2. (IF k \in {"fast", "warm"} THEN <<brief, tradable>> ELSE <<>>) \in Abouts
  BY DEF Abouts, UniTypeOK, AnalystTypeOK
<1>3. (IF k = "warm" THEN Key ELSE NoKey) \in Keys
  <2>1. brief \in Nat /\ tradable \in SUBSET Markets
    BY DEF UniTypeOK, AnalystTypeOK
  <2>2. ("strict" \in allowed) \in BOOLEAN
    OBVIOUS
  <2>3. PICK s \in BOOLEAN : Key = <<brief, tradable, s>>
    BY <2>2, Zenon DEF Key, Prefix
  <2>4. Key \in Keys
    BY <2>1, <2>3 DEF Keys
  <2>5. NoKey \in Keys
    BY DEF Keys
  <2> QED BY <2>4, <2>5
<1> QED BY <1>1, <1>2, <1>3 DEF Request, Calls, UniTypeOK

LEMMA ActiveIs ==
  ASSUME AnalystTypeOK, NEW p \in Callers
  PROVE  /\ Active(p) <=> call[p] \in Calls
         /\ Active(p) <=> call[p].kind # "none"
         /\ ~Active(p) => call[p] = NoCall /\ call[p].kind = "none"
<1>1. NoCall.kind = "none"
  BY DEF NoCall
<1>2. \A c \in Calls : c.kind # "none"
  BY DEF Calls
<1> QED BY <1>1, <1>2 DEF AnalystTypeOK, Active

(* A retry is the same request, perhaps without its features.              *)
Retry(c, r) ==
  /\ r \in Calls
  /\ r.kind = c.kind /\ r.born = c.born /\ r.about = c.about /\ r.key = c.key

LEMMA CallEdited ==
  ASSUME AnalystTypeOK, NEW p \in Callers, NEW r, call' = [call EXCEPT ![p] = r]
  PROVE  call'[p] = r /\ \A q \in Callers : q # p => call'[q] = call[q]
BY DEF AnalystTypeOK

LEMMA Retried ==
  ASSUME AnalystTypeOK, NEW c \in Calls
  PROVE  /\ Retry(c, [c EXCEPT !.tries = c.tries + 1])
         /\ [c EXCEPT !.tries = c.tries + 1].opts = c.opts
         /\ Retry(c, [c EXCEPT !.opts = {}, !.tries = 1])
         /\ [c EXCEPT !.opts = {}, !.tries = 1].opts = {}
         /\ Retry(c, [c EXCEPT !.zero = FALSE, !.tries = 1])
         /\ [c EXCEPT !.zero = FALSE, !.tries = 1].opts = c.opts
<1>1. c.tries \in Nat /\ c.opts \in SUBSET Options /\ {} \in SUBSET Options
  BY DEF Calls
<1>2. /\ [c EXCEPT !.tries = c.tries + 1] \in Calls
      /\ [c EXCEPT !.opts = {}, !.tries = 1] \in Calls
      /\ [c EXCEPT !.zero = FALSE, !.tries = 1] \in Calls
  <2>1. [c EXCEPT !.tries = c.tries + 1] \in Calls
    BY <1>1 DEF Calls
  <2>2. [c EXCEPT !.opts = {}, !.tries = 1] \in Calls
    BY <1>1 DEF Calls
  <2>3. [c EXCEPT !.zero = FALSE, !.tries = 1] \in Calls
    BY <1>1 DEF Calls
  <2> QED BY <2>1, <2>2, <2>3
<1>3. /\ Retry(c, [c EXCEPT !.tries = c.tries + 1])
      /\ [c EXCEPT !.tries = c.tries + 1].opts = c.opts
  BY <1>2 DEF Retry, Calls
<1>4. /\ Retry(c, [c EXCEPT !.opts = {}, !.tries = 1])
      /\ [c EXCEPT !.opts = {}, !.tries = 1].opts = {}
  BY <1>2 DEF Retry, Calls
<1>5. /\ Retry(c, [c EXCEPT !.zero = FALSE, !.tries = 1])
      /\ [c EXCEPT !.zero = FALSE, !.tries = 1].opts = c.opts
  BY <1>2 DEF Retry, Calls
<1> QED BY <1>3, <1>4, <1>5

(* A headline's request is for what its verdict still wants.               *)
Wants(h, kind) ==
  /\ kind \in {"none", "triage", "fast", "smart", "confirm", "provider"}
  /\ kind \in {"triage", "fast", "provider"} => verdict[h] = "none"
  /\ kind \in {"smart", "confirm"} => verdict[h] = "judged"

Judged(h) ==
  /\ Wants(h, call[h].kind)
  /\ verdict[h] = "none" => second[h] = "none"
  /\ verdict[h] = "error" <=> h \in failed
  /\ second[h] # "none" => verdict[h] \in {"judged", "lost"}

JudgedInv ==
  /\ AnalystTypeOK
  /\ call["warmer"].kind \in {"none", "warm"}
  /\ \A h \in Headlines : Judged(h)

(* A step that concerns one caller.                                        *)
LEMMA OneCaller ==
  ASSUME JudgedInv, AnalystTypeOK', NEW p \in Callers, NEW r, call' = [call EXCEPT ![p] = r],
         p = "warmer" => r.kind \in {"none", "warm"},
         \A h \in Headlines \ {p} : /\ verdict'[h] = verdict[h] /\ second'[h] = second[h]
                                    /\ h \in failed' <=> h \in failed,
         p \in Headlines => Judged(p)'
  PROVE  JudgedInv'
<1>1. call'[p] = r /\ \A q \in Callers : q # p => call'[q] = call[q]
  BY CallEdited DEF JudgedInv
<1>2. ASSUME NEW h \in Headlines \ {p} PROVE Judged(h)'
  <2>1. call'[h] = call[h] /\ Judged(h)
    BY <1>1, <1>2 DEF Callers, JudgedInv
  <2> QED BY <1>2, <2>1 DEF Judged, Wants
<1>3. call'["warmer"].kind \in {"none", "warm"}
  BY <1>1 DEF Callers, JudgedInv
<1> QED BY <1>2, <1>3 DEF JudgedInv, Callers

LEMMA AnsweredIsTyped ==
  ASSUME UniTypeOK, JudgedInv, NEW p \in Callers, NEW r \in Calls \cup {NoCall},
         call' = [call EXCEPT ![p] = r], NEW v, NEW s,
         verdict' = verdict \/ verdict' = [verdict EXCEPT ![p] = v],
         second' = second \/ second' = [second EXCEPT ![p] = s],
         v \in {"none", "filtered", "judged", "error", "lost"}, s \in {"none", "given", "open"},
         UNCHANGED brief, allowed' \in SUBSET Options
  PROVE  /\ AnalystTypeOK'
         /\ \A h \in Headlines \ {p} : verdict'[h] = verdict[h] /\ second'[h] = second[h]
<1> USE DEF JudgedInv, AnalystTypeOK
<1>1. call' \in [Callers -> Calls \cup {NoCall}]
  OBVIOUS
<1>2. verdict' \in [Headlines -> {"none", "filtered", "judged", "error", "lost"}]
  OBVIOUS
<1>3. second' \in [Headlines -> {"none", "given", "open"}]
  OBVIOUS
<1> QED BY <1>1, <1>2, <1>3

(* A headline's request goes on as r, with verdict v and second opinion s. *)
LEMMA HeadlineMoves ==
  ASSUME UniTypeOK, JudgedInv, UNCHANGED brief, allowed' \in SUBSET Options,
         NEW h \in Headlines, NEW r \in Calls \cup {NoCall}, call' = [call EXCEPT ![h] = r],
         NEW v \in {"none", "filtered", "judged", "error", "lost"},
         NEW s \in {"none", "given", "open"},
         verdict' = [verdict EXCEPT ![h] = v], second' = [second EXCEPT ![h] = s],
         \A g \in Headlines \ {h} : g \in failed' <=> g \in failed,
         v = "error" <=> h \in failed',
         r.kind \in {"none", "triage", "fast", "smart", "confirm", "provider"},
         r.kind \in {"triage", "fast", "provider"} => v = "none",
         r.kind \in {"smart", "confirm"} => v = "judged",
         v = "none" => s = "none",
         s # "none" => v \in {"judged", "lost"}
  PROVE  JudgedInv'
<1>1. h \in Callers /\ h # "warmer"
  BY AnalystAssumption DEF Callers
<1>2. /\ AnalystTypeOK'
      /\ \A g \in Headlines \ {h} : verdict'[g] = verdict[g] /\ second'[g] = second[g]
  BY <1>1, AnsweredIsTyped
<1>3. verdict'[h] = v /\ second'[h] = s /\ call'[h] = r
  BY <1>1 DEF JudgedInv, AnalystTypeOK
<1>4. Judged(h)'
  BY <1>3 DEF Judged, Wants
<1> QED BY <1>1, <1>2, <1>4, OneCaller

LEMMA WarmerMoves ==
  ASSUME UniTypeOK, JudgedInv, UNCHANGED <<brief, verdict, second, failed>>,
         allowed' \in SUBSET Options,
         NEW r \in Calls \cup {NoCall}, call' = [call EXCEPT !["warmer"] = r],
         r.kind \in {"none", "warm"}
  PROVE  JudgedInv'
<1>1. "warmer" \in Callers /\ "warmer" \notin Headlines
  BY AnalystAssumption DEF Callers
<1>2. AnalystTypeOK'
  BY <1>1 DEF JudgedInv, AnalystTypeOK
<1> QED BY <1>1, <1>2, OneCaller

(* What every step starts from.                                            *)
LEMMA CallIs ==
  ASSUME JudgedInv, NEW p \in Callers, Active(p)
  PROVE  /\ call[p] \in Calls
         /\ call[p].kind = "warm" <=> p = "warmer"
         /\ call[p].kind # "warm" => p \in Headlines /\ Judged(p)
         /\ call[p].kind # "none"
<1>1. call[p] \in Calls /\ call[p].kind # "none"
  BY ActiveIs DEF JudgedInv
<1>2. CASE p = "warmer"
  BY <1>1, <1>2 DEF JudgedInv
<1>3. CASE p \in Headlines
  BY <1>1, <1>3, AnalystAssumption DEF JudgedInv, Judged, Wants
<1> QED BY <1>1, <1>2, <1>3 DEF Callers

LEMMA Unedited ==
  ASSUME JudgedInv, NEW h \in Headlines
  PROVE  /\ verdict = [verdict EXCEPT ![h] = verdict[h]]
         /\ second = [second EXCEPT ![h] = second[h]]
         /\ verdict[h] \in {"none", "filtered", "judged", "error", "lost"}
         /\ second[h] \in {"none", "given", "open"}
BY DEF JudgedInv, AnalystTypeOK

(* The exception leaves the request.                                       *)
LEMMA GivesUpKeeps ==
  ASSUME UniTypeOK, JudgedInv, NEW p \in Callers, Active(p), NEW byFault, byFault = TRUE,
         GivesUp(p, byFault), UNCHANGED brief
  PROVE  JudgedInv'
<1>1. allowed' = allowed /\ allowed' \in SUBSET Options
  BY DEF GivesUp, JudgedInv, AnalystTypeOK
<1>2. /\ Raised(p) /\ call[p] \in Calls /\ NoCall.kind = "none" /\ NoCall \in Calls \cup {NoCall}
      /\ failed' = IF call[p].kind \in Main THEN failed \cup {p} ELSE failed
  BY CallIs DEF GivesUp, NoCall
<1>3. AnalystTypeOK
  BY DEF JudgedInv
<1>4. CASE p = "warmer"
  <2>1. call[p].kind = "warm"
    BY <1>4, CallIs
  <2>2. UNCHANGED <<verdict, second, failed>> /\ call' = [call EXCEPT !["warmer"] = NoCall]
    BY <1>2, <1>4, <2>1 DEF Raised, Ends, Main
  <2> QED BY <1>1, <1>2, <2>2, WarmerMoves
<1>5. ASSUME p \in Headlines, p # "warmer" PROVE JudgedInv'
  <2>1. /\ call[p].kind \in {"triage", "fast", "smart", "confirm", "provider"}
        /\ Judged(p) /\ Wants(p, call[p].kind)
    BY <1>5, CallIs DEF Judged, Wants
  <2>2. CASE call[p].kind = "triage"
    <3>1. /\ call' = [call EXCEPT ![p] = Request("fast")] /\ UNCHANGED <<verdict, second, failed>>
          /\ verdict[p] = "none"
      BY <1>2, <2>1, <2>2 DEF Raised, Asks, Main, Wants
    <3>2. Request("fast") \in Calls /\ Request("fast").kind = "fast"
      BY <1>3, RequestTyped
    <3> QED BY <1>1, <1>5, <2>1, <3>1, <3>2, Unedited, HeadlineMoves DEF Judged
  <2>3. CASE call[p].kind \in {"fast", "provider"}
    <3>1. /\ call' = [call EXCEPT ![p] = NoCall] /\ UNCHANGED second
          /\ verdict' = [verdict EXCEPT ![p] = "error"] /\ failed' = failed \cup {p}
          /\ second[p] = "none"
      BY <1>2, <2>1, <2>3 DEF Raised, Ends, Main, Wants, Judged
    <3> QED BY <1>1, <1>2, <1>5, <2>1, <3>1, Unedited, HeadlineMoves
  <2>4. CASE call[p].kind = "smart"
    <3>1. /\ \/ call' = [call EXCEPT ![p] = NoCall]
             \/ call' = [call EXCEPT ![p] = Request("confirm")]
          /\ UNCHANGED <<verdict, second, failed>> /\ verdict[p] = "judged"
      BY <1>2, <2>1, <2>4 DEF Raised, Ends, Asks, Main, Wants
    <3>2. Request("confirm") \in Calls /\ Request("confirm").kind = "confirm"
      BY <1>3, RequestTyped
    <3>3. CASE call' = [call EXCEPT ![p] = NoCall]
      BY <1>1, <1>2, <1>5, <2>1, <3>1, <3>3, Unedited, HeadlineMoves DEF Judged
    <3>4. CASE call' = [call EXCEPT ![p] = Request("confirm")]
      BY <1>1, <1>5, <2>1, <3>1, <3>2, <3>4, Unedited, HeadlineMoves DEF Judged
    <3> QED BY <3>1, <3>3, <3>4
  <2>5. CASE call[p].kind = "confirm"
    <3>1. /\ call' = [call EXCEPT ![p] = NoCall] /\ UNCHANGED <<verdict, failed>>
          /\ second' = [second EXCEPT ![p] = "open"] /\ verdict[p] = "judged"
      BY <1>2, <2>1, <2>5 DEF Raised, Ends, Main, Wants
    <3> QED BY <1>1, <1>2, <1>5, <2>1, <3>1, Unedited, HeadlineMoves DEF Judged
  <2> QED BY <2>1, <2>2, <2>3, <2>4, <2>5
<1> QED BY <1>4, <1>5 DEF Callers

LEMMA RetryKeeps ==
  ASSUME UniTypeOK, JudgedInv, NEW p \in Callers, Active(p), NEW r, Retry(call[p], r),
         call' = [call EXCEPT ![p] = r],
         UNCHANGED <<brief, verdict, second, failed>>, allowed' \in SUBSET Options
  PROVE  JudgedInv'
<1>1. r \in Calls /\ r.kind = call[p].kind
  BY DEF Retry
<1>2. CASE p = "warmer"
  BY <1>1, <1>2, CallIs, WarmerMoves
<1>3. CASE p \in Headlines
  <2>1. Judged(p) /\ Wants(p, r.kind)
    BY <1>1, <1>3, CallIs, AnalystAssumption DEF Judged
  <2>2. /\ r.kind \in {"none", "triage", "fast", "smart", "confirm", "provider"}
        /\ r.kind \in {"triage", "fast", "provider"} => verdict[p] = "none"
        /\ r.kind \in {"smart", "confirm"} => verdict[p] = "judged"
    BY <2>1 DEF Wants
  <2>3. /\ verdict[p] = "error" <=> p \in failed'
        /\ verdict[p] = "none" => second[p] = "none"
        /\ second[p] # "none" => verdict[p] \in {"judged", "lost"}
    BY <2>1 DEF Judged
  <2> QED BY <1>1, <1>3, <2>2, <2>3, Unedited, HeadlineMoves
<1> QED BY <1>2, <1>3 DEF Callers

LEMMA AgainKeeps ==
  ASSUME UniTypeOK, JudgedInv, NEW p \in Callers, Active(p), Again(p), UNCHANGED brief
  PROVE  JudgedInv'
<1>1. call[p] \in Calls
  BY CallIs
<1>2. CASE call[p].tries < Attempts
  <2>1. /\ call' = [call EXCEPT ![p] = [call[p] EXCEPT !.tries = call[p].tries + 1]]
        /\ UNCHANGED <<verdict, second, failed, allowed>>
    BY <1>2 DEF Again
  <2>2. Retry(call[p], [call[p] EXCEPT !.tries = call[p].tries + 1])
    BY <1>1, Retried DEF JudgedInv
  <2> QED BY <2>1, <2>2, RetryKeeps DEF JudgedInv, AnalystTypeOK
<1>3. CASE ~(call[p].tries < Attempts)
  <2>1. GivesUp(p, TRUE)
    BY <1>3 DEF Again
  <2> QED BY <2>1, GivesUpKeeps
<1> QED BY <1>2, <1>3

(* A feature the API rejects is never the end of the main call: it is not  *)
(* in the request that follows.                                            *)
LEMMA BadRequestKeeps == ASSUME UniTypeOK, JudgedInv, BadRequest PROVE JudgedInv'
<1>1. PICK p \in Callers :
        /\ Active(p) /\ UNCHANGED brief
        /\ CASE call[p].zero ->
                  /\ call' = [call EXCEPT ![p].zero = FALSE, ![p].tries = 1]
                  /\ UNCHANGED <<verdict, second, failed, allowed>>
             [] ~call[p].zero -> Stripped(p) \/ (Strippable(p) = {} /\ GivesUp(p, ~Refuses(call[p])))
  BY Zenon DEF BadRequest
<1>2. call[p] \in Calls
  BY <1>1, CallIs
<1>3. allowed \in SUBSET Options
  BY DEF JudgedInv, AnalystTypeOK
<1>4. CASE call[p].zero
  <2>1. /\ call' = [call EXCEPT ![p] = [call[p] EXCEPT !.zero = FALSE, !.tries = 1]]
        /\ UNCHANGED <<verdict, second, failed, allowed>>
    BY <1>1, <1>4
  <2>2. Retry(call[p], [call[p] EXCEPT !.zero = FALSE, !.tries = 1])
    BY <1>2, Retried DEF JudgedInv
  <2> QED BY <1>1, <1>3, <2>1, <2>2, RetryKeeps
<1>5. CASE ~call[p].zero /\ Stripped(p)
  <2>1. /\ call' = [call EXCEPT ![p] = [call[p] EXCEPT !.opts = {}, !.tries = 1]]
        /\ UNCHANGED <<verdict, second, failed>> /\ allowed' \in SUBSET Options
    BY <1>3, <1>5 DEF Stripped
  <2>2. Retry(call[p], [call[p] EXCEPT !.opts = {}, !.tries = 1])
    BY <1>2, Retried DEF JudgedInv
  <2> QED BY <1>1, <2>1, <2>2, RetryKeeps
<1>6. CASE ~call[p].zero /\ Strippable(p) = {} /\ GivesUp(p, ~Refuses(call[p]))
  <2>1. (~Refuses(call[p])) = TRUE
    BY <1>6 DEF Refuses, Strippable
  <2> QED BY <1>1, <1>6, <2>1, GivesUpKeeps
<1> QED BY <1>1, <1>4, <1>5, <1>6

LEMMA AnswersKeep == ASSUME UniTypeOK, JudgedInv, Replies PROVE JudgedInv'
<1>1. PICK p \in Callers :
        /\ Active(p) /\ UNCHANGED <<brief, allowed, failed>>
        /\ AfterTriage(p) \/ AfterAnalysis(p) \/ AfterConfirm(p) \/ AfterWarm(p)
  BY DEF Replies
<1>2. /\ allowed' \in SUBSET Options /\ AnalystTypeOK
      /\ NoCall \in Calls \cup {NoCall} /\ NoCall.kind = "none"
  BY <1>1 DEF JudgedInv, AnalystTypeOK, NoCall
<1>3. CASE call[p].kind = "warm"
  <2>1. p = "warmer" /\ AfterWarm(p)
    BY <1>1, <1>3, CallIs DEF AfterTriage, AfterAnalysis, AfterConfirm
  <2> QED BY <1>1, <1>2, <2>1, WarmerMoves DEF AfterWarm, Ends
<1>4. CASE call[p].kind # "warm"
  <2>1. p \in Headlines /\ Judged(p) /\ Wants(p, call[p].kind)
    BY <1>1, <1>4, CallIs DEF Judged
  <2>2. /\ Request("fast") \in Calls /\ Request("fast").kind = "fast"
        /\ Request("smart") \in Calls /\ Request("smart").kind = "smart"
        /\ Request("confirm") \in Calls /\ Request("confirm").kind = "confirm"
    BY <1>2, RequestTyped
  <2>3. CASE AfterTriage(p)
    <3>1. /\ UNCHANGED second /\ verdict[p] = "none" /\ second[p] = "none"
          /\ \/ call' = [call EXCEPT ![p] = Request("fast")] /\ UNCHANGED verdict
             \/ /\ call' = [call EXCEPT ![p] = NoCall]
                /\ verdict' = [verdict EXCEPT ![p] = "filtered"]
      BY <2>1, <2>3 DEF AfterTriage, Asks, Ends, Wants, Judged
    <3>2. CASE call' = [call EXCEPT ![p] = Request("fast")] /\ UNCHANGED verdict
      BY <1>1, <1>2, <2>1, <2>2, <3>1, <3>2, Unedited, HeadlineMoves DEF Judged
    <3>3. CASE call' = [call EXCEPT ![p] = NoCall] /\ verdict' = [verdict EXCEPT ![p] = "filtered"]
      BY <1>1, <1>2, <2>1, <3>1, <3>3, Unedited, HeadlineMoves DEF Judged
    <3> QED BY <3>1, <3>2, <3>3
  <2>4. CASE AfterAnalysis(p)
    <3>1. PICK r \in {NoCall, Request("confirm"), Request("smart")} : call' = [call EXCEPT ![p] = r]
      BY <2>4 DEF AfterAnalysis, Asks, Ends
    <3>2. /\ UNCHANGED second /\ verdict' = [verdict EXCEPT ![p] = "judged"]
          /\ verdict[p] \in {"none", "judged"} /\ p \notin failed
      BY <2>1, <2>4 DEF AfterAnalysis, Wants, Judged
    <3>3. r \in Calls \cup {NoCall} /\ r.kind \in {"none", "confirm", "smart"}
      BY <1>2, <2>2, <3>1
    <3> QED BY <1>1, <1>2, <2>1, <3>1, <3>2, <3>3, Unedited, HeadlineMoves
  <2>5. CASE AfterConfirm(p)
    <3>1. /\ UNCHANGED verdict /\ call' = [call EXCEPT ![p] = NoCall] /\ verdict[p] = "judged"
          /\ second' = [second EXCEPT ![p] = "given"]
      BY <2>1, <2>5 DEF AfterConfirm, Ends, Wants
    <3> QED BY <1>1, <1>2, <2>1, <3>1, Unedited, HeadlineMoves DEF Judged
  <2> QED BY <1>1, <1>4, <2>3, <2>4, <2>5 DEF AfterWarm
<1> QED BY <1>3, <1>4

LEMMA GarbledKeeps == ASSUME UniTypeOK, JudgedInv, Garbled PROVE JudgedInv'
<1>1. PICK p \in Callers : Active(p) /\ UNCHANGED brief /\ GivesUp(p, TRUE)
  BY Zenon DEF Garbled
<1> QED BY <1>1, GivesUpKeeps

LEMMA ProviderKeeps == ASSUME UniTypeOK, JudgedInv, ProviderReplies PROVE JudgedInv'
<1>1. PICK p \in Headlines :
        /\ call[p].kind = "provider" /\ UNCHANGED <<brief, allowed, second, failed>>
        /\ call' = [call EXCEPT ![p] = NoCall]
        /\ verdict' = [verdict EXCEPT ![p] = "judged"]
  BY DEF ProviderReplies, Ends
<1>2. /\ allowed' \in SUBSET Options
      /\ NoCall \in Calls \cup {NoCall} /\ NoCall.kind = "none"
  BY <1>1 DEF JudgedInv, AnalystTypeOK, NoCall
<1>3. verdict[p] = "none" /\ p \notin failed /\ second[p] = "none"
  BY <1>1 DEF JudgedInv, Judged, Wants
<1> QED BY <1>1, <1>2, <1>3, Unedited, HeadlineMoves

LEMMA StartKeeps == ASSUME UniTypeOK, JudgedInv, Start PROVE JudgedInv'
<1>1. PICK p \in Headlines, k \in {"triage", "fast", "provider"} :
        /\ verdict[p] = "none"
        /\ call' = [call EXCEPT ![p] = Request(k)]
        /\ UNCHANGED <<brief, allowed, verdict, second, failed>>
  BY DEF Start
<1>2. /\ Request(k) \in Calls /\ Request(k).kind = k /\ allowed' \in SUBSET Options
  BY <1>1, RequestTyped DEF JudgedInv, AnalystTypeOK
<1>3. second[p] = "none" /\ p \notin failed
  BY <1>1 DEF JudgedInv, Judged
<1>4. PICK r \in Calls \cup {NoCall} : r = Request(k)
  BY <1>2
<1>5. /\ r.kind \in {"none", "triage", "fast", "smart", "confirm", "provider"}
      /\ r.kind \notin {"smart", "confirm"}
  BY <1>2, <1>4
<1>6. call' = [call EXCEPT ![p] = r]
  BY <1>1, <1>4
<1> QED BY <1>1, <1>2, <1>3, <1>5, <1>6, Unedited, HeadlineMoves

LEMMA AllLostKeeps == ASSUME UniTypeOK, JudgedInv, Restart PROVE JudgedInv'
<1>1. /\ allowed' = Options /\ call' = [p \in Callers |-> NoCall]
      /\ verdict' = [h \in Headlines |-> IF Active(h) THEN "lost" ELSE verdict[h]]
      /\ UNCHANGED <<brief, second, failed>>
  BY Zenon DEF Restart
<1>2. NoCall.kind = "none"
  BY DEF NoCall
<1>3. AnalystTypeOK'
  BY <1>1 DEF JudgedInv, AnalystTypeOK
<1>4. ASSUME NEW h \in Headlines PROVE Judged(h)'
  <2>1. Judged(h) /\ call'[h].kind = "none" /\ h \in Callers
    BY <1>1, <1>2 DEF JudgedInv, Callers
  <2>2. CASE Active(h)
    <3>1. verdict[h] \in {"none", "judged"} /\ verdict'[h] = "lost"
      <4>1. call[h].kind # "none"
        BY <2>1, <2>2, CallIs
      <4>2. verdict[h] \in {"none", "judged"}
        BY <2>1, <4>1 DEF Judged, Wants
      <4> QED BY <1>1, <2>2, <4>2
    <3> QED BY <1>1, <2>1, <3>1 DEF Judged, Wants
  <2>3. CASE ~Active(h)
    <3>1. verdict'[h] = verdict[h]
      BY <1>1, <2>3
    <3> QED BY <1>1, <2>1, <3>1 DEF Judged, Wants
  <2> QED BY <2>2, <2>3
<1>5. call'["warmer"].kind = "none"
  BY <1>1, <1>2 DEF Callers
<1> QED BY <1>3, <1>4, <1>5 DEF JudgedInv

LEMMA NextJudged == UniInv /\ JudgedInv /\ [Next]_vars => JudgedInv'
<1> SUFFICES ASSUME UniTypeOK, JudgedInv, [Next]_vars PROVE JudgedInv'
  BY DEF UniInv
<1> USE DEF analystVars
<1>1. ASSUME UNCHANGED <<brief, allowed, call, verdict, second, failed>> PROVE JudgedInv'
  BY <1>1 DEF JudgedInv, AnalystTypeOK, Judged, Wants
<1>2. CASE UniNext /\ UNCHANGED analystVars
  BY <1>1, <1>2
<1>3. CASE Start
  BY <1>3, StartKeeps
<1>4. CASE Replies
  BY <1>4, AnswersKeep
<1>5. CASE ProviderReplies
  BY <1>5, ProviderKeeps
<1>6. CASE Garbled
  BY <1>6, GarbledKeeps
<1>7. CASE Transient
  BY <1>7, AgainKeeps DEF Transient
<1>8. CASE EmptyReply
  <2>1. PICK p \in Headlines : call[p].kind = "provider" /\ Again(p) /\ UNCHANGED brief
    BY <1>8 DEF EmptyReply
  <2>2. p \in Callers /\ Active(p)
    BY <2>1, ActiveIs DEF Callers, JudgedInv
  <2> QED BY <2>1, <2>2, AgainKeeps
<1>9. CASE BadRequest
  BY <1>9, BadRequestKeeps
<1>10. CASE Warm
  <2>1. /\ Request("warm") \in Calls /\ Request("warm").kind = "warm"
        /\ allowed \in SUBSET Options
    BY RequestTyped DEF JudgedInv, AnalystTypeOK
  <2> QED BY <1>10, <2>1, WarmerMoves DEF Warm, Asks
<1>11. CASE RefreshRegime
  <2>1. brief' \in Nat /\ UNCHANGED <<allowed, call, verdict, second, failed>>
    BY <1>11 DEF RefreshRegime, JudgedInv, AnalystTypeOK
  <2> QED BY <2>1 DEF JudgedInv, AnalystTypeOK, Judged, Wants
<1>12. CASE Tick
  BY <1>1, <1>12, Zenon DEF Tick
<1>13. CASE Restart
  BY <1>13, AllLostKeeps
<1>14. CASE UNCHANGED vars
  BY <1>1, <1>14 DEF vars
<1> QED BY <1>2, <1>3, <1>4, <1>5, <1>6, <1>7, <1>8, <1>9, <1>10, <1>11, <1>12, <1>13, <1>14 DEF Next

LEMMA InitJudged == Init => JudgedInv
<1> SUFFICES ASSUME Init PROVE JudgedInv
  OBVIOUS
<1>1. /\ brief = 0 /\ allowed = Options /\ call = [p \in Callers |-> NoCall] /\ failed = {}
      /\ verdict = [h \in Headlines |-> "none"] /\ second = [h \in Headlines |-> "none"]
  BY DEF Init
<1>2. NoCall.kind = "none" /\ "warmer" \in Callers /\ \A h \in Headlines : h \in Callers
  BY DEF NoCall, Callers
<1>3. AnalystTypeOK
  BY <1>1 DEF AnalystTypeOK
<1> QED BY <1>1, <1>2, <1>3 DEF JudgedInv, Judged, Wants

(* A headline ends in an error only if its own main call got no usable     *)
(* answer, for any number of headlines analysed at the same time, optional *)
(* features and retries: a feature the API rejects leaves this request and *)
(* all later ones without failing it (analyzer.py, _create and             *)
(* _without_optional_features), and no failure of triage, the stronger     *)
(* model or the skeptic takes a verdict away.                              *)
THEOREM RejectionBlindsNobody == Spec => []AnsweredIsJudged
<1>1. Init => UniInv /\ JudgedInv
  BY UniInitial, InitJudged
<1>2. UniInv /\ [Next]_vars => UniInv'
  BY StepOfAnalyst, UniStepKeeps
<1>3. UniInv /\ JudgedInv /\ [Next]_vars => JudgedInv'
  BY NextJudged
<1>4. JudgedInv => AnsweredIsJudged
  BY DEF JudgedInv, Judged, AnsweredIsJudged
<1> QED BY <1>1, <1>2, <1>3, <1>4, PTL DEF Spec
-----------------------------------------------------------------------------
(***************************************************************************)
(* The prompt cache.  The prefix of the next headline is the one that was  *)
(* warmed only if no prefix ever comes back: brief and allowed move one    *)
(* way, and so do the markets if none is delisted.                         *)
(***************************************************************************)
NothingLeaves == [][listed \subseteq listed']_vars

Grown == tradable \subseteq loaded /\ tradable \subseteq listed /\ ref.new \subseteq listed

LEMMA InitGrown == Init => Grown
  BY DEF Init, UniInit, Grown, Idle

LEMMA ContinueGrows ==
  ASSUME UniInv, Grown, NEW r \in Rounds, NEW seen, NEW n, Continue(r, seen, n),
         UNCHANGED listed, r.new \subseteq listed,
         \A m \in tradable : DexOf[m] \in r.ok => m \in r.new
  PROVE  tradable \subseteq tradable' /\ Grown'
<1>1. CASE r.step < Len(Dexes)
  <2>1. ref' = [r EXCEPT !.step = r.step + 1] /\ UNCHANGED <<tradable, loaded>>
    BY <1>1 DEF Continue
  <2>2. ref'.new = r.new
    BY <2>1, NextStep
  <2> QED BY <2>1, <2>2 DEF Grown
<1>2. CASE ~(r.step < Len(Dexes))
  <2>1. tradable \subseteq r.new \cup CarriedOver(r) /\ r.new \cup CarriedOver(r) \subseteq listed
    BY DEF CarriedOver, Grown
  <2>2. /\ ref' = Idle
        /\ IF r.new \cup CarriedOver(r) = {} THEN UNCHANGED <<tradable, loaded>>
           ELSE /\ tradable' = r.new \cup CarriedOver(r)
                /\ loaded' = loaded \cup (r.new \cup CarriedOver(r))
    BY <1>2 DEF Continue
  <2> QED BY <2>1, <2>2 DEF Grown, Idle
<1> QED BY <1>1, <1>2

LEMMA LoadDexGrows ==
  ASSUME UniInv, Grown, LoadDex PROVE tradable \subseteq tradable' /\ Grown'
<1> DEFINE on    == OnDex(ref.step)
           fresh == Fresh(ref.step)
           r     == [ref EXCEPT !.new = ref.new \cup on, !.ok = ref.ok \cup {Dexes[ref.step]},
                                !.changed = ref.changed \/ fresh # {}]
           seen  == [m \in Markets |-> IF m \notin fresh THEN firstSeen[m]
                                      ELSE IF ref.baseline THEN 0 ELSE ref.at]
<1>1. ref \in Rounds /\ listed \subseteq Markets
  BY DEF UniInv, UniTypeOK, Rounds
<1>2. on \subseteq listed /\ \A m \in listed : m \in on <=> DexOf[m] = Dexes[ref.step]
  BY <1>1 DEF OnDex
<1>3. r.new = ref.new \cup on /\ r.ok = ref.ok \cup {Dexes[ref.step]}
  BY <1>1 DEF Rounds
<1>4. r \in Rounds
  <2>1. Dexes[ref.step] \in DexValues
    BY <1>1 DEF DexValues, Rounds
  <2>2. on \in SUBSET Markets /\ (ref.changed \/ fresh # {}) \in BOOLEAN
    BY <1>1, <1>2
  <2> HIDE DEF on, fresh
  <2> QED BY <1>1, <2>1, <2>2 DEF Rounds
<1>5. Continue(r, seen, uniFaults) /\ UNCHANGED listed
  BY DEF LoadDex
<1> HIDE DEF on, fresh, r, seen
<1>6. \A m \in tradable : DexOf[m] \in r.ok => m \in r.new
  BY <1>2, <1>3 DEF UniInv, Loading, Grown
<1>7. r.new \subseteq listed
  BY <1>2, <1>3 DEF Grown
<1> QED BY <1>4, <1>5, <1>6, <1>7, ContinueGrows

(* The universe only grows, until the process starts again.                *)
LEMMA UniStepGrows ==
  ASSUME UniInv, Grown, listed \subseteq listed', UniNext
  PROVE  tradable \subseteq tradable' /\ Grown'
<1>1. CASE List
  BY <1>1 DEF List, Grown
<1>2. CASE Delist
  BY <1>2 DEF Delist, Grown
<1>3. CASE BeginRefresh
  <2>1. ref'.new = {} /\ UNCHANGED <<listed, tradable, loaded>>
    BY <1>3 DEF BeginRefresh, Idle
  <2> QED BY <2>1 DEF Grown
<1>4. CASE LoadDex
  BY <1>4, LoadDexGrows
<1>5. CASE DexFails
  <2>1. ref \in Rounds /\ Continue(ref, firstSeen, uniFaults + 1) /\ UNCHANGED listed
    BY <1>5 DEF DexFails, UniInv, UniTypeOK, Rounds
  <2>2. \A m \in tradable : DexOf[m] \in ref.ok => m \in ref.new
    BY DEF UniInv, Loading, Grown
  <2> QED BY <2>1, <2>2, ContinueGrows DEF Grown
<1> QED BY <1>1, <1>2, <1>3, <1>4, <1>5 DEF UniNext

LEMMA NextGrown ==
  ASSUME UniInv, Grown, listed \subseteq listed', [Next]_vars
  PROVE  Grown'
<1>1. UniStep
  BY StepOfAnalyst
<1>2. CASE UniNext
  BY <1>2, UniStepGrows
<1>3. CASE UniTick \/ UNCHANGED uniVars
  BY <1>3 DEF UniTick, uniVars, Grown
<1>4. CASE \E torn \in BOOLEAN : UniRestarts(torn)
  BY <1>4 DEF UniRestarts, Grown, Idle
<1> QED BY <1>1, <1>2, <1>3, <1>4 DEF UniStep

(* A request that carries the prefix as it is now.                         *)
Same(c) == c.about = <<brief, tradable>> /\ ("strict" \in c.opts <=> "strict" \in allowed)

(* A prefix of this process, of now or of before.                          *)
Behind(k) ==
  \E b \in Nat, t \in SUBSET Markets, s \in BOOLEAN :
    k = <<b, t, s>> /\ b <= brief /\ t \subseteq tradable /\ ("strict" \in allowed => s)

(* An analysis under way with an older prefix was sent before at.          *)
OldOrSame(p, at) == call[p].kind = "fast" => Same(call[p]) \/ call[p].born <= at

InTime(c) == c.born <= now /\ now <= c.born + MaxCall

HotInv ==
  /\ usedAt \in Nat /\ usedAt <= now
  /\ \A k \in DOMAIN hot : hot[k] \in Nat
  /\ \A p \in Callers : Active(p) => InTime(call[p])
  /\ warmKey # NoKey => Behind(warmKey)
  /\ warmKey = Key => /\ Key \in DOMAIN hot /\ usedAt <= hot[Key] + MaxCall
                      /\ \A p \in Headlines : OldOrSame(p, hot[Key])
  /\ Active("warmer") =>
       /\ Behind(call["warmer"].key)
       /\ call["warmer"].key = Key =>
            /\ Same(call["warmer"])
            /\ \A p \in Headlines : OldOrSame(p, call["warmer"].born)

Still == /\ brief' = brief /\ tradable' = tradable
         /\ "strict" \in allowed' <=> "strict" \in allowed

LEMMA TupleEq ==
  ASSUME NEW a, NEW b, NEW c \in BOOLEAN, NEW d, NEW e, NEW f \in BOOLEAN, <<a, b, c>> = <<d, e, f>>
  PROVE  a = d /\ b = e /\ c = f
OBVIOUS

LEMMA KeyIsSome == \A a, b, c : <<a, b, c>> # NoKey
BY DEF NoKey

(* A prefix that is left behind does not come back.                        *)
LEMMA KeyMovesOn ==
  ASSUME brief \in Nat, brief' \in Nat, brief <= brief', tradable \subseteq tradable',
         allowed' \subseteq allowed, NEW k, Behind(k)
  PROVE  /\ Behind(k)'
         /\ k = Key' => Still /\ k = Key
<1>1. PICK b \in Nat, t \in SUBSET Markets, s \in BOOLEAN :
        k = <<b, t, s>> /\ b <= brief /\ t \subseteq tradable /\ ("strict" \in allowed => s)
  BY DEF Behind
<1>2. Behind(k)'
  BY <1>1 DEF Behind
<1>3. ASSUME k = Key' PROVE Still /\ k = Key
  <2>0. ("strict" \in allowed') \in BOOLEAN
    OBVIOUS
  <2>1. PICK x \in BOOLEAN : x = ("strict" \in allowed')
    BY <2>0, Zenon
  <2>2. <<b, t, s>> = <<brief', tradable', x>>
    BY <1>1, <1>3, <2>1, Zenon DEF Key, Prefix
  <2>3. b = brief' /\ t = tradable' /\ s = x
    BY <2>2, TupleEq
  <2>4. brief' = brief /\ tradable' = tradable
    BY <1>1, <2>3
  <2>5. "strict" \in allowed' <=> "strict" \in allowed
    BY <1>1, <2>1, <2>3
  <2>6. Key' = Key
    <3>1. ("strict" \in allowed') = ("strict" \in allowed)
      BY <2>5
    <3> QED BY <2>4, <3>1, Zenon DEF Key, Prefix
  <2> QED BY <1>3, <2>4, <2>5, <2>6 DEF Still
<1> QED BY <1>2, <1>3

LEMMA KeyBehind == ASSUME UniTypeOK, AnalystTypeOK PROVE Behind(Key)
<1>1. ("strict" \in allowed) \in BOOLEAN
  OBVIOUS
<1>2. PICK s \in BOOLEAN : s = ("strict" \in allowed)
  BY <1>1, Zenon
<1>3. Key = <<brief, tradable, s>>
  BY <1>2, Zenon DEF Key, Prefix
<1>4. brief \in Nat /\ tradable \in SUBSET Markets /\ ("strict" \in allowed => s)
  BY <1>2 DEF UniTypeOK, AnalystTypeOK
<1> QED BY <1>3, <1>4 DEF Behind

LEMMA StillKey == Still => Key' = Key
<1> SUFFICES ASSUME Still PROVE Key' = Key
  OBVIOUS
<1>1. ("strict" \in allowed') = ("strict" \in allowed)
  BY DEF Still
<1> QED BY <1>1, Zenon DEF Still, Key, Prefix

LEMMA SameMeans == ASSUME NEW c, Same(c) PROVE Sent(c) = Key
<1>1. ("strict" \in c.opts) = ("strict" \in allowed)
  BY DEF Same
<1>2. c.about[1] = brief /\ c.about[2] = tradable
  BY DEF Same
<1> QED BY <1>1, <1>2, Zenon DEF Sent, Key, Prefix

(* What a request leaves in the API's cache.                               *)
LEMMA TouchedIs ==
  ASSUME NEW c \in Calls, \A k \in DOMAIN hot : hot[k] \in Nat, hot' = Touched(c)
  PROVE  /\ DOMAIN hot \subseteq DOMAIN hot'
         /\ \A k \in DOMAIN hot : hot[k] <= hot'[k]
         /\ \A k \in DOMAIN hot' : hot'[k] \in Nat
         /\ c.kind \in {"fast", "warm"} => Sent(c) \in DOMAIN hot' /\ c.born <= hot'[Sent(c)]
         /\ c.kind \notin {"fast", "warm"} => hot' = hot
<1>1. c.born \in Nat
  BY DEF Calls
<1>2. CASE c.kind \notin {"fast", "warm"}
  BY <1>2 DEF Touched
<1>3. CASE c.kind \in {"fast", "warm"}
  <2> DEFINE at == Sent(c)
  <2> HIDE DEF at
  <2>1. hot' = [k \in DOMAIN hot \cup {at} |->
                  IF k # at \/ (k \in DOMAIN hot /\ hot[k] > c.born) THEN hot[k] ELSE c.born]
    BY <1>3, Zenon DEF Touched, at
  <2>2. /\ DOMAIN hot' = DOMAIN hot \cup {at}
        /\ \A k \in DOMAIN hot : hot[k] <= hot'[k]
        /\ \A k \in DOMAIN hot' : hot'[k] \in Nat
        /\ c.born <= hot'[at]
    BY <1>1, <2>1
  <2> QED BY <1>3, <2>2 DEF at
<1> QED BY <1>2, <1>3

(* What Same says of a request after the step.                             *)
SameThen(c) == c.about = <<brief', tradable'>> /\ ("strict" \in c.opts <=> "strict" \in allowed')

(* A step in which no warming call ends: the markets and the brief move    *)
(* on or stay, requests begin, go on or end, an analysis may use a prefix. *)
LEMMA HotKeeps ==
  ASSUME UniTypeOK, AnalystTypeOK, AnalystTypeOK', HotInv,
         brief <= brief', tradable \subseteq tradable', allowed' \subseteq allowed,
         UNCHANGED <<now, warmKey>>,
         DOMAIN hot \subseteq DOMAIN hot',
         \A k \in DOMAIN hot : hot[k] <= hot'[k],
         \A k \in DOMAIN hot' : hot'[k] \in Nat,
         \/ usedAt' = usedAt
         \/ usedAt' = now /\ (warmKey = Key => Key \in DOMAIN hot' /\ now <= hot'[Key] + MaxCall),
         \A p \in Callers : Active(p)' => InTime(call'[p]),
         Still => \A p \in Headlines : call'[p].kind = "fast" =>
           \/ SameThen(call'[p])
           \/ call[p].kind = "fast" /\ call'[p].born = call[p].born /\ ~Same(call[p]),
         Active("warmer")' =>
           \/ /\ call'["warmer"].key = Key /\ call'["warmer"].born = now
              /\ Still /\ SameThen(call'["warmer"])
           \/ /\ Active("warmer") /\ call'["warmer"].key = call["warmer"].key
              /\ call'["warmer"].born = call["warmer"].born
              /\ Still /\ Same(call["warmer"]) => SameThen(call'["warmer"])
  PROVE  HotInv'
<1>1. /\ brief \in Nat /\ brief' \in Nat /\ tradable \in SUBSET Markets /\ allowed \in SUBSET Options
      /\ now \in Nat /\ MaxCall \in Nat
  BY AnalystAssumption DEF UniTypeOK, AnalystTypeOK
<1>2. \A k : Behind(k) => /\ Behind(k)'
                          /\ k = Key' => Still /\ k = Key
  BY <1>1, KeyMovesOn
<1>3. usedAt' \in Nat /\ usedAt' <= now'
  BY <1>1 DEF HotInv
<1>4. \A p \in Callers : Active(p)' => InTime(call[p])'
  BY DEF InTime
<1>5. \A at \in Nat, to \in Nat :
        at <= to /\ Still /\ (\A p \in Headlines : OldOrSame(p, at)) =>
          \A p \in Headlines : call'[p].kind = "fast" => SameThen(call'[p]) \/ call'[p].born <= to
  <2> SUFFICES ASSUME NEW at \in Nat, NEW to \in Nat, at <= to, Still, NEW p \in Headlines,
                      OldOrSame(p, at), call'[p].kind = "fast", ~SameThen(call'[p])
               PROVE  call'[p].born <= to
    OBVIOUS
  <2>1. call[p].kind = "fast" /\ call'[p].born = call[p].born /\ call[p].born <= at
    BY DEF OldOrSame
  <2>2. call[p].born \in Nat
    BY <2>1, ActiveIs DEF Calls, Callers
  <2> QED BY <2>1, <2>2
<1>6. warmKey' # NoKey => Behind(warmKey)'
  <2>1. warmKey # NoKey => Behind(warmKey)
    BY DEF HotInv
  <2>2. \A k : k = warmKey /\ k # NoKey => Behind(k)'
    BY <1>2, <2>1
  <2> QED BY <2>2 DEF Behind
<1>7. ASSUME warmKey' = Key'
      PROVE  /\ Key' \in DOMAIN hot' /\ usedAt' <= hot'[Key'] + MaxCall
             /\ \A p \in Headlines : OldOrSame(p, hot[Key])'
  <2>1. warmKey # NoKey
    BY <1>7, KeyIsSome DEF Key, Prefix
  <2>2. Still /\ warmKey = Key /\ Key' = Key
    BY <1>2, <1>7, <2>1 DEF HotInv
  <2>3. /\ Key \in DOMAIN hot /\ usedAt <= hot[Key] + MaxCall
        /\ \A p \in Headlines : OldOrSame(p, hot[Key])
        /\ usedAt \in Nat
    BY <2>2 DEF HotInv
  <2>4. /\ hot[Key] \in Nat /\ hot'[Key] \in Nat /\ hot[Key] <= hot'[Key] /\ Key \in DOMAIN hot'
    BY <2>3 DEF HotInv
  <2>5. usedAt' <= hot'[Key] + MaxCall
    BY <1>1, <2>2, <2>3, <2>4
  <2>6. \A p \in Headlines : call'[p].kind = "fast" =>
          SameThen(call'[p]) \/ call'[p].born <= hot'[Key]
    BY <1>5, <2>2, <2>3, <2>4
  <2>7. \A p \in Headlines : OldOrSame(p, hot[Key])'
    BY <2>2, <2>6 DEF OldOrSame, Same, SameThen
  <2> QED BY <2>2, <2>4, <2>5, <2>7
<1>8. ASSUME Active("warmer")'
      PROVE  /\ Behind(call["warmer"].key)'
             /\ call'["warmer"].key = Key' =>
                  /\ Same(call["warmer"])'
                  /\ \A p \in Headlines : OldOrSame(p, call["warmer"].born)'
  <2> DEFINE w == call'["warmer"]
  <2>1. "warmer" \in Callers
    BY DEF Callers
  <2>2. CASE w.key = Key /\ w.born = now /\ Still /\ SameThen(w)
    <3>1. \A k : k = w.key => Behind(k)'
      BY <1>2, <2>2, KeyBehind
    <3>2. \A p \in Headlines : call'[p].kind = "fast" => call'[p].born <= now
      <4> SUFFICES ASSUME NEW p \in Headlines, call'[p].kind = "fast" PROVE call'[p].born <= now
        OBVIOUS
      <4>1. p \in Callers /\ Active(p)'
        BY DEF Active, NoCall, Callers
      <4> QED BY <4>1 DEF InTime
    <3> QED BY <2>2, <3>1, <3>2 DEF OldOrSame, Same, SameThen, Behind
  <2>3. CASE /\ Active("warmer") /\ w.key = call["warmer"].key /\ w.born = call["warmer"].born
             /\ Still /\ Same(call["warmer"]) => SameThen(w)
    <3>1. \A k : k = w.key => Behind(k)'
      BY <1>2, <2>3 DEF HotInv
    <3>2. ASSUME w.key = Key'
          PROVE  /\ SameThen(w)
                 /\ \A p \in Headlines : call'[p].kind = "fast" =>
                      SameThen(call'[p]) \/ call'[p].born <= w.born
      <4>1. Behind(call["warmer"].key)
        BY <2>3 DEF HotInv
      <4>2. Still /\ call["warmer"].key = Key
        BY <1>2, <2>3, <3>2, <4>1
      <4>3. /\ Same(call["warmer"]) /\ \A p \in Headlines : OldOrSame(p, call["warmer"].born)
        BY <2>3, <4>2 DEF HotInv
      <4>4. w.born \in Nat
        BY <2>1, <2>3, ActiveIs DEF Calls
      <4> QED BY <1>5, <2>3, <4>2, <4>3, <4>4
    <3> QED BY <3>1, <3>2 DEF OldOrSame, Same, SameThen, Behind
  <2> QED BY <1>8, <2>2, <2>3
<1> QED BY <1>3, <1>4, <1>6, <1>7, <1>8 DEF HotInv

Asked(r) ==
  /\ r \in Calls /\ r.born = now
  /\ r.kind = "fast" => r.about = <<brief, tradable>> /\ r.opts = allowed
  /\ r.kind = "warm" => /\ r.about = <<brief, tradable>> /\ r.opts = allowed \cap {"strict"}
                        /\ r.key = Key

LEMMA RequestAsked ==
  ASSUME UniTypeOK, AnalystTypeOK,
         NEW k \in {"triage", "fast", "smart", "confirm", "provider", "warm"}
  PROVE  Asked(Request(k)) /\ Request(k).kind = k
BY RequestTyped DEF Asked, Optional

(* One request begins, goes on or ends.                                    *)
LEMMA HotMoves ==
  ASSUME UniTypeOK, JudgedInv, JudgedInv', HotInv, UNCHANGED <<now, brief, tradable, warmKey>>,
         NEW p \in Callers, NEW r, call' = [call EXCEPT ![p] = r],
         allowed' \subseteq allowed,
         DOMAIN hot \subseteq DOMAIN hot',
         \A k \in DOMAIN hot : hot[k] <= hot'[k],
         \A k \in DOMAIN hot' : hot'[k] \in Nat,
         \/ usedAt' = usedAt
         \/ usedAt' = now /\ (warmKey = Key => Key \in DOMAIN hot' /\ now <= hot'[Key] + MaxCall),
         \/ r = NoCall
         \/ Asked(r) /\ allowed' = allowed
         \/ /\ Active(p) /\ Retry(call[p], r)
            /\ \/ r.opts = call[p].opts /\ allowed' = allowed
               \/ r.opts = {} /\ allowed' = allowed \ call[p].opts
  PROVE  HotInv'
<1>1. /\ AnalystTypeOK /\ AnalystTypeOK' /\ now \in Nat /\ MaxCall \in Nat \ {0}
      /\ brief <= brief' /\ tradable \subseteq tradable'
  BY AnalystAssumption DEF UniTypeOK, JudgedInv, AnalystTypeOK
<1>2. call'[p] = r /\ \A q \in Callers : q # p => call'[q] = call[q]
  BY <1>1, CallEdited
<1>3. \A q \in Callers : Active(q)' <=> call'[q] # NoCall
  BY DEF Active, NoCall
<1>4. \A q \in Callers : Active(q)' => InTime(call'[q])
  <2>1. ASSUME NEW q \in Callers, call'[q] # NoCall, q # p PROVE InTime(call'[q])
    BY <1>2, <2>1 DEF HotInv, Active
  <2>2. ASSUME r # NoCall PROVE InTime(r)
    <3>1. CASE Asked(r)
      BY <1>1, <3>1 DEF Asked, InTime
    <3>2. CASE Active(p) /\ Retry(call[p], r)
      BY <3>2 DEF Retry, InTime, HotInv
    <3> QED BY <2>2, <3>1, <3>2
  <2> QED BY <1>2, <1>3, <2>1, <2>2
<1>5. ASSUME Still, NEW q \in Headlines, call'[q].kind = "fast"
      PROVE  \/ SameThen(call'[q])
             \/ call[q].kind = "fast" /\ call'[q].born = call[q].born /\ ~Same(call[q])
  <2>1. CASE q # p
    <3>1. call'[q] = call[q]
      BY <1>2, <2>1 DEF Callers
    <3> QED BY <1>5, <3>1 DEF Same, SameThen, Still
  <2>2. CASE q = p /\ Asked(r) /\ allowed' = allowed
    BY <1>2, <1>5, <2>2 DEF Asked, SameThen
  <2>3. CASE q = p /\ Retry(call[p], r) /\ r.opts = call[p].opts /\ allowed' = allowed
    BY <1>2, <1>5, <2>3 DEF Retry, Same, SameThen
  <2>4. CASE q = p /\ Retry(call[p], r) /\ r.opts = {} /\ allowed' = allowed \ call[p].opts
    BY <1>2, <1>5, <2>4 DEF Retry, Same, SameThen, Still
  <2>5. q = p => r # NoCall
    BY <1>2, <1>5 DEF NoCall
  <2> QED BY <2>1, <2>2, <2>3, <2>4, <2>5
<1>6. ASSUME Active("warmer")'
      PROVE  \/ /\ call'["warmer"].key = Key /\ call'["warmer"].born = now
                /\ Still /\ SameThen(call'["warmer"])
             \/ /\ Active("warmer") /\ call'["warmer"].key = call["warmer"].key
                /\ call'["warmer"].born = call["warmer"].born
                /\ Still /\ Same(call["warmer"]) => SameThen(call'["warmer"])
  <2> DEFINE q == "warmer"
  <2>0. q \in Callers /\ call'[q] # NoCall /\ call'[q].kind = "warm"
    <3>1. q \in Callers /\ call'[q] # NoCall
      BY <1>3, <1>6 DEF Callers
    <3>2. call'[q] \in Calls
      BY <1>1, <3>1 DEF AnalystTypeOK
    <3> QED BY <3>1, <3>2 DEF JudgedInv, Calls
  <2>1. CASE q # p
    <3>1. call'[q] = call[q] /\ Active(q)
      BY <1>2, <2>0, <2>1 DEF Active
    <3> QED BY <3>1 DEF Same, SameThen, Still
  <2>2. CASE q = p /\ Asked(r) /\ allowed' = allowed
    BY <1>2, <2>0, <2>2 DEF Asked, SameThen, Still
  <2>3. CASE q = p /\ Active(p) /\ Retry(call[p], r) /\ r.opts = call[p].opts /\ allowed' = allowed
    BY <1>2, <2>3 DEF Retry, Same, SameThen
  <2>4. CASE q = p /\ Active(p) /\ Retry(call[p], r) /\ r.opts = {} /\ allowed' = allowed \ call[p].opts
    BY <1>2, <2>4 DEF Retry, Same, SameThen, Still
  <2>5. q = p => r # NoCall
    BY <1>2, <2>0
  <2> QED BY <2>1, <2>2, <2>3, <2>4, <2>5
<1> QED BY <1>1, <1>4, <1>5, <1>6, HotKeeps

(* The ways a request moves on that use no prefix.                         *)
LEMMA HotGivesUp ==
  ASSUME UniTypeOK, JudgedInv, JudgedInv', HotInv, UNCHANGED <<now, brief, tradable, warmKey>>,
         NEW p \in Callers, Active(p), NEW byFault, GivesUp(p, byFault),
         DOMAIN hot \subseteq DOMAIN hot',
         \A k \in DOMAIN hot : hot[k] <= hot'[k],
         \A k \in DOMAIN hot' : hot'[k] \in Nat,
         \/ usedAt' = usedAt
         \/ usedAt' = now /\ (warmKey = Key => Key \in DOMAIN hot' /\ now <= hot'[Key] + MaxCall)
  PROVE  HotInv'
<1>1. allowed' = allowed /\ Raised(p)
  BY DEF GivesUp
<1>2. PICK r \in {NoCall, Request("fast"), Request("confirm")} : call' = [call EXCEPT ![p] = r]
  <2>1. call[p].kind \in {"triage", "fast", "smart", "confirm", "provider", "warm"}
    BY CallIs DEF Calls
  <2> QED BY <1>1, <2>1 DEF Raised, Ends, Asks, Main
<1>3. r = NoCall \/ Asked(r)
  BY <1>2, RequestAsked DEF JudgedInv
<1> QED BY <1>1, <1>2, <1>3, HotMoves

LEMMA HotGrows ==
  ASSUME HotInv, hot' = hot
  PROVE  /\ DOMAIN hot \subseteq DOMAIN hot'
         /\ \A k \in DOMAIN hot : hot[k] <= hot'[k]
         /\ \A k \in DOMAIN hot' : hot'[k] \in Nat
BY DEF HotInv

LEMMA HotAgain ==
  ASSUME UniTypeOK, JudgedInv, JudgedInv', HotInv, UNCHANGED <<now, brief, tradable, warmKey, usedAt, hot>>,
         NEW p \in Callers, Active(p), Again(p)
  PROVE  HotInv'
<1>1. call[p] \in Calls
  BY CallIs
<1>2. CASE call[p].tries < Attempts
  <2>1. /\ call' = [call EXCEPT ![p] = [call[p] EXCEPT !.tries = call[p].tries + 1]]
        /\ allowed' = allowed
    BY <1>2 DEF Again
  <2>2. /\ Retry(call[p], [call[p] EXCEPT !.tries = call[p].tries + 1])
        /\ [call[p] EXCEPT !.tries = call[p].tries + 1].opts = call[p].opts
    BY <1>1, Retried DEF JudgedInv
  <2> QED BY <2>1, <2>2, HotGrows, HotMoves
<1>3. CASE ~(call[p].tries < Attempts)
  <2>1. GivesUp(p, TRUE)
    BY <1>3 DEF Again
  <2> QED BY <2>1, HotGrows, HotGivesUp
<1> QED BY <1>2, <1>3

LEMMA HotBadRequest ==
  ASSUME UniTypeOK, JudgedInv, JudgedInv', HotInv, BadRequest PROVE HotInv'
<1>1. PICK p \in Callers :
        /\ Active(p) /\ UNCHANGED <<now, brief, tradable, warmKey, usedAt, hot>>
        /\ CASE call[p].zero ->
                  /\ call' = [call EXCEPT ![p].zero = FALSE, ![p].tries = 1]
                  /\ UNCHANGED <<verdict, second, failed, allowed>>
             [] ~call[p].zero -> Stripped(p) \/ (Strippable(p) = {} /\ GivesUp(p, ~Refuses(call[p])))
  BY Zenon DEF BadRequest, uniVars
<1>2. call[p] \in Calls
  BY <1>1, CallIs
<1>3. CASE call[p].zero
  <2>1. /\ call' = [call EXCEPT ![p] = [call[p] EXCEPT !.zero = FALSE, !.tries = 1]]
        /\ allowed' = allowed
    BY <1>1, <1>3
  <2>2. /\ Retry(call[p], [call[p] EXCEPT !.zero = FALSE, !.tries = 1])
        /\ [call[p] EXCEPT !.zero = FALSE, !.tries = 1].opts = call[p].opts
    BY <1>2, Retried DEF JudgedInv
  <2> QED BY <1>1, <2>1, <2>2, HotGrows, HotMoves
<1>4. CASE ~call[p].zero /\ Stripped(p)
  <2>1. /\ call' = [call EXCEPT ![p] = [call[p] EXCEPT !.opts = {}, !.tries = 1]]
        /\ allowed' = allowed \ call[p].opts
    BY <1>4 DEF Stripped, Strippable
  <2>2. /\ Retry(call[p], [call[p] EXCEPT !.opts = {}, !.tries = 1])
        /\ [call[p] EXCEPT !.opts = {}, !.tries = 1].opts = {}
    BY <1>2, Retried DEF JudgedInv
  <2> QED BY <1>1, <2>1, <2>2, HotGrows, HotMoves
<1>5. CASE ~call[p].zero /\ GivesUp(p, ~Refuses(call[p]))
  BY <1>1, <1>5, HotGrows, HotGivesUp
<1> QED BY <1>1, <1>3, <1>4, <1>5

(* An analysis used its prefix: the one last warmed, or a later one was    *)
(* sent after the warming.                                                 *)
LEMMA AnalysisUses ==
  ASSUME UniTypeOK, JudgedInv, HotInv, NEW p \in Callers, Active(p), hot' = Touched(call[p])
  PROVE  /\ DOMAIN hot \subseteq DOMAIN hot'
         /\ \A k \in DOMAIN hot : hot[k] <= hot'[k]
         /\ \A k \in DOMAIN hot' : hot'[k] \in Nat
         /\ call[p].kind = "fast" /\ warmKey = Key => Key \in DOMAIN hot' /\ now <= hot'[Key] + MaxCall
<1>1. call[p] \in Calls /\ call[p].born \in Nat /\ InTime(call[p])
  BY CallIs DEF Calls, HotInv
<1>2. /\ DOMAIN hot \subseteq DOMAIN hot'
      /\ \A k \in DOMAIN hot : hot[k] <= hot'[k]
      /\ \A k \in DOMAIN hot' : hot'[k] \in Nat
      /\ call[p].kind = "fast" => Sent(call[p]) \in DOMAIN hot' /\ call[p].born <= hot'[Sent(call[p])]
  BY <1>1, TouchedIs DEF HotInv
<1>3. ASSUME call[p].kind = "fast", warmKey = Key
      PROVE  Key \in DOMAIN hot' /\ now <= hot'[Key] + MaxCall
  <2>1. p \in Headlines /\ Key \in DOMAIN hot /\ OldOrSame(p, hot[Key])
    BY <1>3, CallIs DEF HotInv
  <2>2. Key \in DOMAIN hot' /\ hot[Key] \in Nat /\ hot'[Key] \in Nat /\ hot[Key] <= hot'[Key]
    BY <1>2, <2>1 DEF HotInv
  <2>3. call[p].born <= hot'[Key]
    <3>1. CASE Same(call[p])
      BY <1>2, <1>3, <3>1, SameMeans
    <3>2. CASE call[p].born <= hot[Key]
      BY <1>1, <2>2, <3>2
    <3> QED BY <1>3, <2>1, <3>1, <3>2 DEF OldOrSame
  <2>4. now \in Nat /\ MaxCall \in Nat
    BY AnalystAssumption DEF UniTypeOK
  <2> QED BY <1>1, <2>2, <2>3, <2>4 DEF InTime
<1> QED BY <1>2, <1>3

LEMMA HotGarbled ==
  ASSUME UniTypeOK, JudgedInv, JudgedInv', HotInv, Garbled PROVE HotInv'
<1>1. PICK p \in Callers :
        /\ Active(p) /\ hot' = Touched(call[p]) /\ GivesUp(p, TRUE)
        /\ usedAt' = IF call[p].kind = "fast" THEN now ELSE usedAt
        /\ UNCHANGED <<now, brief, tradable, warmKey>>
  BY Zenon DEF Garbled, uniVars
<1>2. \/ usedAt' = usedAt
      \/ usedAt' = now /\ (warmKey = Key => Key \in DOMAIN hot' /\ now <= hot'[Key] + MaxCall)
  BY <1>1, AnalysisUses
<1> QED BY <1>1, <1>2, AnalysisUses, HotGivesUp

(* A warming call ends: its prefix was sent when it began, which is after  *)
(* any analysis with another prefix if that prefix is still the current.   *)
LEMMA HotWarmed ==
  ASSUME UniTypeOK, JudgedInv, JudgedInv', HotInv, UNCHANGED <<now, brief, tradable, allowed>>,
         Active("warmer"), hot' = Touched(call["warmer"]), AfterWarm("warmer")
  PROVE  HotInv'
<1> DEFINE w == call["warmer"]
<1>1. "warmer" \in Callers /\ "warmer" \notin Headlines
  BY AnalystAssumption DEF Callers
<1>2. w \in Calls /\ w.born \in Nat /\ InTime(w) /\ Behind(w.key) /\ w.kind = "warm"
  BY <1>1, CallIs DEF Calls, HotInv
<1>3. /\ call' = [call EXCEPT !["warmer"] = NoCall] /\ warmKey' = w.key /\ usedAt' = now
  BY DEF AfterWarm, Ends, WarmedKey
<1>4. /\ \A k \in DOMAIN hot' : hot'[k] \in Nat
      /\ Sent(w) \in DOMAIN hot' /\ w.born <= hot'[Sent(w)]
  BY <1>2, TouchedIs DEF HotInv
<1>5. ~Active("warmer")' /\ \A q \in Callers : q # "warmer" => call'[q] = call[q]
  BY <1>1, <1>3, CallEdited DEF Active, JudgedInv, NoCall
<1>6. Key' = Key /\ now \in Nat /\ MaxCall \in Nat
  BY AnalystAssumption, StillKey DEF Still, UniTypeOK
<1>7. \A q \in Callers : Active(q)' => InTime(call[q])'
  BY <1>5 DEF HotInv, Active, InTime, NoCall
<1>8. \A k : k = w.key => Behind(k)'
  BY <1>2 DEF Behind
<1>9. ASSUME w.key = Key
      PROVE  /\ Key \in DOMAIN hot' /\ now <= hot'[Key] + MaxCall
             /\ \A p \in Headlines : call'[p].kind = "fast" =>
                  Same(call'[p]) \/ call'[p].born <= hot'[Key]
  <2>1. Same(w) /\ \A p \in Headlines : OldOrSame(p, w.born)
    BY <1>9 DEF HotInv
  <2>2. Sent(w) = Key
    BY <2>1, SameMeans
  <2>3. Key \in DOMAIN hot' /\ hot'[Key] \in Nat /\ w.born <= hot'[Key]
    BY <1>4, <2>2
  <2>4. now <= hot'[Key] + MaxCall
    BY <1>2, <1>6, <2>3 DEF InTime
  <2>5. ASSUME NEW p \in Headlines, call'[p].kind = "fast"
        PROVE  Same(call'[p]) \/ call'[p].born <= hot'[Key]
    <3>1. p \in Callers /\ call'[p] = call[p]
      BY <1>1, <1>5, <2>5 DEF Callers
    <3>2. call[p].born \in Nat
      BY <2>5, <3>1, ActiveIs DEF Calls, JudgedInv
    <3>3. Same(call[p]) \/ call[p].born <= w.born
      BY <2>1, <2>5, <3>1 DEF OldOrSame
    <3> QED BY <1>2, <2>3, <3>1, <3>2, <3>3
  <2> QED BY <2>3, <2>4, <2>5
<1>10. warmKey' = Key' => /\ Key' \in DOMAIN hot' /\ usedAt' <= hot'[Key'] + MaxCall
                          /\ \A p \in Headlines : OldOrSame(p, hot[Key])'
  BY <1>3, <1>6, <1>9 DEF OldOrSame, Same
<1>11. Behind(warmKey)'
  BY <1>3, <1>8 DEF Behind
<1>12. usedAt' \in Nat /\ usedAt' <= now'
  BY <1>3, <1>6
<1> QED BY <1>4, <1>5, <1>7, <1>10, <1>11, <1>12 DEF HotInv

LEMMA HotReplies ==
  ASSUME UniTypeOK, JudgedInv, JudgedInv', HotInv, Replies PROVE HotInv'
<1>1. PICK p \in Callers :
        /\ Active(p) /\ hot' = Touched(call[p]) /\ UNCHANGED <<now, brief, tradable, allowed>>
        /\ AfterTriage(p) \/ AfterAnalysis(p) \/ AfterConfirm(p) \/ AfterWarm(p)
  BY DEF Replies, uniVars
<1>2. CASE AfterWarm(p)
  <2>1. p = "warmer"
    BY <1>1, <1>2, CallIs DEF AfterWarm
  <2> QED BY <1>1, <1>2, <2>1, HotWarmed
<1>3. CASE AfterTriage(p) \/ AfterAnalysis(p) \/ AfterConfirm(p)
  <2>1. PICK r \in {NoCall, Request("fast"), Request("smart"), Request("confirm")} :
          call' = [call EXCEPT ![p] = r]
    BY <1>3 DEF AfterTriage, AfterAnalysis, AfterConfirm, Asks, Ends
  <2>2. r = NoCall \/ Asked(r)
    BY <2>1, RequestAsked DEF JudgedInv
  <2>3. /\ warmKey' = warmKey
        /\ \/ usedAt' = usedAt
           \/ usedAt' = now /\ call[p].kind = "fast"
    BY <1>3 DEF AfterTriage, AfterAnalysis, AfterConfirm
  <2> QED BY <1>1, <2>1, <2>2, <2>3, AnalysisUses, HotMoves
<1> QED BY <1>1, <1>2, <1>3

(* Nothing happens to the requests.                                        *)
LEMMA HotRests ==
  ASSUME UniTypeOK, JudgedInv, JudgedInv', HotInv,
         UNCHANGED <<now, allowed, call, warmKey, usedAt, hot>>,
         brief <= brief', tradable \subseteq tradable'
  PROVE  HotInv'
<1>1. AnalystTypeOK /\ AnalystTypeOK'
  BY DEF JudgedInv
<1>2. \A p \in Callers : Active(p)' => InTime(call'[p])
  BY DEF HotInv, Active, NoCall
<1>3. Still => \A p \in Headlines : call'[p].kind = "fast" =>
        \/ SameThen(call'[p])
        \/ call[p].kind = "fast" /\ call'[p].born = call[p].born /\ ~Same(call[p])
  BY DEF Still, Same, SameThen
<1>4. Active("warmer")' => /\ Active("warmer") /\ call'["warmer"].key = call["warmer"].key
                           /\ call'["warmer"].born = call["warmer"].born
                           /\ Still /\ Same(call["warmer"]) => SameThen(call'["warmer"])
  BY DEF Still, Same, SameThen, Active, NoCall
<1> QED BY <1>1, <1>2, <1>3, <1>4, HotGrows, HotKeeps

LEMMA HotTick == ASSUME UniTypeOK, JudgedInv, HotInv, Tick PROVE HotInv'
<1>1. /\ now' = now + 1 /\ UNCHANGED <<tradable, brief, allowed, warmKey, usedAt, call, hot>>
      /\ \A p \in Callers : Active(p) => now - call[p].born < MaxCall
  BY Zenon DEF Tick, analystVars
<1>2. now \in Nat /\ MaxCall \in Nat
  BY AnalystAssumption DEF UniTypeOK
<1>3. Key' = Key
  BY <1>1, StillKey DEF Still
<1>4. ASSUME NEW p \in Callers, Active(p)' PROVE InTime(call[p])'
  <2>1. Active(p) /\ call'[p] = call[p]
    BY <1>1, <1>4 DEF Active, NoCall
  <2>2. call[p].born \in Nat
    BY <2>1, CallIs DEF Calls
  <2> QED BY <1>1, <1>2, <2>1, <2>2 DEF HotInv, InTime
<1>5. /\ usedAt' \in Nat /\ usedAt' <= now'
      /\ \A k \in DOMAIN hot' : hot'[k] \in Nat
  BY <1>1, <1>2 DEF HotInv
<1>6. warmKey' # NoKey => Behind(warmKey)'
  BY <1>1 DEF HotInv, Behind, NoKey
<1>7. warmKey' = Key' => /\ Key' \in DOMAIN hot' /\ usedAt' <= hot'[Key'] + MaxCall
                         /\ \A p \in Headlines : OldOrSame(p, hot[Key])'
  BY <1>1, <1>3 DEF HotInv, OldOrSame, Same
<1>8. Active("warmer")' =>
        /\ Behind(call["warmer"].key)'
        /\ call'["warmer"].key = Key' =>
             /\ Same(call["warmer"])'
             /\ \A p \in Headlines : OldOrSame(p, call["warmer"].born)'
  BY <1>1, <1>3 DEF HotInv, OldOrSame, Same, Active, Behind, NoCall
<1> QED BY <1>4, <1>5, <1>6, <1>7, <1>8 DEF HotInv

(* The process starts again with nothing warmed and nothing under way.     *)
LEMMA HotRestarts == ASSUME UniTypeOK, HotInv, Restart PROVE HotInv'
<1>1. /\ warmKey' = NoKey /\ usedAt' = 0 /\ call' = [p \in Callers |-> NoCall]
      /\ UNCHANGED <<hot, now>>
  BY DEF Restart, UniRestarts
<1>2. warmKey' # Key'
  <2>1. Key' = <<brief', tradable', "strict" \in allowed'>>
    BY DEF Key, Prefix
  <2> QED BY <1>1, <2>1, KeyIsSome
<1>3. \A p \in Callers : ~Active(p)'
  BY <1>1 DEF Active, NoCall
<1>4. ~Active("warmer")'
  BY <1>3 DEF Callers
<1> QED BY <1>1, <1>2, <1>3, <1>4 DEF HotInv, UniTypeOK

LEMMA NextHot ==
  ASSUME UniInv, Grown, JudgedInv, JudgedInv', HotInv, listed \subseteq listed', [Next]_vars
  PROVE  HotInv'
<1>0. UniTypeOK
  BY DEF UniInv
<1>1. CASE UniNext /\ UNCHANGED analystVars
  <2>1. tradable \subseteq tradable' /\ now' = now
    BY <1>1, UniStepGrows DEF UniNext, List, Delist, BeginRefresh, LoadDex, DexFails
  <2>2. brief' = brief /\ UNCHANGED <<allowed, call, warmKey, usedAt, hot>> /\ brief \in Nat
    BY <1>1 DEF analystVars, JudgedInv, AnalystTypeOK
  <2> QED BY <1>0, <2>1, <2>2, HotRests
<1>2. CASE Start
  <2>1. PICK h \in Headlines, k \in {"triage", "fast", "provider"} :
          /\ call' = [call EXCEPT ![h] = Request(k)]
          /\ UNCHANGED <<now, brief, tradable, allowed, warmKey, usedAt, hot>>
    BY <1>2 DEF Start, uniVars
  <2>2. Asked(Request(k)) /\ h \in Callers
    BY <1>0, RequestAsked DEF JudgedInv, Callers
  <2> QED BY <1>0, <2>1, <2>2, HotGrows, HotMoves
<1>3. CASE Replies
  BY <1>0, <1>3, HotReplies
<1>4. CASE ProviderReplies
  <2>1. PICK p \in Headlines :
          /\ call' = [call EXCEPT ![p] = NoCall]
          /\ UNCHANGED <<now, brief, tradable, allowed, warmKey, usedAt, hot>>
    BY <1>4 DEF ProviderReplies, uniVars, Ends
  <2> QED BY <1>0, <2>1, HotGrows, HotMoves DEF Callers
<1>5. CASE Garbled
  BY <1>0, <1>5, HotGarbled
<1>6. CASE Transient
  <2>1. PICK p \in Callers :
          Active(p) /\ Again(p) /\ UNCHANGED <<now, brief, tradable, warmKey, usedAt, hot>>
    BY <1>6 DEF Transient, uniVars
  <2> QED BY <1>0, <2>1, HotAgain
<1>7. CASE EmptyReply
  <2>1. PICK p \in Headlines :
          /\ call[p].kind = "provider" /\ Again(p)
          /\ UNCHANGED <<now, brief, tradable, warmKey, usedAt, hot>>
    BY <1>7 DEF EmptyReply, uniVars
  <2>2. p \in Callers /\ Active(p)
    BY <2>1, ActiveIs DEF Callers, JudgedInv
  <2> QED BY <1>0, <2>1, <2>2, HotAgain
<1>8. CASE BadRequest
  BY <1>0, <1>8, HotBadRequest
<1>9. CASE Warm
  <2>1. /\ call' = [call EXCEPT !["warmer"] = Request("warm")]
        /\ UNCHANGED <<now, brief, tradable, allowed, warmKey, usedAt, hot>>
    BY <1>9 DEF Warm, Asks, uniVars
  <2>2. Asked(Request("warm")) /\ "warmer" \in Callers
    BY <1>0, RequestAsked DEF JudgedInv, Callers
  <2> QED BY <1>0, <2>1, <2>2, HotGrows, HotMoves
<1>10. CASE RefreshRegime
  <2>1. /\ brief' = brief + 1 /\ brief \in Nat
        /\ UNCHANGED <<now, tradable, allowed, call, warmKey, usedAt, hot>>
    BY <1>10 DEF RefreshRegime, uniVars, JudgedInv, AnalystTypeOK
  <2> QED BY <1>0, <2>1, HotRests
<1>11. CASE Tick
  BY <1>0, <1>11, HotTick
<1>12. CASE Restart
  BY <1>0, <1>12, HotRestarts
<1>13. CASE UNCHANGED vars
  <2>1. /\ brief' = brief /\ brief \in Nat
        /\ UNCHANGED <<now, tradable, allowed, call, warmKey, usedAt, hot>>
    BY <1>13 DEF vars, uniVars, analystVars, JudgedInv, AnalystTypeOK
  <2> QED BY <1>0, <2>1, HotRests
<1> QED BY <1>1, <1>2, <1>3, <1>4, <1>5, <1>6, <1>7, <1>8, <1>9, <1>10, <1>11, <1>12, <1>13 DEF Next

LEMMA InitHot == Init => HotInv
<1> SUFFICES ASSUME Init PROVE HotInv
  OBVIOUS
<1>1. /\ now = 1 /\ usedAt = 0 /\ warmKey = NoKey /\ hot = <<>>
      /\ call = [p \in Callers |-> NoCall]
  BY DEF Init, UniInit
<1>2. warmKey # Key
  BY <1>1, KeyIsSome DEF Key, Prefix
<1>3. \A p \in Callers : ~Active(p)
  BY <1>1 DEF Active
<1>4. ~Active("warmer")
  BY <1>3 DEF Callers
<1>5. DOMAIN hot = {}
  BY <1>1
<1> QED BY <1>1, <1>2, <1>3, <1>4, <1>5 DEF HotInv

(* When the keep-warm loop finds nothing to do, the prefix the next        *)
(* headline will use is in the API's cache, for any number of headlines,   *)
(* refreshes and restarts, as long as no market is delisted (analyzer.py,  *)
(* maybe_warm_cache: _warm_key and _prefix_used_at stand for one prefix).  *)
THEOREM KeptHot == NothingLeaves => (Spec => []PrefixIsHot)
<1>1. Init => UniInv /\ Grown /\ JudgedInv /\ HotInv
  BY UniInitial, InitGrown, InitJudged, InitHot
<1>2. UniInv /\ [Next]_vars => UniInv'
  BY StepOfAnalyst, UniStepKeeps
<1>3. UniInv /\ JudgedInv /\ [Next]_vars => JudgedInv'
  BY NextJudged
<1>4. UniInv /\ Grown /\ [Next]_vars /\ [listed \subseteq listed']_vars => Grown'
  <2>1. [listed \subseteq listed']_vars => listed \subseteq listed'
    BY DEF vars, uniVars
  <2> QED BY <2>1, NextGrown
<1>5. UniInv /\ Grown /\ JudgedInv /\ JudgedInv' /\ HotInv /\ [Next]_vars
        /\ [listed \subseteq listed']_vars => HotInv'
  <2>1. [listed \subseteq listed']_vars => listed \subseteq listed'
    BY DEF vars, uniVars
  <2> QED BY <2>1, NextHot
<1>6. UniInv /\ HotInv => PrefixIsHot
  <2> SUFFICES ASSUME UniInv, HotInv, Up, Skips PROVE Key \in DOMAIN hot /\ now - hot[Key] < MaxIdle + MaxCall
    BY DEF PrefixIsHot
  <2>1. /\ Key \in DOMAIN hot /\ usedAt <= hot[Key] + MaxCall /\ hot[Key] \in Nat
        /\ now - usedAt < MaxIdle /\ usedAt \in Nat
    BY DEF HotInv, Skips
  <2>2. now \in Nat /\ MaxIdle \in Nat /\ MaxCall \in Nat
    BY AnalystAssumption DEF UniInv, UniTypeOK
  <2> QED BY <2>1, <2>2
<1> QED BY <1>1, <1>2, <1>3, <1>4, <1>5, <1>6, PTL DEF Spec, NothingLeaves
===============================================================================
