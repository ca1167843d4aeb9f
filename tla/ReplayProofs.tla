------------------------------ MODULE ReplayProofs ------------------------------
(***************************************************************************)
(* What a replay promises, for any headlines, limits of the portfolio,     *)
(* faults and number of runs.                                              *)
(*                                                                         *)
(* That a resumed run converges is an invariant of every headline on the   *)
(* way, not only of the end: without a failed call, the book is that of    *)
(* the run nothing disturbs (Uninterrupted), but for how what a trade      *)
(* earned is split into result and funding (Same).  A judgement keeps two  *)
(* such books the same, because every limit reads the sum of both only.    *)
(* The memory of each verdict on file follows from it, and the brief from  *)
(* the timeline never being written twice.                                 *)
(***************************************************************************)
EXTENDS Replay, FiniteSetTheorems, SequenceTheorems, WellFoundedInduction, TLAPS

(***************************************************************************)
(* Sums over finite sets, as the fold that Notional and Realized are made  *)
(* of computes them.  What is needed of them follows from one fact: a      *)
(* nonempty family of subsets of a finite set has a minimal member.        *)
(***************************************************************************)
LEMMA Least ==
  ASSUME NEW T, T \subseteq Nat, T # {}
  PROVE  \E x \in T : \A y \in T : x <= y
<1> DEFINE R == OpToRel(<, Nat)
<1>1. IsWellFoundedOn(R, Nat)
  BY NatLessThanWellFounded
<1> HIDE DEF R
<1>2. PICK x \in T : \A y \in T : ~(<<y, x>> \in R)
  BY <1>1, WFMin, Zenon
<1>3. R = {ss \in Nat \X Nat : ss[1] < ss[2]}
  BY DEF R, OpToRel
<1>4. \A y \in T : ~(y < x)
  BY <1>2, <1>3
<1> QED BY <1>4

LEMMA Minimal ==
  ASSUME NEW S, IsFiniteSet(S), NEW B, B \subseteq SUBSET S, B # {}
  PROVE  \E s \in B : \A t \in SUBSET s : t # s => t \notin B
<1> DEFINE T == {Cardinality(s) : s \in B}
<1>1. \A s \in B : IsFiniteSet(s) /\ Cardinality(s) \in Nat
  BY FS_Subset, FS_CardinalityType
<1>2. PICK s \in B : \A r \in B : Cardinality(s) <= Cardinality(r)
  <2>1. T \subseteq Nat /\ T # {}
    BY <1>1
  <2>2. PICK n \in T : \A m \in T : n <= m
    BY <2>1, Least
  <2> QED BY <2>2
<1>3. ASSUME NEW t \in SUBSET s, t # s, t \in B PROVE FALSE
  <2>1. Cardinality(t) < Cardinality(s)
    BY <1>1, <1>3, FS_Subset
  <2> QED BY <1>1, <1>2, <1>3, <2>1
<1> QED BY <1>3

First(s) == CHOOSE x \in s : TRUE
Fold(p, f, s) == IF s = {} THEN 0 ELSE p[First(s)] + f[s \ {First(s)}]
AreTotals(f, p, S) == f = [s \in SUBSET S |-> Fold(p, f, s)]
Totals(p, S) == CHOOSE f : AreTotals(f, p, S)
Total(p, S) == Totals(p, S)[S]

LEMMA TotalIs ==
  ASSUME NEW p, NEW S
  PROVE  SumFunctionOnSet(p, S) = Total(p, S)
BY Zenon DEF SumFunctionOnSet, FoldFunctionOnSet, MapThenFoldSet, Total, Totals, AreTotals,
             Fold, First

LEMMA TotalsExist ==
  ASSUME NEW S, IsFiniteSet(S), NEW p
  PROVE  \E f : AreTotals(f, p, S)
<1> DEFINE D(n)    == {s \in SUBSET S : Cardinality(s) <= n}
           Good(n) == \E g : g = [s \in D(n) |-> Fold(p, g, s)]
           Bad     == {n \in Nat : ~Good(n)}
<1>1. \A s \in SUBSET S : IsFiniteSet(s) /\ Cardinality(s) \in Nat
  BY FS_Subset, FS_CardinalityType
<1>2. ASSUME NEW s \in SUBSET S, s # {}
      PROVE  /\ s \ {First(s)} \in SUBSET S
             /\ Cardinality(s \ {First(s)}) = Cardinality(s) - 1
             /\ Cardinality(s) # 0
  <2>1. First(s) \in s
    BY <1>2 DEF First
  <2> QED BY <1>1, <1>2, <2>1, FS_RemoveElement, FS_EmptySet
<1>3. ASSUME Bad # {} PROVE FALSE
  <2>1. PICK n \in Bad : \A m \in Bad : n <= m
    <3>1. Bad \subseteq Nat
      OBVIOUS
    <3> HIDE DEF Bad
    <3> QED BY <1>3, <3>1, Least
  <2>2. n \in Nat /\ ~Good(n)
    BY <2>1
  <2>3. CASE n = 0
    <3> DEFINE g == [s \in D(0) |-> 0]
    <3>1. ASSUME NEW s \in D(0) PROVE Fold(p, g, s) = 0
      <4>1. Cardinality(s) \in Nat /\ Cardinality(s) <= 0 /\ (s # {} => Cardinality(s) # 0)
        BY <1>1, <1>2
      <4> QED BY <4>1 DEF Fold
    <3>2. g = [s \in D(0) |-> Fold(p, g, s)]
      BY <3>1
    <3> QED BY <2>2, <2>3, <3>2
  <2>4. CASE n # 0
    <3>1. n - 1 \in Nat /\ n - 1 \notin Bad
      <4>1. n - 1 \in Nat /\ ~(n <= n - 1)
        BY <2>2, <2>4
      <4> HIDE DEF Bad
      <4> QED BY <2>1, <4>1
    <3>2. PICK g : g = [s \in D(n - 1) |-> Fold(p, g, s)]
      BY <3>1
    <3> DEFINE h == [s \in D(n) |-> Fold(p, g, s)]
    <3>3. ASSUME NEW s \in D(n), s # {}
          PROVE  s \ {First(s)} \in D(n - 1) /\ s \ {First(s)} \in D(n)
      <4>1. Cardinality(s \ {First(s)}) = Cardinality(s) - 1 /\ s \ {First(s)} \in SUBSET S
        BY <1>2, <3>3
      <4>2. Cardinality(s) \in Nat /\ Cardinality(s) <= n
        BY <1>1
      <4> QED BY <2>2, <4>1, <4>2
    <3>4. \A s \in D(n - 1) : h[s] = g[s]
      <4>1. ASSUME NEW s \in D(n - 1) PROVE s \in D(n)
        <5>1. Cardinality(s) \in Nat /\ Cardinality(s) <= n - 1
          BY <1>1
        <5> QED BY <2>2, <5>1
      <4>2. \A s \in D(n - 1) : g[s] = Fold(p, g, s)
        BY <3>2, Zenon
      <4> HIDE DEF D
      <4> QED BY <4>1, <4>2
    <3>5. \A s \in D(n) : Fold(p, h, s) = Fold(p, g, s)
      <4> HIDE DEF D, h
      <4> QED BY <3>3, <3>4 DEF Fold
    <3>6. h = [s \in D(n) |-> Fold(p, h, s)]
      <4> HIDE DEF D
      <4> QED BY <3>5
    <3> HIDE DEF h, D
    <3> QED BY <2>2, <3>6
  <2> QED BY <2>3, <2>4
<1>4. Cardinality(S) \in Nat /\ D(Cardinality(S)) = SUBSET S
  BY <1>1, FS_CardinalityType, FS_Subset
<1>5. PICK g : g = [s \in D(Cardinality(S)) |-> Fold(p, g, s)]
  BY <1>3, <1>4
<1>6. g = [s \in SUBSET S |-> Fold(p, g, s)]
  <2> HIDE DEF D
  <2> QED BY <1>4, <1>5
<1>7. AreTotals(g, p, S)
  BY <1>6, Zenon DEF AreTotals
<1> QED BY <1>7

LEMMA TotalsAre ==
  ASSUME NEW S, IsFiniteSet(S), NEW p
  PROVE  \A s \in SUBSET S : Totals(p, S)[s] = Fold(p, Totals(p, S), s)
<1> DEFINE G == Totals(p, S)
<1>1. AreTotals(G, p, S)
  BY TotalsExist, Zenon DEF Totals
<1> HIDE DEF G
<1>2. \A s \in SUBSET S : G[s] = Fold(p, G, s)
  BY <1>1, Zenon DEF AreTotals
<1> QED BY <1>2 DEF G

(* A sum depends on what is summed only.                                   *)
LEMMA TotalsAgree ==
  ASSUME NEW S, IsFiniteSet(S), NEW T, IsFiniteSet(T), NEW p, NEW q,
         NEW R \in SUBSET S, R \in SUBSET T, \A x \in R : p[x] = q[x]
  PROVE  \A s \in SUBSET R : Totals(p, S)[s] = Totals(q, T)[s]
<1> DEFINE G == Totals(p, S)
           H == Totals(q, T)
           B == {s \in SUBSET R : G[s] # H[s]}
<1>1. \A s \in SUBSET R : G[s] = Fold(p, G, s) /\ H[s] = Fold(q, H, s)
  <2>1. \A s \in SUBSET S : G[s] = Fold(p, G, s)
    BY TotalsAre
  <2>2. \A s \in SUBSET T : H[s] = Fold(q, H, s)
    BY TotalsAre
  <2> HIDE DEF G, H
  <2> QED BY <2>1, <2>2
<1> HIDE DEF G, H
<1>2. ASSUME B # {} PROVE FALSE
  <2>1. B \subseteq SUBSET R /\ IsFiniteSet(R)
    BY FS_Subset
  <2>2. PICK s \in B : \A t \in SUBSET s : t # s => t \notin B
    <3> HIDE DEF B
    <3> QED BY <1>2, <2>1, Minimal
  <2>3. G[s] = Fold(p, G, s) /\ H[s] = Fold(q, H, s) /\ G[s] # H[s]
    BY <1>1
  <2>4. s # {}
    BY <2>3 DEF Fold
  <2>5. First(s) \in s
    BY <2>4 DEF First
  <2>6. s \ {First(s)} \in SUBSET s /\ s \ {First(s)} # s /\ s \ {First(s)} \in SUBSET R
    BY <2>5
  <2>7. G[s \ {First(s)}] = H[s \ {First(s)}]
    BY <2>2, <2>6
  <2> QED BY <2>3, <2>4, <2>5, <2>7 DEF Fold
<1> QED BY <1>2 DEF G, H

LEMMA TotalSame ==
  ASSUME NEW S, IsFiniteSet(S), NEW p, NEW q, \A x \in S : p[x] = q[x]
  PROVE  Total(p, S) = Total(q, S)
<1>1. \A s \in SUBSET S : Totals(p, S)[s] = Totals(q, S)[s]
  BY TotalsAgree, S \in SUBSET S
<1> QED BY <1>1 DEF Total

LEMMA TotalPart ==
  ASSUME NEW S, IsFiniteSet(S), NEW p, NEW s \in SUBSET S
  PROVE  Totals(p, S)[s] = Total(p, s)
<1>1. \A r \in SUBSET s : Totals(p, S)[r] = Totals(p, s)[r]
  BY TotalsAgree, FS_Subset, s \in SUBSET s
<1> QED BY <1>1 DEF Total

LEMMA TotalFold ==
  ASSUME NEW S, IsFiniteSet(S), NEW p, S # {}
  PROVE  First(S) \in S /\ Total(p, S) = p[First(S)] + Total(p, S \ {First(S)})
<1>1. First(S) \in S /\ S \in SUBSET S /\ S \ {First(S)} \in SUBSET S
  BY DEF First
<1>2. Total(p, S) = p[First(S)] + Totals(p, S)[S \ {First(S)}]
  BY <1>1, TotalsAre DEF Total, Fold
<1> QED BY <1>1, <1>2, TotalPart

LEMMA TotalNone == \A p : Total(p, {}) = 0
<1> SUFFICES ASSUME NEW p PROVE Total(p, {}) = 0
  OBVIOUS
<1>1. IsFiniteSet({}) /\ {} \in SUBSET {}
  BY FS_EmptySet
<1> QED BY <1>1, TotalsAre DEF Total, Fold

LEMMA TotalType ==
  ASSUME NEW S, IsFiniteSet(S), NEW p, NEW V, V \in {Nat, Int}, \A x \in S : p[x] \in V
  PROVE  Total(p, S) \in V
<1> DEFINE B == {s \in SUBSET S : Total(p, s) \notin V}
<1>1. ASSUME B # {} PROVE FALSE
  <2>1. B \subseteq SUBSET S
    OBVIOUS
  <2>2. PICK s \in B : \A t \in SUBSET s : t # s => t \notin B
    <3> HIDE DEF B
    <3> QED BY <1>1, <2>1, Minimal
  <2>3. s # {}
    BY TotalNone
  <2>4. /\ IsFiniteSet(s) /\ First(s) \in s
        /\ Total(p, s) = p[First(s)] + Total(p, s \ {First(s)})
    BY <2>3, TotalFold, FS_Subset
  <2>5. Total(p, s \ {First(s)}) \in V
    BY <2>2, <2>4
  <2> QED BY <2>4, <2>5
<1> QED BY <1>1

(* Any member may be taken out first.                                      *)
LEMMA TotalTake ==
  ASSUME NEW S, IsFiniteSet(S), NEW p, \A x \in S : p[x] \in Int, NEW e \in S
  PROVE  Total(p, S) = p[e] + Total(p, S \ {e})
<1> DEFINE B == {s \in SUBSET S : \E y \in s : Total(p, s) # p[y] + Total(p, s \ {y})}
<1>1. ASSUME B # {} PROVE FALSE
  <2>1. B \subseteq SUBSET S
    OBVIOUS
  <2>2. PICK s \in B : \A t \in SUBSET s : t # s => t \notin B
    <3> HIDE DEF B
    <3> QED BY <1>1, <2>1, Minimal
  <2>3. PICK y \in s : Total(p, s) # p[y] + Total(p, s \ {y})
    OBVIOUS
  <2> DEFINE x == First(s)
  <2>4. /\ IsFiniteSet(s) /\ x \in s /\ s \subseteq S
        /\ Total(p, s) = p[x] + Total(p, s \ {x})
    BY <2>3, TotalFold, FS_Subset
  <2> HIDE DEF x
  <2> DEFINE sx == s \ {x}
             sy == s \ {y}
             r  == s \ {x, y}
  <2>5. /\ sx \in SUBSET s /\ sx # s /\ y \in sx /\ sx \ {y} = r
        /\ sy \in SUBSET s /\ sy # s /\ x \in sy /\ sy \ {x} = r
        /\ r \subseteq S /\ sx \subseteq S /\ sy \subseteq S /\ IsFiniteSet(r)
    BY <2>3, <2>4, FS_Subset
  <2>6. sx \notin B /\ sy \notin B
    <3> HIDE DEF B, sx, sy
    <3> QED BY <2>2, <2>5
  <2>7. \A t \in SUBSET S : t \notin B => \A z \in t : Total(p, t) = p[z] + Total(p, t \ {z})
    OBVIOUS
  <2>8. Total(p, sx) = p[y] + Total(p, r) /\ Total(p, sy) = p[x] + Total(p, r)
    <3> HIDE DEF B, sx, sy, r
    <3> QED BY <2>5, <2>6, <2>7
  <2>9. Total(p, r) \in Int /\ p[x] \in Int /\ p[y] \in Int
    BY <2>4, <2>5, TotalType
  <2> HIDE DEF r
  <2> QED BY <2>3, <2>4, <2>8, <2>9
<1> QED BY <1>1

LEMMA TotalGrows ==
  ASSUME NEW S, IsFiniteSet(S), NEW p, \A x \in S : p[x] \in Nat, NEW R \in SUBSET S
  PROVE  Total(p, R) <= Total(p, S)
<1> DEFINE B == {s \in SUBSET S : R \subseteq s /\ ~(Total(p, R) <= Total(p, s))}
<1>0. \A s \in SUBSET S : Total(p, s) \in Nat
  BY FS_Subset, TotalType
<1>1. ASSUME B # {} PROVE FALSE
  <2>1. B \subseteq SUBSET S
    OBVIOUS
  <2>2. PICK s \in B : \A t \in SUBSET s : t # s => t \notin B
    <3> HIDE DEF B
    <3> QED BY <1>1, <2>1, Minimal
  <2>3. s \in SUBSET S /\ R \subseteq s /\ ~(Total(p, R) <= Total(p, s))
    OBVIOUS
  <2>4. PICK e \in s : e \notin R
    BY <1>0, <2>3
  <2>5. Total(p, s) = p[e] + Total(p, s \ {e})
    <3>1. IsFiniteSet(s) /\ \A x \in s : p[x] \in Int
      BY <2>3, FS_Subset
    <3> QED BY <3>1, TotalTake
  <2>6. Total(p, R) <= Total(p, s \ {e})
    BY <2>2, <2>3, <2>4
  <2>7. Total(p, R) \in Nat /\ Total(p, s \ {e}) \in Nat /\ p[e] \in Nat
    BY <1>0, <2>3
  <2> QED BY <2>3, <2>5, <2>6, <2>7
<1> QED BY <1>0, <1>1
-----------------------------------------------------------------------------
(* The portfolio.                                                          *)
Trades ==
  [ item : Items, mkt : Markets, side : Sides, size : Nat, from : Nat, till : Nat,
    pnl : Int, fund : Int ]
Fields == {"trades", "signal", "last", "till", "halted"}
BookOK(b) ==
  /\ DOMAIN b = Fields
  /\ b.trades \in Seq(Trades)
  /\ b.last \in [Markets -> Int]
  /\ b.till \in [Markets -> Nat]

NewsOK == news \in [Items -> Kinds]
-----------------------------------------------------------------------------
LEMMA ItemsAre ==
  Len(Times) \in Nat /\ Items \subseteq Nat \ {0} /\ \A i \in Items : Times[i] \in Nat
<1>1. Times \in Seq(Nat)
  BY ReplayAssumption
<1>2. Len(Times) \in Nat /\ \A i \in 1 .. Len(Times) : Times[i] \in Nat
  BY <1>1, LenProperties, ElementOfSeq
<1> QED BY <1>2 DEF Items

LEMMA LimitsAre ==
  MaxExposure \in Nat /\ MaxOpen \in Nat /\ Limit \in Nat /\ Cooldown \in Nat /\ Lot \in Nat
BY ReplayAssumption

LEMMA HeadlineIs ==
  ASSUME NEW h \in Kinds
  PROVE  /\ h.mkt \in Markets /\ h.side \in Sides /\ h.tradable \in BOOLEAN
         /\ h.conf \in Nat /\ h.conf \in DOMAIN Tiers /\ h.haircut \in Nat
         /\ h.second \in Nat /\ h.second \in DOMAIN Tiers
         /\ h.hold \in Nat /\ h.pnl \in Int /\ h.cut \in Int /\ h.fund \in Int
<1>1. h \in Headlines /\ DOMAIN Tiers \subseteq Nat
  BY ReplayAssumption
<1> QED BY <1>1 DEF Headlines

LEMMA TradeIs ==
  ASSUME NEW b, BookOK(b), NEW k \in DOMAIN b.trades
  PROVE  /\ b.trades[k] \in Trades /\ k \in 1 .. Len(b.trades)
         /\ b.trades[k].item \in Items /\ b.trades[k].mkt \in Markets
         /\ b.trades[k].from \in Nat /\ b.trades[k].till \in Nat
         /\ b.trades[k].pnl \in Int /\ b.trades[k].fund \in Int /\ b.trades[k].size \in Nat
<1>1. b.trades[k] \in Trades /\ k \in 1 .. Len(b.trades)
  BY LenProperties, ElementOfSeq DEF BookOK
<1> QED BY <1>1 DEF Trades

LEMMA FundingIs ==
  ASSUME NEW h \in Kinds, NEW hold, NEW ok
  PROVE  FundingCost(h, hold, ok) \in Int
BY HeadlineIs DEF FundingCost

(* What an entry may be worth.                                             *)
LEMMA ConfidenceIs ==
  ASSUME NEW h \in Kinds
  PROVE  Confidence(h) \in DOMAIN Tiers
<1>1. /\ h.conf \in Nat /\ h.haircut \in Nat /\ h.conf \in DOMAIN Tiers
      /\ 0 .. h.conf \subseteq DOMAIN Tiers
  BY HeadlineIs, ReplayAssumption
<1>2. Max({0, h.conf - h.haircut}) \in 0 .. h.conf
  <2>1. PICK m \in {0, h.conf - h.haircut} : \A y \in {0, h.conf - h.haircut} : m >= y
    BY <1>1
  <2>2. /\ Max({0, h.conf - h.haircut}) \in {0, h.conf - h.haircut}
        /\ Max({0, h.conf - h.haircut}) >= 0
    BY <2>1 DEF Max
  <2> QED BY <1>1, <2>2
<1> QED BY <1>1, <1>2 DEF Confidence

LEMMA MinIs ==
  ASSUME NEW x \in Int, NEW y \in Int
  PROVE  Min({x, y}) \in {x, y} /\ Min({x, y}) <= x /\ Min({x, y}) <= y
<1>1. PICK m \in {x, y} : \A z \in {x, y} : m <= z
  OBVIOUS
<1> QED BY <1>1 DEF Min

LEMMA ConfirmedIs ==
  ASSUME NEW h \in Kinds, NEW conf \in DOMAIN Tiers, NEW env
  PROVE  Confirmed(h, conf, env) \in DOMAIN Tiers
<1>1. /\ conf \in Nat /\ h.second \in Nat /\ h.second \in DOMAIN Tiers
      /\ 0 \in DOMAIN Tiers
  <2>1. /\ \A c \in DOMAIN Tiers : c \in Nat /\ 0 .. c \subseteq DOMAIN Tiers
    BY ReplayAssumption
  <2>2. h.second \in Nat /\ h.second \in DOMAIN Tiers
    BY HeadlineIs
  <2>3. 0 \in 0 .. conf
    BY <2>1
  <2> QED BY <2>1, <2>2, <2>3
<1>2. Min({conf, h.second}) \in DOMAIN Tiers
  <2>1. conf \in Int /\ h.second \in Int
    BY <1>1
  <2>2. Min({conf, h.second}) \in {conf, h.second}
    BY <2>1, MinIs, Zenon
  <2> QED BY <1>1, <2>2
<1> QED BY <1>1, <1>2 DEF Confirmed

LEMMA RoundedIs ==
  ASSUME NEW n \in Int
  PROVE  Rounded(n) \in Int /\ 2 * Rounded(n) <= 2 * n + Lot
<1>1. Lot \in Nat \ {0} /\ 2 * Lot \in Nat \ {0}
  BY ReplayAssumption
<1> DEFINE a == 2 * n + Lot
           d == 2 * Lot
           q == a \div d
<1>2. a \in Int /\ d \in Nat \ {0}
  BY <1>1
<1> HIDE DEF a, d
<1>3. q \in Int /\ d * q <= a
  BY <1>2
<1> HIDE DEF q
<1>4. Rounded(n) = q * Lot
  BY DEF Rounded, q, a, d
<1>5. 2 * (q * Lot) = d * q
  BY <1>1, <1>3 DEF d
<1>6. q * Lot \in Int
  BY <1>1, <1>3
<1> QED BY <1>3, <1>4, <1>5, <1>6 DEF a

LEMMA NotionalIs ==
  ASSUME NEW b, BookOK(b), NEW S \in SUBSET DOMAIN b.trades
  PROVE  /\ IsFiniteSet(S)
         /\ Notional(b, S) = Total([k \in DOMAIN b.trades |-> b.trades[k].size], S)
         /\ Notional(b, S) \in Nat
<1> DEFINE p == [k \in DOMAIN b.trades |-> b.trades[k].size]
<1>1. IsFiniteSet(S)
  <2>1. DOMAIN b.trades = 1 .. Len(b.trades) /\ Len(b.trades) \in Nat
    BY LenProperties DEF BookOK
  <2>2. IsFiniteSet(1 .. Len(b.trades))
    BY <2>1, FS_Interval
  <2> QED BY <2>1, <2>2, FS_Subset
<1>2. \A x \in S : p[x] \in Nat
  BY TradeIs
<1> HIDE DEF p
<1>3. Total(p, S) \in Nat
  BY <1>1, <1>2, TotalType
<1> QED BY <1>1, <1>3, TotalIs DEF Notional, p

LEMMA SizeIs ==
  ASSUME NEW b, BookOK(b), NEW h, NEW t \in Nat, NEW conf \in DOMAIN Tiers
  PROVE  /\ Size(b, h, t, conf) \in Int
         /\ Room(b, t) = MaxExposure - Notional(b, OpenAt(b, t)) /\ Room(b, t) \in Int
         /\ mode # "alone" => 2 * Size(b, h, t, conf) <= 2 * Room(b, t) + Lot
<1>1. Tiers[conf] \in Int /\ MaxExposure \in Nat /\ Lot \in Nat
  BY ReplayAssumption
<1>2. Notional(b, OpenAt(b, t)) \in Nat
  BY NotionalIs DEF OpenAt
<1>3. Room(b, t) = MaxExposure - Notional(b, OpenAt(b, t)) /\ Room(b, t) \in Int
  BY <1>1, <1>2 DEF Room
<1>4. Min({Tiers[conf], Room(b, t)}) \in Int /\ Min({Tiers[conf], Room(b, t)}) <= Room(b, t)
  BY <1>1, <1>3, MinIs
<1>5. CASE mode = "alone"
  BY <1>1, <1>3, <1>5, RoundedIs DEF Size
<1>6. CASE mode # "alone"
  <2> DEFINE m == Min({Tiers[conf], Room(b, t)})
  <2>1. Size(b, h, t, conf) = Rounded(m)
    BY <1>6 DEF Size
  <2>2. Rounded(m) \in Int /\ 2 * Rounded(m) <= 2 * m + Lot
    BY <1>4, RoundedIs
  <2> QED BY <1>1, <1>3, <1>4, <2>1, <2>2
<1> QED BY <1>5, <1>6

(* The four things a judgement may do to the book.                         *)
NotedIs(b, c) ==
  /\ BookOK(c)
  /\ c.trades = b.trades /\ c.last = b.last /\ c.till = b.till

LEMMA NotedKeeps ==
  ASSUME NEW b, BookOK(b), NEW h, NEW t
  PROVE  NotedIs(b, Noted(b, h, t)) /\ Noted(b, h, t).halted = b.halted
BY DEF BookOK, Fields, Noted, NotedIs

LEMMA LatchedKeeps ==
  ASSUME NEW b, BookOK(b), NEW t
  PROVE  NotedIs(b, Latched(b, t)) /\ Latched(b, t).signal = b.signal
BY DEF BookOK, Fields, Latched, NotedIs

Cut(tr, t, fund, pnl) == [tr EXCEPT !.till = t, !.fund = fund, !.pnl = pnl]

TruncatedTo(b, c, k, t, fund, pnl) ==
  /\ BookOK(c)
  /\ c.signal = b.signal /\ c.last = b.last /\ c.halted = b.halted
  /\ c.trades = [b.trades EXCEPT ![k] = Cut(@, t, fund, pnl)]

LEMMA TruncatedKeeps ==
  ASSUME NewsOK, NEW b, BookOK(b), NEW k \in DOMAIN b.trades, NEW t \in Nat, NEW ok
  PROVE  LET c == Truncated(b, k, t, ok)
             h == news[b.trades[k].item]
             f == FundingCost(h, t - b.trades[k].from, ok)
         IN /\ TruncatedTo(b, c, k, t, f, h.cut - f)
            /\ c.till = [b.till EXCEPT ![h.mkt] = t]
<1> DEFINE h == news[b.trades[k].item]
           f == FundingCost(h, t - b.trades[k].from, ok)
           c == Truncated(b, k, t, ok)
<1>1. h \in Kinds /\ b.trades[k] \in Trades
  BY TradeIs DEF NewsOK
<1>2. f \in Int /\ h.cut - f \in Int
  BY <1>1, FundingIs, HeadlineIs
<1>3. c = [b EXCEPT !.trades[k] = Cut(@, t, f, h.cut - f), !.till[h.mkt] = t]
  BY DEF Truncated, Cut
<1> HIDE DEF f, h, c
<1>4. /\ DOMAIN c = Fields
      /\ c.trades = [b.trades EXCEPT ![k] = Cut(@, t, f, h.cut - f)]
      /\ c.till = [b.till EXCEPT ![h.mkt] = t]
      /\ c.signal = b.signal /\ c.last = b.last /\ c.halted = b.halted
  BY <1>3 DEF BookOK, Fields
<1>5. Cut(b.trades[k], t, f, h.cut - f) \in Trades
  BY <1>1, <1>2 DEF Cut, Trades
<1>6. c.trades \in Seq(Trades)
  <2>1. b.trades \in [1 .. Len(b.trades) -> Trades] /\ Len(b.trades) \in Nat
        /\ DOMAIN b.trades = 1 .. Len(b.trades)
    BY LenProperties DEF BookOK
  <2>2. c.trades \in [1 .. Len(b.trades) -> Trades]
    BY <1>4, <1>5, <2>1
  <2> QED BY <2>1, <2>2, SeqDef
<1>7. c.till \in [Markets -> Nat]
  BY <1>4 DEF BookOK
<1>8. BookOK(c)
  BY <1>4, <1>6, <1>7 DEF BookOK
<1>9. TruncatedTo(b, c, k, t, f, h.cut - f)
  BY <1>4, <1>8 DEF TruncatedTo
<1> QED BY <1>4, <1>9 DEF f, h, c

EntryOf(i, h, t, size, fund) ==
  [ item |-> i, mkt |-> h.mkt, side |-> h.side, size |-> size, from |-> t,
    till |-> t + h.hold, pnl |-> h.pnl - fund, fund |-> fund ]

EnteredTo(b, c, e) ==
  /\ BookOK(c) /\ e \in Trades
  /\ c.signal = b.signal /\ c.halted = b.halted
  /\ c.trades = Append(b.trades, e)
  /\ c.last = [b.last EXCEPT ![e.mkt] = e.from]
  /\ c.till = [b.till EXCEPT ![e.mkt] = e.till]

LEMMA EnteredKeeps ==
  ASSUME NewsOK, NEW b, BookOK(b), NEW i \in Items, NEW t \in Nat, NEW conf \in DOMAIN Tiers,
         NEW env
  PROVE  LET h    == news[i]
             c    == Entered(b, i, t, conf, env)
             size == Size(b, h, t, conf)
             fund == FundingCost(h, h.hold, env.funding)
         IN IF ~env.candles \/ conf = 0 \/ size <= 0 THEN c = b
            ELSE EnteredTo(b, c, EntryOf(i, h, t, size, fund))
<1> DEFINE h    == news[i]
           c    == Entered(b, i, t, conf, env)
           size == Size(b, h, t, conf)
           fund == FundingCost(h, h.hold, env.funding)
           e    == EntryOf(i, h, t, size, fund)
<1>1. h \in Kinds
  BY DEF NewsOK
<1>2. size \in Int /\ fund \in Int
  BY <1>1, SizeIs, FundingIs
<1>3. h.mkt \in Markets /\ h.side \in Sides /\ h.hold \in Nat /\ h.pnl \in Int
  BY <1>1, HeadlineIs
<1>4. CASE ~env.candles \/ conf = 0 \/ size <= 0
  BY <1>4, Zenon DEF Entered
<1>5. CASE ~(~env.candles \/ conf = 0 \/ size <= 0)
  <2>1. c = [b EXCEPT !.trades = Append(@, e), !.last[h.mkt] = t, !.till[h.mkt] = t + h.hold]
    BY <1>5, Zenon DEF Entered, EntryOf
  <2>2. e \in Trades /\ e.mkt = h.mkt /\ e.from = t /\ e.till = t + h.hold
    <3> HIDE DEF size, fund, h
    <3>1. size \in Nat
      BY <1>2, <1>5
    <3> QED BY <1>2, <1>3, <3>1 DEF EntryOf, Trades
  <2> HIDE DEF size, fund, h, c, e
  <2>3. /\ DOMAIN c = Fields
        /\ c.signal = b.signal /\ c.halted = b.halted
        /\ c.trades = Append(b.trades, e)
        /\ c.last = [b.last EXCEPT ![h.mkt] = t]
        /\ c.till = [b.till EXCEPT ![h.mkt] = t + h.hold]
    BY <2>1 DEF BookOK, Fields
  <2>4. c.trades \in Seq(Trades)
    BY <2>2, <2>3, AppendProperties DEF BookOK
  <2>5. c.last \in [Markets -> Int] /\ c.till \in [Markets -> Nat]
    BY <1>3, <2>3 DEF BookOK
  <2>6. EnteredTo(b, c, e)
    BY <2>2, <2>3, <2>4, <2>5 DEF EnteredTo, BookOK
  <2> QED BY <1>5, <2>6 DEF size, fund, h, c, e
<1> QED BY <1>4, <1>5

(* What a judgement may come to: nothing but a note, an exit, an entry.    *)
OnlyNotes(b, c) == BookOK(c) /\ c.trades = b.trades /\ c.last = b.last /\ c.till = b.till

Exits(b, c, h, t) ==
  \E k \in ContraryTo(b, h, t), fund \in Int, pnl \in Int :
    /\ TruncatedTo(b, c, k, t, fund, pnl)
    /\ c.till = [b.till EXCEPT ![news[b.trades[k].item].mkt] = t]

Enters(b, c, i) ==
  \E l : \E e \in Trades :
    /\ OnlyNotes(b, l) /\ EnteredTo(l, c, e)
    /\ e.item = i /\ e.from = Times[i] /\ e.mkt = news[i].mkt
    /\ e.till = Times[i] + news[i].hold
    /\ mode # "alone" =>
         /\ l = Latched(Noted(b, news[i], Times[i]), Times[i])
         /\ ~Capped(l, news[i], Times[i])
         /\ 2 * e.size <= 2 * Room(l, Times[i]) + Lot

LEMMA EntersIf ==
  ASSUME NewsOK, NEW b, BookOK(b), NEW i \in Items, NEW conf \in DOMAIN Tiers, NEW env,
         NEW l, OnlyNotes(b, l),
         mode # "alone" => /\ l = Latched(Noted(b, news[i], Times[i]), Times[i])
                           /\ ~Capped(l, news[i], Times[i])
  PROVE  \/ Entered(l, i, Times[i], conf, env) = l
         \/ Enters(b, Entered(l, i, Times[i], conf, env), i)
<1> DEFINE h    == news[i]
           t    == Times[i]
           c    == Entered(l, i, t, conf, env)
           size == Size(l, h, t, conf)
           fund == FundingCost(h, h.hold, env.funding)
           e    == EntryOf(i, h, t, size, fund)
<1>1. t \in Nat /\ BookOK(l)
  BY ItemsAre DEF OnlyNotes
<1>2. \/ c = l
      \/ EnteredTo(l, c, e)
  BY <1>1, EnteredKeeps
<1>3. mode # "alone" => 2 * size <= 2 * Room(l, t) + Lot
  BY <1>1, SizeIs
<1>4. /\ e.item = i /\ e.from = t /\ e.mkt = h.mkt /\ e.till = t + h.hold /\ e.size = size
  BY DEF EntryOf
<1> HIDE DEF c, e, size, fund
<1>5. ASSUME EnteredTo(l, c, e) PROVE Enters(b, c, i)
  <2>1. e \in Trades
    BY <1>5 DEF EnteredTo
  <2> QED BY <1>3, <1>4, <1>5, <2>1 DEF Enters
<1> QED BY <1>2, <1>5 DEF c

LEMMA JudgedIs ==
  ASSUME NewsOK, NEW b, BookOK(b), NEW i \in Items, NEW env
  PROVE  LET c == Judged(b, i, env)
         IN \/ OnlyNotes(b, c)
            \/ mode # "alone" /\ Exits(b, c, news[i], Times[i])
            \/ Enters(b, c, i)
<1> DEFINE h == news[i]
           t == Times[i]
           s == Noted(b, h, t)
           l == Latched(s, t)
           c == Judged(b, i, env)
<1>1. t \in Nat /\ h \in Kinds
  BY ItemsAre DEF NewsOK
<1>2. OnlyNotes(b, b) /\ OnlyNotes(b, s) /\ OnlyNotes(b, l)
  BY NotedKeeps, LatchedKeeps DEF OnlyNotes, NotedIs
<1>3. Confidence(h) \in DOMAIN Tiers /\ Confirmed(h, Confidence(h), env) \in DOMAIN Tiers
  BY <1>1, ConfidenceIs, ConfirmedIs
<1>4. CASE mode = "alone"
  <2>1. c = b \/ c = Entered(b, i, t, Confidence(h), env)
    BY <1>4, Zenon DEF Judged, JudgedAlone
  <2> QED BY <1>2, <1>3, <1>4, <2>1, EntersIf
<1>5. CASE mode # "alone"
  <2> DEFINE k == CHOOSE k \in ContraryTo(b, h, t) : TRUE
             x == Truncated(b, k, t, env.funding)
             e == Entered(l, i, t, Confirmed(h, Confidence(h), env), env)
  <2>1. \/ c = b \/ c = s \/ c = l
        \/ ContraryTo(b, h, t) # {} /\ c = x
        \/ ~Capped(l, h, t) /\ c = e
    BY <1>5, Zenon DEF Judged, JudgedInReplay
  <2>2. ASSUME ContraryTo(b, h, t) # {} PROVE Exits(b, x, h, t)
    <3>1. k \in ContraryTo(b, h, t)
      BY <2>2
    <3> HIDE DEF k
    <3>2. k \in DOMAIN b.trades
      BY <3>1 DEF ContraryTo, OpenOn, OpenAt
    <3> DEFINE g == news[b.trades[k].item]
               f == FundingCost(g, t - b.trades[k].from, env.funding)
    <3>3. g \in Kinds
      BY <3>2, TradeIs DEF NewsOK
    <3>4. f \in Int /\ g.cut - f \in Int
      BY <3>3, FundingIs, HeadlineIs
    <3>5. TruncatedTo(b, x, k, t, f, g.cut - f) /\ x.till = [b.till EXCEPT ![g.mkt] = t]
      BY <1>1, <3>2, TruncatedKeeps
    <3> HIDE DEF f, x
    <3> QED BY <3>1, <3>4, <3>5 DEF Exits
  <2>3. ASSUME ~Capped(l, h, t) PROVE e = l \/ Enters(b, e, i)
    BY <1>2, <1>3, <2>3, EntersIf
  <2> HIDE DEF x, e, s, l, c
  <2> QED BY <1>2, <1>5, <2>1, <2>2, <2>3 DEF c
<1> QED BY <1>4, <1>5

LEMMA JudgedKeeps ==
  ASSUME NewsOK, NEW b, BookOK(b), NEW i \in Items, NEW env
  PROVE  BookOK(Judged(b, i, env))
BY JudgedIs DEF OnlyNotes, Exits, Enters, TruncatedTo, EnteredTo
-----------------------------------------------------------------------------
(***************************************************************************)
(* The run.                                                                *)
(***************************************************************************)
Verdicts == [memory : SUBSET Items, brief : Nat, error : {FALSE}] \cup {None}

ReplayTypes ==
  /\ NewsOK
  /\ BookOK(book)
  /\ at \in 1 .. Len(Times) + 1
  /\ run \in Nat \ {0}
  /\ briefs \in [Boundaries -> Nat]
  /\ cache \in [Items -> Verdicts] /\ disk \in [Items -> Verdicts]

LEMMA EmptyBookOK == BookOK(EmptyBook) /\ DOMAIN EmptyBook.trades = {}
<1>1. /\ EmptyBook.trades = <<>>
      /\ EmptyBook.last = [m \in Markets |-> -1] /\ EmptyBook.till = [m \in Markets |-> 0]
      /\ DOMAIN EmptyBook = Fields
  BY DEF EmptyBook, Fields
<1>2. <<>> \in Seq(Trades) /\ DOMAIN <<>> = {}
  OBVIOUS
<1> QED BY <1>1, <1>2 DEF BookOK

LEMMA ContextIs ==
  ASSUME ReplayTypes, NEW i \in Items
  PROVE  Context(i) \in [memory : SUBSET Items, brief : Nat, error : {FALSE}]
<1>1. Boundary(Times[i]) \in Boundaries
  BY DEF Boundaries
<1>2. briefs[Boundary(Times[i])] \in Nat
  BY <1>1 DEF ReplayTypes
<1>3. {j \in {book.trades[k].item : k \in DOMAIN book.trades} : Times[i] - Times[j] < MemWindow}
        \in SUBSET Items
  BY TradeIs DEF ReplayTypes
<1> DEFINE m == IF mode = "alone" THEN {}
                ELSE {j \in {book.trades[k].item : k \in DOMAIN book.trades} :
                        Times[i] - Times[j] < MemWindow}
           n == IF mode = "alone" THEN 0 ELSE briefs[Boundary(Times[i])]
<1>4. m \in SUBSET Items /\ n \in Nat
  BY <1>2, <1>3
<1>5. Context(i) = [brief |-> n, memory |-> m, error |-> FALSE]
  BY Zenon DEF Context
<1> HIDE DEF m, n
<1> QED BY <1>4, <1>5

(* A verdict that is there is never an error, and never none.              *)
LEMMA VerdictIs ==
  ASSUME NEW v \in Verdicts
  PROVE  /\ v.error = FALSE
         /\ v # None => v.brief \in Nat /\ v.memory \in SUBSET Items
<1>1. CASE v = None
  BY <1>1 DEF None
<1>2. CASE v # None
  <2>1. v \in [memory : SUBSET Items, brief : Nat, error : {FALSE}]
    BY <1>2 DEF Verdicts
  <2> QED BY <2>1
<1> QED BY <1>1, <1>2

LEMMA ContextIsNotNone ==
  ASSUME ReplayTypes, NEW i \in Items
  PROVE  Context(i) # None
<1>1. Context(i).brief \in Nat
  BY ContextIs
<1>2. None.brief = -1
  BY DEF None
<1> QED BY <1>1, <1>2

(* What a judgement makes of the book.                                     *)
LEMMA JudgeIs ==
  ASSUME ReplayTypes, Judge
  PROVE  /\ at \in Items /\ Ready /\ at' = at + 1 /\ phase = "run"
         /\ UNCHANGED <<mode, news, phase, cache, briefs, tried, fails, done, run>>
         /\ \/ at \in Missing /\ UNCHANGED <<book, confirmed, dirty, clean, faults>>
            \/ at \notin Missing /\ book' = Judged(book, at, Perfect)
               /\ UNCHANGED <<dirty, clean, faults>>
            \/ at \notin Missing
               /\ \E f \in {"candles", "funding", "confirm"} :
                    /\ book' = Judged(book, at, [Perfect EXCEPT ![f] = FALSE])
                    /\ dirty' = (dirty \/ f # "funding")
                    /\ clean' = (clean /\ f = "funding")
         /\ disk' = IF mode = "alone" THEN cache ELSE disk
<1>1. at \in Items /\ phase = "run"
  BY DEF Judge, Ready
<1>2. ~cache[at].error
  BY <1>1, VerdictIs DEF ReplayTypes
<1> QED BY <1>1, <1>2, Zenon DEF Judge

LEMMA TypesInitial == Init => ReplayTypes
<1> SUFFICES ASSUME Init PROVE ReplayTypes
  OBVIOUS
<1>1. NewsOK /\ BookOK(book) /\ run = 1 /\ briefs \in [Boundaries -> Nat]
  BY EmptyBookOK DEF Init, NewsOK
<1>2. at \in 1 .. Len(Times) + 1
  BY ItemsAre DEF Init
<1>3. None \in Verdicts
  BY DEF Verdicts
<1>4. disk = [i \in Items |-> None] /\ cache = disk
  BY DEF Init
<1>5. disk \in [Items -> Verdicts] /\ cache \in [Items -> Verdicts]
  BY <1>3, <1>4
<1> QED BY <1>1, <1>2, <1>5 DEF ReplayTypes

LEMMA TypesKeep == ReplayTypes /\ [Next]_vars => ReplayTypes'
<1> SUFFICES ASSUME ReplayTypes, [Next]_vars PROVE ReplayTypes'
  OBVIOUS
<1> USE DEF ReplayTypes, NewsOK
<1>0. Len(Times) \in Nat /\ Items = 1 .. Len(Times)
  BY ItemsAre DEF Items
<1>1. CASE BuildRegime
  <2>1. briefs' \in [Boundaries -> Nat]
    <3>1. Timeline \in [Boundaries -> Nat]
      BY DEF Timeline
    <3> QED BY <1>1, <3>1 DEF BuildRegime
  <2> QED BY <1>1, <2>1 DEF BuildRegime
<1>2. CASE RegimeFails \/ Finish
  BY <1>2 DEF RegimeFails, Finish, files
<1>3. CASE AnalyzeOk
  <2>1. PICK i \in Items : cache' = [cache EXCEPT ![i] = Context(i)]
    BY <1>3 DEF AnalyzeOk
  <2>2. Context(i) \in Verdicts
    BY ContextIs DEF Verdicts
  <2>3. cache' \in [Items -> Verdicts]
    BY <2>1, <2>2
  <2>4. disk' \in {cache', disk}
    BY <1>3 DEF AnalyzeOk
  <2> QED BY <1>3, <2>3, <2>4 DEF AnalyzeOk
<1>4. CASE AnalyzeFails
  <2>1. disk' \in {cache', disk} /\ cache' = cache
    BY <1>4 DEF AnalyzeFails, Kept
  <2> QED BY <1>4, <2>1 DEF AnalyzeFails
<1>5. CASE Judge
  <2>1. BookOK(book')
    BY <1>5, JudgeIs, JudgedKeeps
  <2>2. at' \in 1 .. Len(Times) + 1 /\ disk' \in {cache, disk}
        /\ UNCHANGED <<news, briefs, cache, run>>
    BY <1>0, <1>5, JudgeIs
  <2> QED BY <2>1, <2>2
<1>6. CASE Again \/ Crash
  <2>1. Fresh /\ UNCHANGED <<news, files>>
    BY <1>6 DEF Again, Crash
  <2> QED BY <1>0, <2>1, EmptyBookOK DEF Fresh, files
<1>7. CASE UNCHANGED vars
  BY <1>7 DEF vars, files
<1> QED BY <1>1, <1>2, <1>3, <1>4, <1>5, <1>6, <1>7 DEF Next

(* The daily loss only ever grows by what is realized: a trade that has    *)
(* ended is never touched again, by no contrary exit (engine.py, the       *)
(* replay loop).                                                           *)
LEMMA JudgedLeavesEnded ==
  ASSUME NewsOK, NEW b, BookOK(b), NEW i \in Items, NEW env, NEW k \in DOMAIN b.trades,
         b.trades[k].till <= Times[i]
  PROVE  Judged(b, i, env).trades[k] = b.trades[k]
<1> DEFINE c == Judged(b, i, env)
<1>1. k \in 1 .. Len(b.trades) /\ b.trades[k].till \in Nat /\ Times[i] \in Nat
  BY TradeIs, ItemsAre
<1>2. CASE Exits(b, c, news[i], Times[i])
  <2>1. PICK j \in ContraryTo(b, news[i], Times[i]), fund \in Int, pnl \in Int :
          c.trades = [b.trades EXCEPT ![j] = Cut(@, Times[i], fund, pnl)]
    BY <1>2 DEF Exits, TruncatedTo
  <2>2. j # k
    <3>1. b.trades[j].till > Times[i]
      BY DEF ContraryTo, OpenOn, OpenAt
    <3> QED BY <1>1, <3>1
  <2> QED BY <2>1, <2>2
<1>3. CASE Enters(b, c, i)
  <2>1. PICK l, e : e \in Trades /\ OnlyNotes(b, l) /\ c.trades = Append(l.trades, e)
    BY <1>3 DEF Enters, EnteredTo
  <2>2. l.trades = b.trades /\ b.trades \in Seq(Trades)
    BY <2>1 DEF OnlyNotes, BookOK
  <2> QED BY <1>1, <2>1, <2>2, AppendProperties
<1> QED BY <1>2, <1>3, JudgedIs DEF OnlyNotes

THEOREM EndedIsFinal == Spec => RealizedIsFinal
<1>1. ReplayTypes /\ [Next]_vars =>
        [run' = run /\ at \in Items => \A k \in DOMAIN book.trades :
           book.trades[k].till <= Times[at] => book'.trades[k] = book.trades[k]]_vars
  <2> SUFFICES ASSUME ReplayTypes, Next, run' = run, at \in Items,
                      NEW k \in DOMAIN book.trades, book.trades[k].till <= Times[at]
               PROVE  book'.trades[k] = book.trades[k]
    OBVIOUS
  <2>1. CASE Judge
    <3>1. NewsOK /\ BookOK(book)
      BY DEF ReplayTypes
    <3>2. book' = book \/ \E env : book' = Judged(book, at, env)
      BY <2>1, JudgeIs
    <3> QED BY <3>1, <3>2, JudgedLeavesEnded
  <2>2. CASE Again \/ Crash
    <3>1. run' = run + 1 /\ run \in Nat
      BY <2>2 DEF Again, Crash, Fresh, ReplayTypes
    <3> QED BY <3>1
  <2>3. CASE ~(Judge \/ Again \/ Crash)
    BY <2>3 DEF Next, BuildRegime, RegimeFails, AnalyzeOk, AnalyzeFails, Finish
  <2> QED BY <2>1, <2>2, <2>3
<1>2. Init => ReplayTypes
  BY TypesInitial
<1>3. ReplayTypes /\ [Next]_vars => ReplayTypes'
  BY TypesKeep
<1> QED BY <1>1, <1>2, <1>3, PTL DEF Spec, RealizedIsFinal
-----------------------------------------------------------------------------
(***************************************************************************)
(* Convergence.  Two books are the same but for how what a trade earned is *)
(* split into its result and its funding, which is all that a funding rate *)
(* that could not be had changes; a judgement keeps them the same.         *)
(***************************************************************************)
Alike(x, y) ==
  /\ x.item = y.item /\ x.mkt = y.mkt /\ x.side = y.side /\ x.size = y.size
  /\ x.from = y.from /\ x.till = y.till
  /\ x.pnl + x.fund = y.pnl + y.fund

Same(b, c) ==
  /\ BookOK(b) /\ BookOK(c)
  /\ b.signal = c.signal /\ b.last = c.last /\ b.till = c.till /\ b.halted = c.halted
  /\ DOMAIN b.trades = DOMAIN c.trades
  /\ \A k \in DOMAIN b.trades : Alike(b.trades[k], c.trades[k])

LEMMA SameSums ==
  ASSUME NEW b, NEW c, Same(b, c)
  PROVE  /\ \A t : OpenAt(b, t) = OpenAt(c, t)
         /\ \A S : Notional(b, S) = Notional(c, S)
         /\ \A t : Room(b, t) = Room(c, t)
         /\ \A t : Realized(b, t) = Realized(c, t)
<1> DEFINE D == DOMAIN b.trades
<1>1. D = DOMAIN c.trades /\ \A k \in D : Alike(b.trades[k], c.trades[k])
  BY DEF Same
<1>2. /\ \A k \in D : b.trades[k].size = c.trades[k].size
      /\ \A k \in D : b.trades[k].till = c.trades[k].till
      /\ \A k \in D : b.trades[k].pnl + b.trades[k].fund = c.trades[k].pnl + c.trades[k].fund
  BY <1>1 DEF Alike
<1>3. /\ [k \in D |-> b.trades[k].size] = [k \in D |-> c.trades[k].size]
      /\ [k \in D |-> b.trades[k].pnl + b.trades[k].fund] =
         [k \in D |-> c.trades[k].pnl + c.trades[k].fund]
  BY <1>2
<1>4. \A t : OpenAt(b, t) = OpenAt(c, t)
  BY <1>1, <1>2 DEF OpenAt
<1>5. \A S : Notional(b, S) = Notional(c, S)
  <2> SUFFICES ASSUME NEW S PROVE Notional(b, S) = Notional(c, S)
    OBVIOUS
  <2> QED BY <1>1, <1>3, Zenon DEF Notional
<1>6. \A t : Room(b, t) = Room(c, t)
  BY <1>4, <1>5, Zenon DEF Room
<1>7. \A t : Realized(b, t) = Realized(c, t)
  <2> SUFFICES ASSUME NEW t PROVE Realized(b, t) = Realized(c, t)
    OBVIOUS
  <2>1. {k \in D : b.trades[k].till <= t /\ Day(b.trades[k].till) = Day(t)} =
        {k \in D : c.trades[k].till <= t /\ Day(c.trades[k].till) = Day(t)}
    BY <1>2
  <2> QED BY <1>1, <1>3, <2>1, Zenon DEF Realized
<1> QED BY <1>4, <1>5, <1>6, <1>7

LEMMA SameGuards ==
  ASSUME NEW b, NEW c, Same(b, c), NEW h, NEW t
  PROVE  /\ ContraryTo(b, h, t) = ContraryTo(c, h, t)
         /\ Duplicate(b, h, t) = Duplicate(c, h, t)
         /\ Capped(b, h, t) = Capped(c, h, t)
         /\ Cooling(b, h, t) = Cooling(c, h, t)
<1>1. OpenAt(b, t) = OpenAt(c, t) /\ Room(b, t) = Room(c, t)
  BY SameSums
<1>2. \A k \in OpenAt(b, t) :
        b.trades[k].mkt = c.trades[k].mkt /\ b.trades[k].side = c.trades[k].side
  BY DEF OpenAt, Same, Alike
<1>3. OpenOn(b, h.mkt, t) = OpenOn(c, h.mkt, t)
  BY <1>1, <1>2 DEF OpenOn
<1>4. ContraryTo(b, h, t) = ContraryTo(c, h, t)
  BY <1>1, <1>2, <1>3 DEF ContraryTo, OpenOn
<1>5. b.signal = c.signal /\ b.last = c.last /\ b.till = c.till /\ b.halted = c.halted
  BY DEF Same
<1>6. Duplicate(b, h, t) = Duplicate(c, h, t)
  BY <1>5, Zenon DEF Duplicate
<1>7. Cooling(b, h, t) = Cooling(c, h, t)
  BY <1>5, Zenon DEF Cooling
<1>8. Capped(b, h, t) = Capped(c, h, t)
  BY <1>1, <1>5, <1>7, Zenon DEF Capped
<1> QED BY <1>4, <1>6, <1>7, <1>8

LEMMA SameNoted ==
  ASSUME NEW b, NEW c, Same(b, c), NEW h, NEW t
  PROVE  Same(Noted(b, h, t), Noted(c, h, t))
<1>1. Noted(b, h, t).signal = Noted(c, h, t).signal
  BY DEF Noted, Same, BookOK, Fields
<1>2. /\ NotedIs(b, Noted(b, h, t)) /\ Noted(b, h, t).halted = b.halted
      /\ NotedIs(c, Noted(c, h, t)) /\ Noted(c, h, t).halted = c.halted
  BY NotedKeeps DEF Same
<1> QED BY <1>1, <1>2, Zenon DEF Same, NotedIs

LEMMA SameLatched ==
  ASSUME NEW b, NEW c, Same(b, c), NEW t
  PROVE  Same(Latched(b, t), Latched(c, t))
<1>0. Realized(b, t) = Realized(c, t)
  BY SameSums
<1>1. Latched(b, t).halted = Latched(c, t).halted
  BY <1>0 DEF Latched, Same, BookOK, Fields
<1>2. /\ NotedIs(b, Latched(b, t)) /\ Latched(b, t).signal = b.signal
      /\ NotedIs(c, Latched(c, t)) /\ Latched(c, t).signal = c.signal
  BY LatchedKeeps DEF Same
<1> QED BY <1>1, <1>2, Zenon DEF Same, NotedIs

LEMMA SameTruncated ==
  ASSUME NewsOK, NEW b, NEW c, Same(b, c), NEW k \in DOMAIN b.trades, NEW t \in Nat,
         NEW o, NEW p
  PROVE  Same(Truncated(b, k, t, o), Truncated(c, k, t, p))
<1> DEFINE h == news[b.trades[k].item]
           f == FundingCost(h, t - b.trades[k].from, o)
           g == FundingCost(h, t - c.trades[k].from, p)
           x == Truncated(b, k, t, o)
           y == Truncated(c, k, t, p)
<1>1. /\ BookOK(b) /\ BookOK(c) /\ k \in DOMAIN c.trades /\ b.till = c.till
      /\ \A j \in DOMAIN b.trades : Alike(b.trades[j], c.trades[j])
      /\ DOMAIN b.trades = DOMAIN c.trades
      /\ b.signal = c.signal /\ b.last = c.last /\ b.halted = c.halted
  BY DEF Same
<1>2. c.trades[k].item = b.trades[k].item
  BY <1>1 DEF Alike
<1>3. h \in Kinds
  BY <1>1, TradeIs DEF NewsOK
<1>4. f \in Int /\ g \in Int /\ h.cut \in Int
  BY <1>3, FundingIs, HeadlineIs
<1>5. /\ TruncatedTo(b, x, k, t, f, h.cut - f) /\ x.till = [b.till EXCEPT ![h.mkt] = t]
      /\ TruncatedTo(c, y, k, t, g, h.cut - g) /\ y.till = [c.till EXCEPT ![h.mkt] = t]
  BY <1>1, <1>2, TruncatedKeeps
<1> HIDE DEF h, f, g, x, y
<1>6. /\ BookOK(x) /\ BookOK(y) /\ x.till = y.till
      /\ x.signal = y.signal /\ x.last = y.last /\ x.halted = y.halted
      /\ DOMAIN x.trades = DOMAIN b.trades /\ DOMAIN y.trades = DOMAIN b.trades
  BY <1>1, <1>5 DEF TruncatedTo
<1>7. ASSUME NEW j \in DOMAIN b.trades PROVE Alike(x.trades[j], y.trades[j])
  <2>1. CASE j # k
    BY <1>1, <1>5, <2>1 DEF TruncatedTo
  <2>2. CASE j = k
    <3>1. /\ x.trades[k] = Cut(b.trades[k], t, f, h.cut - f)
          /\ y.trades[k] = Cut(c.trades[k], t, g, h.cut - g)
          /\ b.trades[k] \in Trades /\ c.trades[k] \in Trades
          /\ Alike(b.trades[k], c.trades[k])
      BY <1>1, <1>5, TradeIs DEF TruncatedTo
    <3>2. h.cut - f + f = h.cut - g + g
      BY <1>4
    <3> QED BY <2>2, <3>1, <3>2 DEF Cut, Trades, Alike
  <2> QED BY <2>1, <2>2
<1>8. Same(x, y)
  BY <1>6, <1>7 DEF Same
<1> QED BY <1>8 DEF x, y

LEMMA SameEntered ==
  ASSUME NewsOK, NEW b, NEW c, Same(b, c), NEW i \in Items, NEW t \in Nat,
         NEW conf \in DOMAIN Tiers, NEW o, NEW p, o.candles = p.candles
  PROVE  Same(Entered(b, i, t, conf, o), Entered(c, i, t, conf, p))
<1> DEFINE h    == news[i]
           size == Size(b, h, t, conf)
           f    == FundingCost(h, h.hold, o.funding)
           g    == FundingCost(h, h.hold, p.funding)
           d    == EntryOf(i, h, t, size, f)
           e    == EntryOf(i, h, t, size, g)
           x    == Entered(b, i, t, conf, o)
           y    == Entered(c, i, t, conf, p)
<1>1. /\ BookOK(b) /\ BookOK(c) /\ h \in Kinds
  BY DEF Same, NewsOK
<1>2. f \in Int /\ g \in Int /\ h.pnl \in Int
  BY <1>1, FundingIs, HeadlineIs
<1>3. Size(c, h, t, conf) = size
  <2>1. Room(b, t) = Room(c, t)
    BY SameSums
  <2> QED BY <2>1, Zenon DEF Size
<1>4. IF ~o.candles \/ conf = 0 \/ size <= 0 THEN x = b /\ y = c
      ELSE EnteredTo(b, x, d) /\ EnteredTo(c, y, e)
  <2>1. IF ~o.candles \/ conf = 0 \/ size <= 0 THEN x = b ELSE EnteredTo(b, x, d)
    BY <1>1, EnteredKeeps
  <2>2. IF ~p.candles \/ conf = 0 \/ size <= 0 THEN y = c ELSE EnteredTo(c, y, e)
    BY <1>1, <1>3, EnteredKeeps
  <2> HIDE DEF x, y, d, e, size
  <2> QED BY <2>1, <2>2
<1>5. Alike(d, e)
  <2> HIDE DEF h, f, g, size
  <2> QED BY <1>2 DEF Alike, EntryOf
<1>6. d.mkt = e.mkt /\ d.from = e.from /\ d.till = e.till
  BY <1>5 DEF Alike
<1> HIDE DEF x, y, d, e, size
<1>7. ASSUME EnteredTo(b, x, d), EnteredTo(c, y, e) PROVE Same(x, y)
  <2>1. /\ BookOK(x) /\ BookOK(y) /\ x.signal = y.signal /\ x.halted = y.halted
        /\ x.last = y.last /\ x.till = y.till
        /\ x.trades = Append(b.trades, d) /\ y.trades = Append(c.trades, e)
        /\ d \in Trades /\ e \in Trades
    BY <1>6, <1>7 DEF EnteredTo, Same
  <2>2. b.trades \in Seq(Trades) /\ c.trades \in Seq(Trades) /\ Len(b.trades) = Len(c.trades)
    <3>1. b.trades \in Seq(Trades) /\ c.trades \in Seq(Trades) /\ DOMAIN b.trades = DOMAIN c.trades
      BY DEF Same, BookOK
    <3>2. 1 .. Len(b.trades) = 1 .. Len(c.trades) /\ Len(b.trades) \in Nat /\ Len(c.trades) \in Nat
      BY <3>1, LenProperties
    <3> QED BY <3>1, <3>2
  <2>3. /\ DOMAIN x.trades = DOMAIN y.trades
        /\ \A k \in DOMAIN x.trades : Alike(x.trades[k], y.trades[k])
    <3>1. /\ DOMAIN x.trades = 1 .. Len(b.trades) + 1 /\ DOMAIN y.trades = 1 .. Len(b.trades) + 1
          /\ \A k \in 1 .. Len(b.trades) : x.trades[k] = b.trades[k] /\ y.trades[k] = c.trades[k]
          /\ x.trades[Len(b.trades) + 1] = d /\ y.trades[Len(b.trades) + 1] = e
          /\ Len(b.trades) \in Nat /\ DOMAIN b.trades = 1 .. Len(b.trades)
      BY <2>1, <2>2, AppendProperties, LenProperties
    <3> QED BY <1>5, <3>1 DEF Same
  <2> QED BY <2>1, <2>3 DEF Same
<1>8. Same(x, y)
  BY <1>4, <1>7
<1> QED BY <1>8 DEF x, y

(* A judgement under the same candles and the same answer of the skeptic.  *)
LEMMA SameJudged ==
  ASSUME NewsOK, NEW b, NEW c, Same(b, c), NEW i \in Items,
         NEW o, NEW p, o.candles = p.candles, o.confirm = p.confirm
  PROVE  Same(Judged(b, i, o), Judged(c, i, p))
<1> DEFINE h == news[i]
           t == Times[i]
           u == Noted(b, h, t)
           v == Noted(c, h, t)
           l == Latched(u, t)
           m == Latched(v, t)
           k == CHOOSE k \in ContraryTo(b, h, t) : TRUE
           n == Confirmed(h, Confidence(h), o)
<1>1. t \in Nat /\ h \in Kinds
  BY ItemsAre DEF NewsOK
<1>2. Same(u, v) /\ Same(l, m)
  BY SameNoted, SameLatched
<1>3. Confidence(h) \in DOMAIN Tiers /\ n \in DOMAIN Tiers /\ Confirmed(h, Confidence(h), p) = n
  <2>1. Confirmed(h, Confidence(h), p) = n
    BY Zenon DEF Confirmed
  <2> QED BY <1>1, <2>1, ConfidenceIs, ConfirmedIs
<1>4. Same(Entered(l, i, t, n, o), Entered(m, i, t, n, p))
  BY <1>1, <1>2, <1>3, SameEntered
<1>5. Same(Entered(b, i, t, Confidence(h), o), Entered(c, i, t, Confidence(h), p))
  BY <1>1, <1>3, SameEntered
<1>6. /\ ContraryTo(b, h, t) = ContraryTo(c, h, t)
      /\ Duplicate(b, h, t) = Duplicate(c, h, t)
      /\ Capped(l, h, t) = Capped(m, h, t)
      /\ Cooling(b, h, t) = Cooling(c, h, t)
  BY <1>2, SameGuards
<1>7. ASSUME ContraryTo(b, h, t) # {}
      PROVE  Same(Truncated(b, k, t, o.funding), Truncated(c, k, t, p.funding))
  <2>1. k \in ContraryTo(b, h, t)
    BY <1>7
  <2>2. k \in DOMAIN b.trades
    BY <2>1 DEF ContraryTo, OpenOn, OpenAt
  <2> HIDE DEF k
  <2> QED BY <1>1, <2>2, SameTruncated
<1>8. CASE mode = "alone"
  <2>1. \/ Judged(b, i, o) = b /\ Judged(c, i, p) = c
        \/ /\ Judged(b, i, o) = Entered(b, i, t, Confidence(h), o)
           /\ Judged(c, i, p) = Entered(c, i, t, Confidence(h), p)
    BY <1>6, <1>8, Zenon DEF Judged, JudgedAlone
  <2> QED BY <1>5, <2>1
<1>9. CASE mode # "alone"
  <2>1. \/ Judged(b, i, o) = b /\ Judged(c, i, p) = c
        \/ Judged(b, i, o) = u /\ Judged(c, i, p) = v
        \/ Judged(b, i, o) = l /\ Judged(c, i, p) = m
        \/ /\ ContraryTo(b, h, t) # {}
           /\ Judged(b, i, o) = Truncated(b, k, t, o.funding)
           /\ Judged(c, i, p) = Truncated(c, k, t, p.funding)
        \/ /\ Judged(b, i, o) = Entered(l, i, t, n, o)
           /\ Judged(c, i, p) = Entered(m, i, t, n, p)
    BY <1>3, <1>6, <1>9, Zenon DEF Judged, JudgedInReplay
  <2> HIDE DEF u, v, l, m, k, n
  <2> QED BY <1>2, <1>4, <1>7, <2>1
<1> QED BY <1>8, <1>9

(* The run that nothing disturbs.                                          *)
IdealStep(f, n) == IF n = 0 THEN EmptyBook ELSE Judged(f[n - 1], n, Perfect)
IsIdeal(f) == f = [n \in 0 .. Len(Times) |-> IdealStep(f, n)]

LEMMA IdealExists == \E f : IsIdeal(f)
<1> DEFINE Good(m) == \E g : g = [n \in 0 .. m |-> IdealStep(g, n)]
           Bad     == {m \in Nat : ~Good(m)}
<1>1. ASSUME Bad # {} PROVE FALSE
  <2>1. PICK m \in Bad : \A n \in Bad : m <= n
    <3>1. Bad \subseteq Nat
      OBVIOUS
    <3> HIDE DEF Bad
    <3> QED BY <1>1, <3>1, Least
  <2>2. m \in Nat /\ ~Good(m)
    BY <2>1
  <2>3. CASE m = 0
    <3> DEFINE g == [n \in 0 .. 0 |-> EmptyBook]
    <3>1. g = [n \in 0 .. 0 |-> IdealStep(g, n)]
      BY DEF IdealStep
    <3> QED BY <2>2, <2>3, <3>1
  <2>4. CASE m # 0
    <3>1. m - 1 \in Nat /\ m - 1 \notin Bad
      <4>1. m - 1 \in Nat /\ ~(m <= m - 1)
        BY <2>2, <2>4
      <4> HIDE DEF Bad
      <4> QED BY <2>1, <4>1
    <3>2. PICK g : g = [n \in 0 .. m - 1 |-> IdealStep(g, n)]
      BY <3>1
    <3> DEFINE h == [n \in 0 .. m |-> IdealStep(g, n)]
    <3>3. \A n \in 0 .. m - 1 : h[n] = g[n]
      <4>1. \A n \in 0 .. m - 1 : n \in 0 .. m
        BY <2>2
      <4>2. \A n \in 0 .. m - 1 : g[n] = IdealStep(g, n)
        BY <3>2, Zenon
      <4> QED BY <4>1, <4>2
    <3> HIDE DEF h
    <3>4. \A n \in 0 .. m : IdealStep(h, n) = IdealStep(g, n)
      <4>1. \A n \in 0 .. m : n # 0 => n - 1 \in 0 .. m - 1
        BY <2>2
      <4> QED BY <3>3, <4>1 DEF IdealStep
    <3>5. h = [n \in 0 .. m |-> IdealStep(h, n)]
      BY <3>4 DEF h
    <3> QED BY <2>2, <3>5
  <2> QED BY <2>3, <2>4
<1>2. Good(Len(Times))
  BY <1>1, ItemsAre
<1>3. PICK g : g = [n \in 0 .. Len(Times) |-> IdealStep(g, n)]
  BY <1>2
<1>4. IsIdeal(g)
  BY <1>3, Zenon DEF IsIdeal
<1> QED BY <1>4

Ideal(f) ==
  /\ f[0] = EmptyBook
  /\ \A n \in Items : f[n] = Judged(f[n - 1], n, Perfect)

LEMMA IdealIs == Ideal(Uninterrupted)
<1>1. IsIdeal(Uninterrupted)
  BY IdealExists, Zenon DEF Uninterrupted, IsIdeal, IdealStep
<1>2. \A n \in 0 .. Len(Times) : Uninterrupted[n] = IdealStep(Uninterrupted, n)
  BY <1>1, Zenon DEF IsIdeal
<1>3. 0 \in 0 .. Len(Times) /\ \A n \in Items : n \in 0 .. Len(Times) /\ n # 0
  BY ItemsAre DEF Items
<1> QED BY <1>2, <1>3 DEF IdealStep, Ideal

LEMMA IdealIsOne ==
  ASSUME NEW f, NEW g, Ideal(f), Ideal(g)
  PROVE  \A n \in 0 .. Len(Times) : f[n] = g[n]
<1> DEFINE Bad == {n \in 0 .. Len(Times) : f[n] # g[n]}
<1>1. ASSUME Bad # {} PROVE FALSE
  <2>1. PICK n \in Bad : \A m \in Bad : n <= m
    <3>1. Bad \subseteq Nat
      OBVIOUS
    <3> HIDE DEF Bad
    <3> QED BY <1>1, <3>1, Least
  <2>2. n \in 0 .. Len(Times) /\ f[n] # g[n] /\ Len(Times) \in Nat
    BY <2>1, ItemsAre
  <2>3. n # 0
    BY <2>2 DEF Ideal
  <2>4. n \in Items /\ n - 1 \in 0 .. Len(Times) /\ ~(n <= n - 1)
    BY <2>2, <2>3 DEF Items
  <2>5. n - 1 \notin Bad
    <3> HIDE DEF Bad
    <3> QED BY <2>1, <2>4
  <2>6. f[n - 1] = g[n - 1]
    BY <2>4, <2>5
  <2> QED BY <2>2, <2>4, <2>6 DEF Ideal
<1> QED BY <1>1

(* The headlines of a run do not change, nor then what it should do.       *)
LEMMA JudgedStays ==
  ASSUME UNCHANGED <<mode, news>>, NEW b, NEW i, NEW e
  PROVE  Judged(b, i, e)' = Judged(b, i, e)
<1>1. mode' = mode /\ news' = news
  OBVIOUS
<1>2. JudgedAlone(b, i, e)' = JudgedAlone(b, i, e)
  BY <1>1 DEF JudgedAlone, Entered, Size
<1>3. JudgedInReplay(b, i, e)' = JudgedInReplay(b, i, e)
  BY <1>1 DEF JudgedInReplay, Entered, Size, Truncated
<1> QED BY <1>1, <1>2, <1>3, Zenon DEF Judged

LEMMA IdealStays ==
  ASSUME UNCHANGED <<mode, news>>, NEW f, Ideal(f)
  PROVE  Ideal(f)'
<1>1. \A n \in Items : Judged(f[n - 1], n, Perfect)' = Judged(f[n - 1], n, Perfect)
  <2> SUFFICES ASSUME NEW n \in Items
               PROVE  Judged(f[n - 1], n, Perfect)' = Judged(f[n - 1], n, Perfect)
    OBVIOUS
  <2> QED BY JudgedStays
<1> QED BY <1>1 DEF Ideal
-----------------------------------------------------------------------------
(***************************************************************************)
(* What a run has done so far, against the run that nothing disturbs.      *)
(***************************************************************************)
Memory(b, i) ==
  IF mode = "alone" THEN {}
  ELSE {j \in {b.trades[k].item : k \in DOMAIN b.trades} : Times[i] - Times[j] < MemWindow}

BriefOf(i) == IF mode = "alone" THEN 0 ELSE briefs[Boundary(Times[i])]

(* The briefs are all there while headlines are judged; a verdict was      *)
(* asked under the brief that is on file.                                  *)
Briefed(store) ==
  \A i \in Items : store[i] # None =>
    store[i].brief = BriefOf(i) /\ (mode # "alone" => BriefOf(i) # 0)

BriefsKept ==
  /\ phase \in {"run", "done"} /\ mode # "alone" => \A b \in Boundaries : briefs[b] # 0
  /\ Briefed(cache) /\ Briefed(disk)

Remembers(store, f) ==
  \A i \in Items : store[i] # None => store[i].memory = Memory(f[i - 1], i)

(* Without a failed call the book is that of the undisturbed run up to     *)
(* here, and every verdict that was ever paid for has its memory.          *)
Converging(f) ==
  /\ Ideal(f)
  /\ ~dirty => Same(book, f[at - 1])
  /\ clean => Remembers(cache, f) /\ Remembers(disk, f)

Progress ==
  /\ mode \in {"replay", "alone"}
  /\ clean => ~dirty
  /\ \A i \in tried : i \in Missing => dirty
  /\ phase = "done" => at \notin Items

ReplayInv == ReplayTypes /\ Progress /\ BriefsKept /\ \E f : Converging(f)

LEMMA SameIsReflexive == ASSUME NEW b, BookOK(b) PROVE Same(b, b)
BY DEF Same, Alike

LEMMA SameMemory ==
  ASSUME NEW b, NEW c, Same(b, c), NEW i
  PROVE  Memory(b, i) = Memory(c, i)
<1>1. {b.trades[k].item : k \in DOMAIN b.trades} = {c.trades[k].item : k \in DOMAIN c.trades}
  BY DEF Same, Alike
<1> QED BY <1>1, Zenon DEF Memory

LEMMA ContextParts ==
  \A i : Context(i).brief = BriefOf(i) /\ Context(i).memory = Memory(book, i)
BY DEF Context, BriefOf, Memory

LEMMA ReplayInitial == Init => ReplayInv
<1> SUFFICES ASSUME Init PROVE ReplayInv
  OBVIOUS
<1>1. Progress
  BY ReplayAssumption DEF Init, Progress
<1>2. \A i \in Items : cache[i] = None /\ disk[i] = None
  BY DEF Init
<1>3. BriefsKept
  BY <1>2 DEF Init, BriefsKept, Briefed
<1>4. Converging(Uninterrupted)
  <2>1. Uninterrupted[0] = EmptyBook
    BY IdealIs DEF Ideal
  <2>2. book = EmptyBook /\ at - 1 = 0
    BY DEF Init
  <2>3. Same(book, Uninterrupted[at - 1])
    BY <2>1, <2>2, EmptyBookOK, SameIsReflexive
  <2> QED BY <1>2, <2>3, IdealIs DEF Converging, Remembers
<1> QED BY <1>1, <1>3, <1>4, TypesInitial DEF ReplayInv

LEMMA ProgressKeeps == ReplayInv /\ [Next]_vars => Progress'
<1> SUFFICES ASSUME ReplayInv, [Next]_vars PROVE Progress'
  OBVIOUS
<1> USE DEF ReplayInv, Progress
<1>1. CASE BuildRegime \/ RegimeFails
  BY <1>1 DEF BuildRegime, RegimeFails, Missing, files
<1>2. CASE AnalyzeOk
  <2>1. PICK i \in Items : /\ cache' = [cache EXCEPT ![i] = Context(i)]
                           /\ tried' = tried \cup {i}
                           /\ UNCHANGED <<mode, phase, at, dirty, clean>>
    BY <1>2 DEF AnalyzeOk, Asks
  <2>2. Context(i) # None /\ cache \in [Items -> Verdicts]
    BY ContextIsNotNone DEF ReplayTypes
  <2>3. Missing' = Missing \ {i}
    BY <2>1, <2>2 DEF Missing
  <2> QED BY <2>1, <2>3
<1>3. CASE AnalyzeFails
  BY <1>3 DEF AnalyzeFails, Missing, Kept
<1>4. CASE Judge
  <2>1. /\ phase' = "run" /\ Missing' = Missing
        /\ UNCHANGED <<mode, tried>> /\ (dirty => dirty')
    <3>1. UNCHANGED <<mode, phase, cache, tried>> /\ phase = "run"
      BY <1>4, JudgeIs
    <3>2. dirty' = dirty \/ \E f : dirty' = (dirty \/ f # "funding")
      BY <1>4, JudgeIs
    <3>3. dirty => dirty'
      BY <3>2
    <3> QED BY <3>1, <3>3 DEF Missing
  <2>2. clean' => ~dirty'
    <3>1. CASE at \in Missing \/ UNCHANGED <<dirty, clean>>
      BY <1>4, <3>1, JudgeIs
    <3>2. CASE \E f \in {"candles", "funding", "confirm"} :
                 /\ dirty' = (dirty \/ f # "funding")
                 /\ clean' = (clean /\ f = "funding")
      BY <3>2
    <3> QED BY <1>4, <3>1, <3>2, JudgeIs
  <2> QED BY <2>1, <2>2
<1>5. CASE Finish
  BY <1>5 DEF Finish, Missing
<1>6. CASE Again \/ Crash
  BY <1>6 DEF Again, Crash, Fresh
<1>7. CASE UNCHANGED vars
  BY <1>7 DEF vars, Missing, files
<1> QED BY <1>1, <1>2, <1>3, <1>4, <1>5, <1>6, <1>7 DEF Next

LEMMA BriefsAreKept == ReplayInv /\ [Next]_vars => BriefsKept'
<1> SUFFICES ASSUME ReplayInv, [Next]_vars PROVE BriefsKept'
  OBVIOUS
<1> USE DEF ReplayInv, BriefsKept
<1>0. mode' = mode
  BY DEF Next, BuildRegime, RegimeFails, AnalyzeOk, AnalyzeFails, Judge, Finish, Again, Crash,
         vars, files
<1>1. CASE BuildRegime
  <2>1. CASE mode = "alone"
    BY <1>1, <2>1 DEF BuildRegime, Briefed, BriefOf
  <2>2. CASE mode # "alone"
    <3>1. \A b \in Boundaries : /\ briefs'[b] # 0
                                /\ briefs[b] # 0 => briefs'[b] = briefs[b]
      BY <1>1, <2>2 DEF BuildRegime, Timeline, ReplayTypes
    <3>2. \A i \in Items : Boundary(Times[i]) \in Boundaries
      BY DEF Boundaries
    <3>3. \A i \in Items : BriefOf(i) # 0 => BriefOf(i)' = BriefOf(i)
      BY <1>0, <2>2, <3>1, <3>2 DEF BriefOf
    <3>4. UNCHANGED <<cache, disk>>
      BY <1>1 DEF BuildRegime
    <3>5. Briefed(cache)' /\ Briefed(disk)'
      BY <1>0, <2>2, <3>3, <3>4 DEF Briefed
    <3> QED BY <3>1, <3>5
  <2> QED BY <2>1, <2>2
<1>2. CASE ~BuildRegime
  <2>1. briefs' = briefs /\ \A i : BriefOf(i)' = BriefOf(i)
    <3>1. briefs' = briefs
      BY <1>2 DEF Next, RegimeFails, AnalyzeOk, AnalyzeFails, Judge, Finish, Again, Crash,
                  vars, files
    <3> QED BY <1>0, <3>1 DEF BriefOf
  <2>2. phase' \in {"run", "done"} => phase \in {"run", "done"}
    BY <1>2 DEF Next, RegimeFails, AnalyzeOk, AnalyzeFails, Judge, Finish, Again, Crash, Fresh,
                vars, files
  <2>3. Briefed(cache')
    <3>1. CASE AnalyzeOk
      <4>1. PICK i \in Items : cache' = [cache EXCEPT ![i] = Context(i)] /\ phase = "run"
        BY <3>1 DEF AnalyzeOk, Asks
      <4>2. Boundary(Times[i]) \in Boundaries
        BY DEF Boundaries
      <4>3. mode # "alone" => BriefOf(i) # 0
        BY <4>1, <4>2 DEF BriefOf
      <4> QED BY <4>1, <4>3, ContextParts DEF Briefed, ReplayTypes
    <3>2. CASE ~AnalyzeOk
      <4>1. cache' = cache \/ cache' = disk
        BY <1>2, <3>2 DEF Next, RegimeFails, AnalyzeFails, Kept, Judge, Finish, Again, Crash,
                          Fresh, vars, files
      <4> QED BY <4>1
    <3> QED BY <3>1, <3>2
  <2>4. disk' = disk \/ disk' = cache' \/ disk' = cache
    BY <1>2 DEF Next, RegimeFails, AnalyzeOk, AnalyzeFails, Judge, Finish, Again, Crash,
                vars, files
  <2>5. Briefed(cache)' /\ Briefed(disk)'
    BY <1>0, <2>1, <2>3, <2>4 DEF Briefed
  <2> QED BY <1>0, <2>1, <2>2, <2>5
<1> QED BY <1>1, <1>2

LEMMA ConvergingKeeps ==
  ASSUME ReplayInv, [Next]_vars, NEW f, Converging(f)
  PROVE  Converging(f)'
<1> USE DEF ReplayInv
<1>0. UNCHANGED <<mode, news>> /\ Ideal(f) /\ Ideal(f)'
  <2>1. UNCHANGED <<mode, news>>
    BY DEF Next, BuildRegime, RegimeFails, AnalyzeOk, AnalyzeFails, Judge, Finish, Again, Crash,
           vars, files
  <2>2. Ideal(f)
    BY DEF Converging
  <2> QED BY <2>1, <2>2, IdealStays
<1>1. \A i \in Items : Memory(f[i - 1], i)' = Memory(f[i - 1], i)
  BY <1>0 DEF Memory
<1>2. ~dirty' => Same(book', f[at' - 1])
  <2> SUFFICES ASSUME ~dirty' PROVE Same(book', f[at' - 1])
    OBVIOUS
  <2>1. CASE Judge
    <3>1. /\ at \in Items /\ at' = at + 1 /\ Ready /\ ~dirty
          /\ \/ at \in Missing
             \/ book' = Judged(book, at, Perfect)
             \/ book' = Judged(book, at, [Perfect EXCEPT !["funding"] = FALSE])
      <4>1. CASE at \in Missing /\ UNCHANGED dirty
        BY <2>1, <4>1, JudgeIs
      <4>2. CASE book' = Judged(book, at, Perfect) /\ UNCHANGED dirty
        BY <2>1, <4>2, JudgeIs
      <4>3. ASSUME NEW g, book' = Judged(book, at, [Perfect EXCEPT ![g] = FALSE]),
                   dirty' = (dirty \/ g # "funding")
            PROVE  ~dirty /\ book' = Judged(book, at, [Perfect EXCEPT !["funding"] = FALSE])
        <5>1. ~dirty /\ g = "funding"
          BY <4>3
        <5> QED BY <4>3, <5>1
      <4> QED BY <2>1, <4>1, <4>2, <4>3, JudgeIs
    <3>2. at \notin Missing
      <4>1. at \in Missing => at \in tried
        BY <3>1 DEF Ready, Progress
      <4> QED BY <3>1, <4>1 DEF Progress
    <3>3. Same(book, f[at - 1]) /\ f[at] = Judged(f[at - 1], at, Perfect)
      BY <1>0, <3>1 DEF Converging, Ideal
    <3> DEFINE e == [Perfect EXCEPT !["funding"] = FALSE]
    <3>4. e.candles = Perfect.candles /\ e.confirm = Perfect.confirm
      BY DEF Perfect
    <3> HIDE DEF e
    <3>5. Same(Judged(book, at, Perfect), f[at]) /\ Same(Judged(book, at, e), f[at])
      BY <3>1, <3>3, <3>4, SameJudged DEF ReplayTypes
    <3>6. at' - 1 = at
      BY <3>1, ItemsAre
    <3> QED BY <3>1, <3>2, <3>5, <3>6 DEF e
  <2>2. CASE Again \/ Crash
    <3>1. book' = EmptyBook /\ at' - 1 = 0
      BY <2>2 DEF Again, Crash, Fresh
    <3> QED BY <1>0, <3>1, EmptyBookOK, SameIsReflexive DEF Ideal
  <2>3. CASE ~(Judge \/ Again \/ Crash)
    <3>1. UNCHANGED <<book, at>> /\ ~dirty
      BY <2>3 DEF Next, BuildRegime, RegimeFails, AnalyzeOk, AnalyzeFails, Finish, vars, files
    <3> QED BY <3>1 DEF Converging
  <2> QED BY <2>1, <2>2, <2>3
<1>3. clean' => Remembers(cache', f) /\ Remembers(disk', f)
  <2> SUFFICES ASSUME clean' PROVE Remembers(cache', f) /\ Remembers(disk', f)
    OBVIOUS
  <2>1. clean /\ Remembers(cache, f) /\ Remembers(disk, f)
    <3>1. CASE Judge
      BY <3>1, JudgeIs DEF Converging
    <3>2. CASE ~Judge
      BY <3>2 DEF Converging, Next, BuildRegime, RegimeFails, AnalyzeOk, AnalyzeFails, Finish,
                  Again, Crash, vars, files
    <3> QED BY <3>1, <3>2
  <2>2. Remembers(cache', f)
    <3>1. CASE AnalyzeOk
      <4>1. PICK i \in Items : /\ cache' = [cache EXCEPT ![i] = Context(i)]
                               /\ mode = "replay" => i = at
        BY <3>1 DEF AnalyzeOk, Asks
      <4>2. Memory(book, i) = Memory(f[i - 1], i)
        <5>1. CASE mode = "alone"
          BY <5>1 DEF Memory
        <5>2. CASE mode = "replay"
          <6>1. Same(book, f[i - 1])
            BY <2>1, <4>1, <5>2 DEF Progress, Converging
          <6> QED BY <6>1, SameMemory
        <5> QED BY <5>1, <5>2 DEF Progress
      <4> QED BY <2>1, <4>1, <4>2, ContextParts DEF Remembers, ReplayTypes
    <3>2. CASE ~AnalyzeOk
      <4>1. cache' = cache \/ cache' = disk
        BY <3>2 DEF Next, BuildRegime, RegimeFails, AnalyzeFails, Kept, Judge, Finish, Again,
                    Crash, Fresh, vars, files
      <4> QED BY <2>1, <4>1
    <3> QED BY <3>1, <3>2
  <2>3. disk' = disk \/ disk' = cache' \/ disk' = cache
    BY DEF Next, BuildRegime, RegimeFails, AnalyzeOk, AnalyzeFails, Judge, Finish, Again, Crash,
           vars, files
  <2> QED BY <2>1, <2>2, <2>3
<1>4. clean' => Remembers(cache, f)' /\ Remembers(disk, f)'
  BY <1>1, <1>3 DEF Remembers
<1> QED BY <1>0, <1>2, <1>4 DEF Converging

LEMMA ReplayKeeps == ReplayInv /\ [Next]_vars => ReplayInv'
<1> SUFFICES ASSUME ReplayInv, [Next]_vars PROVE ReplayInv'
  OBVIOUS
<1>1. ReplayTypes' /\ Progress' /\ BriefsKept'
  BY TypesKeep, ProgressKeeps, BriefsAreKept DEF ReplayInv
<1>2. PICK f : Converging(f)
  BY DEF ReplayInv
<1>3. Converging(f)'
  BY <1>2, ConvergingKeeps
<1> QED BY <1>1, <1>3 DEF ReplayInv

LEMMA ReplayHolds == Spec => []ReplayInv
BY ReplayInitial, ReplayKeeps, PTL DEF Spec

(* Whatever earlier runs paid for, and however they ended: the verdict the *)
(* loop acts on was asked in the context this run has reached              *)
(* (engine.py, run_live_replay and AnalysisCache).                         *)
THEOREM ContextIsThere == Spec => []JudgedInContext
<1>1. ReplayInv => JudgedInContext
  <2> SUFFICES ASSUME ReplayInv, Ready, at \notin Missing
               PROVE  /\ cache[at].brief = Context(at).brief
                      /\ clean => cache[at].memory = Context(at).memory
    BY DEF JudgedInContext
  <2>1. at \in Items /\ cache[at] # None
    BY DEF Ready, Missing
  <2>2. cache[at].brief = BriefOf(at)
    BY <2>1 DEF ReplayInv, BriefsKept, Briefed
  <2>3. ASSUME clean PROVE cache[at].memory = Memory(book, at)
    <3>1. PICK f : Converging(f)
      BY DEF ReplayInv
    <3>2. Same(book, f[at - 1]) /\ cache[at].memory = Memory(f[at - 1], at)
      BY <2>1, <2>3, <3>1 DEF ReplayInv, Progress, Converging, Remembers
    <3> QED BY <3>2, SameMemory
  <2> QED BY <2>2, <2>3, ContextParts
<1> QED BY <1>1, ReplayHolds, PTL

(* A run that comes to its end without a failed call has entered and left  *)
(* what an undisturbed run would have, whatever was interrupted before it. *)
THEOREM ResumeIsSound == Spec => []ResumeConverges
<1>1. ReplayInv => ResumeConverges
  <2> SUFFICES ASSUME ReplayInv, phase = "done", ~dirty
               PROVE  Entries(book) = Entries(Uninterrupted[Len(Times)])
    BY DEF ResumeConverges
  <2>1. PICK f : Converging(f)
    BY DEF ReplayInv
  <2>2. at - 1 = Len(Times) /\ Len(Times) \in Nat
    <3>1. at \notin Items /\ at \in 1 .. Len(Times) + 1
      BY DEF ReplayInv, Progress, ReplayTypes
    <3> QED BY <3>1, ItemsAre DEF Items
  <2>3. f[Len(Times)] = Uninterrupted[Len(Times)]
    BY <2>1, <2>2, IdealIs, IdealIsOne DEF Converging
  <2>4. Same(book, Uninterrupted[Len(Times)])
    BY <2>1, <2>2, <2>3 DEF Converging
  <2> DEFINE u == Uninterrupted[Len(Times)]
  <2> HIDE DEF u
  <2>5. /\ DOMAIN book.trades = DOMAIN u.trades
        /\ \A k \in DOMAIN book.trades : Alike(book.trades[k], u.trades[k])
    BY <2>4 DEF Same, u
  <2>6. Entries(book) = Entries(u)
    BY <2>5 DEF Entries, Alike
  <2> QED BY <2>6 DEF u
<1> QED BY <1>1, ReplayHolds, PTL
-----------------------------------------------------------------------------
(***************************************************************************)
(* The limits of the portfolio.  They are stated of the moment of an       *)
(* entry, and what comes later may only take away from what counted then:  *)
(* a contrary exit ends a trade earlier, and its result is realized after  *)
(* every entry there is so far.  That last part needs headlines that come  *)
(* one at a time, and trades that do not end as they begin.                *)
(***************************************************************************)
OneAtATime ==
  /\ \A i \in Items \ {1} : Times[i - 1] < Times[i]
  /\ \A h \in Kinds : h.hold > 0

LEMMA Later ==
  ASSUME OneAtATime, NEW i \in Items, NEW j \in Items, i < j
  PROVE  Times[i] < Times[j]
<1> DEFINE Bad == {n \in Items : i < n /\ ~(Times[i] < Times[n])}
<1>1. ASSUME Bad # {} PROVE FALSE
  <2>1. PICK n \in Bad : \A m \in Bad : n <= m
    <3>1. Bad \subseteq Nat
      BY ItemsAre
    <3> HIDE DEF Bad
    <3> QED BY <1>1, <3>1, Least
  <2>2. /\ n \in Items /\ i < n /\ ~(Times[i] < Times[n]) /\ n - 1 \in Items /\ n # 1
        /\ Len(Times) \in Nat /\ ~(n <= n - 1) /\ i \in Nat
    BY <2>1, ItemsAre DEF Items
  <2>3. n - 1 \notin Bad
    <3> HIDE DEF Bad
    <3> QED BY <2>1, <2>2
  <2>4. Times[n - 1] < Times[n] /\ Times[n - 1] \in Nat /\ Times[n] \in Nat /\ Times[i] \in Nat
    BY <2>2, ItemsAre DEF OneAtATime
  <2>5. i = n - 1 \/ Times[i] < Times[n - 1]
    BY <2>2, <2>3, ItemsAre
  <2> QED BY <2>2, <2>4, <2>5
<1> QED BY <1>1

(* What PortfolioSound says of a trade.                                    *)
Held(b, k) == {j \in DOMAIN b.trades : j <= k /\ b.trades[j].till > b.trades[k].from}

AloneOnMarket(b, k) ==
  \A j \in 1 .. k - 1 : b.trades[j].mkt = b.trades[k].mkt =>
    b.trades[j].till <= b.trades[k].from /\ b.trades[j].from + Cooldown <= b.trades[k].from
InCount(b, k)   == Cardinality(Held(b, k) \cup {k}) <= MaxOpen
InBudget(b, k)  == 2 * Notional(b, Held(b, k)) <= 2 * MaxExposure + Lot
BeforeLoss(b, k) == Realized(b, b.trades[k].from) > -Limit

Within(b, k) == AloneOnMarket(b, k) /\ InCount(b, k) /\ InBudget(b, k) /\ BeforeLoss(b, k)

(* What a market remembers of its trades.                                  *)
Noticed(b, n) ==
  \A k \in DOMAIN b.trades :
    LET tr == b.trades[k]
    IN /\ tr.item < n /\ tr.from = Times[tr.item] /\ tr.mkt = news[tr.item].mkt
       /\ tr.till <= b.till[tr.mkt]
       /\ tr.from <= b.last[tr.mkt]

Limits(b, n) == BookOK(b) /\ Noticed(b, n) /\ \A k \in DOMAIN b.trades : Within(b, k)

Ended(b, t) == {k \in DOMAIN b.trades : b.trades[k].till <= t /\ Day(b.trades[k].till) = Day(t)}
Earned(b)   == [k \in DOMAIN b.trades |-> b.trades[k].pnl + b.trades[k].fund]

LEMMA RealizedIs ==
  ASSUME NEW b, BookOK(b), NEW t
  PROVE  /\ IsFiniteSet(Ended(b, t)) /\ \A k \in Ended(b, t) : Earned(b)[k] \in Int
         /\ Realized(b, t) = Total(Earned(b), Ended(b, t)) /\ Realized(b, t) \in Int
<1>1. IsFiniteSet(Ended(b, t))
  <2>1. Ended(b, t) \in SUBSET DOMAIN b.trades
    BY DEF Ended
  <2> QED BY <2>1, NotionalIs
<1>2. \A k \in Ended(b, t) : Earned(b)[k] \in Int
  BY TradeIs DEF Ended, Earned
<1>3. Realized(b, t) = Total(Earned(b), Ended(b, t))
  BY TotalIs, Zenon DEF Realized, Earned, Ended
<1>4. Total(Earned(b), Ended(b, t)) \in Int
  BY <1>1, <1>2, TotalType
<1> QED BY <1>1, <1>2, <1>3, <1>4

LEMMA RealizedSame ==
  ASSUME NEW b, BookOK(b), NEW c, BookOK(c), NEW t, Ended(b, t) = Ended(c, t),
         \A k \in Ended(b, t) : Earned(b)[k] = Earned(c)[k]
  PROVE  Realized(b, t) = Realized(c, t)
BY RealizedIs, TotalSame

(* A note changes nothing of this.                                         *)
LEMMA NotesKeepLimits ==
  ASSUME NEW b, NEW n \in Nat, Limits(b, n), NEW c, OnlyNotes(b, c)
  PROVE  Limits(c, n + 1)
<1>1. c.trades = b.trades /\ c.till = b.till /\ c.last = b.last /\ BookOK(c)
  BY DEF OnlyNotes
<1>2. \A S : Notional(c, S) = Notional(b, S)
  BY <1>1, Zenon DEF Notional
<1>3. \A t : Realized(c, t) = Realized(b, t)
  BY <1>1, Zenon DEF Realized
<1>4. \A k : Held(c, k) = Held(b, k)
  BY <1>1 DEF Held
<1>5. \A k \in DOMAIN c.trades : Within(c, k)
  BY <1>1, <1>2, <1>3, <1>4
  DEF Limits, Within, AloneOnMarket, InCount, InBudget, BeforeLoss
<1>6. Noticed(c, n + 1)
  <2>1. \A k \in DOMAIN b.trades : b.trades[k].item \in Nat
    BY TradeIs, ItemsAre DEF Limits
  <2> QED BY <1>1, <2>1 DEF Limits, Noticed
<1> QED BY <1>1, <1>5, <1>6 DEF Limits

(* What is known of the trades when headline n is judged.                  *)
LEMMA Before ==
  ASSUME OneAtATime, NEW b, NEW n \in Items, Limits(b, n), NEW k \in DOMAIN b.trades
  PROVE  /\ b.trades[k].from < Times[n]
         /\ k \in Nat \ {0} /\ k <= Len(b.trades) /\ Len(b.trades) \in Nat
         /\ DOMAIN b.trades = 1 .. Len(b.trades)
         /\ \A j \in DOMAIN b.trades : j < k /\ b.trades[j].mkt = b.trades[k].mkt =>
              b.trades[j].till <= b.trades[k].from
<1>1. BookOK(b)
  BY DEF Limits
<1>2. /\ b.trades[k].item \in Items /\ b.trades[k].item < n
      /\ b.trades[k].from = Times[b.trades[k].item]
  BY <1>1, TradeIs DEF Limits, Noticed
<1>3. b.trades[k].from < Times[n]
  BY <1>2, Later
<1>4. k \in Nat \ {0} /\ k <= Len(b.trades) /\ DOMAIN b.trades = 1 .. Len(b.trades)
      /\ Len(b.trades) \in Nat
  BY <1>1, TradeIs, LenProperties DEF BookOK
<1>5. \A j \in DOMAIN b.trades : j < k => j \in 1 .. k - 1
  BY <1>4
<1> QED BY <1>3, <1>4, <1>5 DEF Limits, Within, AloneOnMarket

LEMMA ExitsKeepLimits ==
  ASSUME OneAtATime, NEW b, NEW n \in Items, Limits(b, n), NEW h, NEW c,
         Exits(b, c, h, Times[n])
  PROVE  Limits(c, n + 1)
<1> DEFINE t == Times[n]
<1>1. PICK x \in ContraryTo(b, h, t), fund \in Int, pnl \in Int :
        /\ TruncatedTo(b, c, x, t, fund, pnl)
        /\ c.till = [b.till EXCEPT ![news[b.trades[x].item].mkt] = t]
  BY DEF Exits
<1>2. BookOK(b) /\ BookOK(c) /\ t \in Nat /\ n \in Nat
  BY <1>1, ItemsAre DEF TruncatedTo, Limits
<1>3. x \in DOMAIN b.trades /\ b.trades[x].till > t
  BY DEF ContraryTo, OpenOn, OpenAt
<1> DEFINE D == DOMAIN b.trades
           m == b.trades[x].mkt
<1> HIDE DEF t
<1>4. /\ DOMAIN c.trades = D
      /\ \A k \in D : /\ c.trades[k].item = b.trades[k].item
                      /\ c.trades[k].mkt = b.trades[k].mkt
                      /\ c.trades[k].size = b.trades[k].size
                      /\ c.trades[k].from = b.trades[k].from
                      /\ k # x => c.trades[k] = b.trades[k]
      /\ c.trades[x].till = t
  <2>1. c.trades = [b.trades EXCEPT ![x] = Cut(@, t, fund, pnl)]
    BY <1>1 DEF TruncatedTo
  <2>2. b.trades[x] \in Trades
    BY <1>2, <1>3, TradeIs
  <2> QED BY <1>3, <2>1, <2>2 DEF Cut, Trades
<1>5. c.last = b.last /\ c.till = [b.till EXCEPT ![m] = t] /\ m \in Markets
  BY <1>1, <1>2, <1>3, TradeIs DEF TruncatedTo, Limits, Noticed
<1>6. \A k \in D : /\ b.trades[k].from < t /\ b.trades[k].from \in Nat
                   /\ b.trades[k].till \in Nat /\ c.trades[k].till \in Nat
                   /\ c.trades[k].till <= b.trades[k].till
                   /\ k \in Nat \ {0} /\ b.trades[k].mkt \in Markets /\ b.trades[k].item \in Nat
  <2> SUFFICES ASSUME NEW k \in D
               PROVE  /\ b.trades[k].from < t /\ b.trades[k].from \in Nat
                      /\ b.trades[k].till \in Nat /\ c.trades[k].till \in Nat
                      /\ c.trades[k].till <= b.trades[k].till
                      /\ k \in Nat \ {0} /\ b.trades[k].mkt \in Markets
                      /\ b.trades[k].item \in Nat
    OBVIOUS
  <2>1. b.trades[k].from < t /\ k \in Nat \ {0}
    BY Before DEF t
  <2>2. /\ b.trades[k].from \in Nat /\ b.trades[k].till \in Nat
        /\ b.trades[k].mkt \in Markets /\ b.trades[k].item \in Nat
    BY <1>2, TradeIs, ItemsAre
  <2>3. c.trades[k].till \in Nat /\ c.trades[k].till <= b.trades[k].till
    <3>1. CASE k = x
      BY <1>2, <1>3, <1>4, <2>2, <3>1
    <3>2. CASE k # x
      BY <1>4, <2>2, <3>2
    <3> QED BY <3>1, <3>2
  <2> QED BY <2>1, <2>2, <2>3
<1>7. \A k \in D : k # x /\ b.trades[k].mkt = m => b.trades[k].till <= t
  <2> SUFFICES ASSUME NEW k \in D, k # x, b.trades[k].mkt = m PROVE b.trades[k].till <= t
    OBVIOUS
  <2>1. CASE k < x
    <3>1. b.trades[k].till <= b.trades[x].from
      BY <1>3, <2>1, Before
    <3> QED BY <1>3, <1>6, <3>1, <1>2
  <2>2. CASE x < k
    <3>1. b.trades[x].till <= b.trades[k].from
      BY <1>3, <2>2, Before
    <3> QED BY <1>3, <1>6, <3>1, <1>2
  <2> QED BY <1>3, <1>6, <2>1, <2>2
<1>8. Noticed(c, n + 1)
  <2> SUFFICES ASSUME NEW k \in D
               PROVE  /\ b.trades[k].item < n + 1 /\ b.trades[k].from = Times[b.trades[k].item]
                      /\ b.trades[k].mkt = news[b.trades[k].item].mkt
                      /\ c.trades[k].till <= c.till[b.trades[k].mkt]
                      /\ b.trades[k].from <= c.last[b.trades[k].mkt]
    BY <1>4 DEF Noticed
  <2>1. /\ b.trades[k].item < n /\ b.trades[k].from = Times[b.trades[k].item]
        /\ b.trades[k].mkt = news[b.trades[k].item].mkt
        /\ b.trades[k].till <= b.till[b.trades[k].mkt]
        /\ b.trades[k].from <= b.last[b.trades[k].mkt]
    BY DEF Limits, Noticed
  <2>2. c.trades[k].till <= c.till[b.trades[k].mkt]
    <3>1. b.till \in [Markets -> Nat]
      BY <1>2 DEF BookOK
    <3>2. CASE k = x
      BY <1>2, <1>4, <1>5, <3>1, <3>2
    <3>3. CASE k # x /\ b.trades[k].mkt = m
      BY <1>4, <1>5, <1>7, <3>1, <3>3
    <3>4. CASE k # x /\ b.trades[k].mkt # m
      BY <1>4, <1>5, <1>6, <2>1, <3>1, <3>4
    <3> QED BY <3>2, <3>3, <3>4
  <2>3. b.trades[k].item < n + 1
    BY <1>2, <1>6, <2>1
  <2> QED BY <1>5, <2>1, <2>2, <2>3
<1>9. ASSUME NEW k \in D PROVE Within(c, k)
  <2>0. Within(b, k)
    BY DEF Limits
  <2>1. AloneOnMarket(c, k)
    <3>1. \A j \in 1 .. k - 1 : j \in D
      BY Before
    <3> QED BY <1>4, <1>6, <2>0, <3>1 DEF Within, AloneOnMarket
  <2>2. Held(c, k) \subseteq Held(b, k) /\ Held(b, k) \in SUBSET D
    BY <1>4, <1>6 DEF Held
  <2>3. InCount(c, k)
    <3>1. IsFiniteSet(Held(b, k) \cup {k})
      BY <1>2, <2>2, NotionalIs, FS_AddElement
    <3>2. /\ Cardinality(Held(c, k) \cup {k}) <= Cardinality(Held(b, k) \cup {k})
          /\ IsFiniteSet(Held(c, k) \cup {k})
      <4>1. Held(c, k) \cup {k} \in SUBSET (Held(b, k) \cup {k})
        BY <2>2
      <4> QED BY <3>1, <4>1, FS_Subset
    <3>3. Cardinality(Held(c, k) \cup {k}) \in Nat /\ Cardinality(Held(b, k) \cup {k}) \in Nat
      BY <3>1, <3>2, FS_CardinalityType
    <3> QED BY <2>0, <3>2, <3>3, ReplayAssumption DEF Within, InCount
  <2>4. InBudget(c, k)
    <3> DEFINE p == [j \in D |-> b.trades[j].size]
    <3>1. p = [j \in DOMAIN c.trades |-> c.trades[j].size]
      BY <1>4
    <3>2. /\ IsFiniteSet(Held(b, k)) /\ Notional(b, Held(b, k)) = Total(p, Held(b, k))
          /\ Notional(b, Held(b, k)) \in Nat
      BY <1>2, <2>2, NotionalIs
    <3>3. Notional(c, Held(c, k)) = Total(p, Held(c, k)) /\ Notional(c, Held(c, k)) \in Nat
      BY <1>2, <1>4, <2>2, <3>1, NotionalIs
    <3>4. \A j \in Held(b, k) : p[j] \in Nat
      BY <1>2, <2>2, TradeIs
    <3> HIDE DEF p
    <3>5. Total(p, Held(c, k)) <= Total(p, Held(b, k))
      BY <2>2, <3>2, <3>4, TotalGrows
    <3>6. MaxExposure \in Nat /\ Lot \in Nat
      BY ReplayAssumption
    <3>7. 2 * Notional(b, Held(b, k)) <= 2 * MaxExposure + Lot
      BY <2>0 DEF Within, InBudget
    <3>8. Notional(c, Held(c, k)) <= Notional(b, Held(b, k))
      BY <3>2, <3>3, <3>5
    <3>9. 2 * Notional(c, Held(c, k)) <= 2 * MaxExposure + Lot
      BY <3>2, <3>3, <3>6, <3>7, <3>8
    <3> QED BY <3>9 DEF InBudget
  <2>5. BeforeLoss(c, k)
    <3> DEFINE s == b.trades[k].from
    <3>1. s \in Nat /\ s < t
      BY <1>6
    <3>2. Ended(b, s) = Ended(c, s) /\ x \notin Ended(b, s)
      <4>1. ~(b.trades[x].till <= s) /\ ~(c.trades[x].till <= s)
        BY <1>2, <1>3, <1>4, <1>6, <3>1
      <4> QED BY <1>4, <4>1 DEF Ended
    <3>3. \A j \in Ended(b, s) : Earned(b)[j] = Earned(c)[j]
      BY <1>4, <3>2 DEF Earned, Ended
    <3>4. Realized(b, s) = Realized(c, s)
      BY <1>2, <3>2, <3>3, RealizedSame
    <3> QED BY <1>4, <2>0, <3>4 DEF Within, BeforeLoss
  <2> QED BY <2>1, <2>3, <2>4, <2>5 DEF Within
<1> QED BY <1>2, <1>4, <1>8, <1>9 DEF Limits

(* One market is open once, so that counting markets counts trades.        *)
LEMMA OpenIsCounted ==
  ASSUME OneAtATime, NEW b, NEW n \in Items, Limits(b, n), NEW t, t = Times[n]
  PROVE  /\ IsFiniteSet(OpenAt(b, t))
         /\ Cardinality(OpenAt(b, t)) <= Cardinality({m \in Markets : b.till[m] > t})
         /\ Cardinality({m \in Markets : b.till[m] > t}) \in Nat
<1> DEFINE O == OpenAt(b, t)
           M == {m \in Markets : b.till[m] > t}
           f == [k \in O |-> b.trades[k].mkt]
<1>1. BookOK(b) /\ t \in Nat /\ O \subseteq DOMAIN b.trades
  BY ItemsAre DEF Limits, OpenAt
<1>2. IsFiniteSet(O)
  BY <1>1, NotionalIs
<1>3. IsFiniteSet(M) /\ Cardinality(M) \in Nat
  BY ReplayAssumption, FS_Subset, FS_CardinalityType
<1>4. \A k \in O : /\ b.trades[k].mkt \in Markets /\ b.trades[k].till > t
                   /\ b.trades[k].till \in Nat
                   /\ b.trades[k].from < t /\ b.trades[k].from \in Nat
                   /\ b.trades[k].till <= b.till[b.trades[k].mkt]
                   /\ b.till[b.trades[k].mkt] \in Nat
                   /\ k \in Nat
  <2> SUFFICES ASSUME NEW k \in O
               PROVE  /\ b.trades[k].mkt \in Markets /\ b.trades[k].till > t
                      /\ b.trades[k].till \in Nat
                      /\ b.trades[k].from < t /\ b.trades[k].from \in Nat
                      /\ b.trades[k].till <= b.till[b.trades[k].mkt]
                      /\ b.till[b.trades[k].mkt] \in Nat
                      /\ k \in Nat
    OBVIOUS
  <2>1. k \in DOMAIN b.trades /\ b.trades[k].till > t
    BY DEF OpenAt
  <2>2. /\ b.trades[k].mkt \in Markets /\ b.trades[k].till \in Nat /\ b.trades[k].from \in Nat
    BY <1>1, <2>1, TradeIs
  <2>3. b.trades[k].from < t /\ k \in Nat
    BY <2>1, Before
  <2>4. b.trades[k].till <= b.till[b.trades[k].mkt] /\ b.till \in [Markets -> Nat]
    BY <1>1, <2>1 DEF Limits, Noticed, BookOK
  <2> QED BY <2>1, <2>2, <2>3, <2>4
<1>5. f \in Injection(O, M)
  <2>1. f \in [O -> M]
    BY <1>1, <1>4
  <2>2. ASSUME NEW j \in O, NEW k \in O, j < k, f[j] = f[k] PROVE FALSE
    <3>1. b.trades[j].till <= b.trades[k].from
      BY <1>1, <2>2, Before
    <3> QED BY <1>1, <1>4, <3>1
  <2>3. \A j, k \in O : f[j] = f[k] => j = k
    <3> HIDE DEF f, O
    <3>1. \A j, k \in O : j = k \/ j < k \/ k < j
      BY <1>4
    <3> QED BY <2>2, <3>1
  <2>4. IsInjective(f)
    <3>1. DOMAIN f = O
      OBVIOUS
    <3> HIDE DEF f, O
    <3> QED BY <2>3, <3>1, Zenon DEF IsInjective
  <2> HIDE DEF f
  <2> QED BY <2>1, <2>4 DEF Injection
<1>6. Cardinality(O) <= Cardinality(M)
  BY <1>3, <1>5, FS_Injection
<1> QED BY <1>2, <1>3, <1>6

LEMMA EntersKeepLimits ==
  ASSUME OneAtATime, NewsOK, mode # "alone", NEW b, NEW n \in Items, Limits(b, n), NEW c,
         Enters(b, c, n)
  PROVE  Limits(c, n + 1)
<1> DEFINE t == Times[n]
           h == news[n]
           s == Noted(b, h, t)
           l == Latched(s, t)
           D == DOMAIN b.trades
           N == Len(b.trades) + 1
<1>1. PICK e \in Trades :
        /\ OnlyNotes(b, l) /\ EnteredTo(l, c, e) /\ ~Capped(l, h, t)
        /\ e.item = n /\ e.from = t /\ e.mkt = h.mkt /\ e.till = t + h.hold
        /\ 2 * e.size <= 2 * Room(l, t) + Lot
  BY DEF Enters
<1>2. /\ BookOK(b) /\ BookOK(l) /\ BookOK(c) /\ t \in Nat /\ n \in Nat
      /\ l.trades = b.trades /\ l.till = b.till /\ l.last = b.last
  BY <1>1, ItemsAre DEF OnlyNotes, EnteredTo, Limits
<1>3. h.mkt \in Markets /\ h.hold \in Nat /\ h.hold > 0 /\ e.size \in Nat
  BY HeadlineIs DEF NewsOK, OneAtATime, Trades
<1>4. /\ D = 1 .. Len(b.trades) /\ Len(b.trades) \in Nat /\ DOMAIN c.trades = D \cup {N}
      /\ \A k \in D : c.trades[k] = b.trades[k] /\ k < N /\ k \in Nat
      /\ c.trades[N] = e /\ N \notin D /\ N \in Nat
  <2>1. b.trades \in Seq(Trades) /\ c.trades = Append(b.trades, e)
    BY <1>1, <1>2 DEF BookOK, EnteredTo
  <2>2. D = 1 .. Len(b.trades) /\ Len(b.trades) \in Nat /\ DOMAIN c.trades = 1 .. N
    BY <2>1, LenProperties, AppendProperties
  <2> QED BY <2>1, <2>2, AppendProperties
<1>5. /\ c.last = [b.last EXCEPT ![h.mkt] = t]
      /\ c.till = [b.till EXCEPT ![h.mkt] = t + h.hold]
  BY <1>1, <1>2 DEF EnteredTo
<1>6. /\ ~Cooling(l, h, t) /\ ~(b.till[h.mkt] > t) /\ Day(t) \notin l.halted
      /\ Cardinality({m \in Markets : b.till[m] > t}) < MaxOpen
  <2>1. /\ ~Cooling(l, h, t) /\ ~(l.till[h.mkt] > t) /\ Day(t) \notin l.halted
        /\ ~(Cardinality({m \in Markets : l.till[m] > t}) >= MaxOpen)
    BY <1>1, Zenon DEF Capped
  <2>2. Cardinality({m \in Markets : b.till[m] > t}) \in Nat /\ MaxOpen \in Nat
    BY OpenIsCounted, ReplayAssumption
  <2> QED BY <1>2, <2>1, <2>2
<1>7. Room(l, t) = MaxExposure - Notional(b, OpenAt(b, t)) /\ Notional(b, OpenAt(b, t)) \in Nat
  <2>1. OpenAt(l, t) = OpenAt(b, t) /\ OpenAt(b, t) \in SUBSET D
    BY <1>2 DEF OpenAt
  <2>2. Notional(l, OpenAt(b, t)) = Notional(b, OpenAt(b, t))
    BY <1>2, Zenon DEF Notional
  <2> QED BY <1>2, <2>1, <2>2, NotionalIs DEF Room
<1>8. Realized(b, t) > -Limit
  <2>1. s.trades = b.trades /\ BookOK(s)
    BY <1>2, NotedKeeps DEF NotedIs
  <2>2. Realized(s, t) = Realized(b, t)
    BY <2>1, Zenon DEF Realized
  <2>3. Realized(b, t) \in Int /\ Limit \in Nat
    BY <1>2, RealizedIs, ReplayAssumption
  <2>4. ASSUME Realized(s, t) <= -Limit PROVE FALSE
    <3>1. l = [s EXCEPT !.halted = @ \cup {Day(t)}]
      BY <2>4, Zenon DEF Latched
    <3> HIDE DEF l, s
    <3>2. Day(t) \in l.halted
      BY <2>1, <3>1 DEF BookOK, Fields
    <3> QED BY <1>6, <3>2
  <2> HIDE DEF l, s
  <2> QED BY <2>2, <2>3, <2>4
<1> HIDE DEF l, s
<1>9. \A k \in D : /\ b.trades[k].from < t /\ b.trades[k].from \in Nat
                   /\ b.trades[k].till \in Nat /\ b.trades[k].mkt \in Markets
                   /\ b.trades[k].item < n /\ b.trades[k].item \in Nat
                   /\ b.trades[k].from = Times[b.trades[k].item]
                   /\ b.trades[k].mkt = news[b.trades[k].item].mkt
                   /\ b.trades[k].till <= b.till[b.trades[k].mkt]
                   /\ b.trades[k].from <= b.last[b.trades[k].mkt]
  <2> SUFFICES ASSUME NEW k \in D
               PROVE  /\ b.trades[k].from < t /\ b.trades[k].from \in Nat
                      /\ b.trades[k].till \in Nat /\ b.trades[k].mkt \in Markets
                      /\ b.trades[k].item < n /\ b.trades[k].item \in Nat
                      /\ b.trades[k].from = Times[b.trades[k].item]
                      /\ b.trades[k].mkt = news[b.trades[k].item].mkt
                      /\ b.trades[k].till <= b.till[b.trades[k].mkt]
                      /\ b.trades[k].from <= b.last[b.trades[k].mkt]
    OBVIOUS
  <2>1. b.trades[k].from < t
    BY Before
  <2>2. /\ b.trades[k].from \in Nat /\ b.trades[k].till \in Nat /\ b.trades[k].mkt \in Markets
        /\ b.trades[k].item \in Nat
    BY <1>2, TradeIs, ItemsAre
  <2> QED BY <2>1, <2>2 DEF Limits, Noticed
<1> HIDE DEF t, D, N, h
<1>10. b.till \in [Markets -> Nat] /\ b.last \in [Markets -> Int]
  BY <1>2 DEF BookOK
<1>11. Noticed(c, n + 1)
  <2>1. ASSUME NEW k \in D
        PROVE  /\ b.trades[k].till <= c.till[b.trades[k].mkt]
               /\ b.trades[k].from <= c.last[b.trades[k].mkt]
    <3>1. CASE b.trades[k].mkt = h.mkt
      BY <1>2, <1>3, <1>5, <1>6, <1>9, <1>10, <3>1
    <3>2. CASE b.trades[k].mkt # h.mkt
      BY <1>5, <1>9, <1>10, <3>2
    <3> QED BY <3>1, <3>2
  <2>2. e.item < n + 1 /\ e.from = Times[e.item] /\ e.mkt = news[e.item].mkt
        /\ e.till <= c.till[e.mkt] /\ e.from <= c.last[e.mkt]
    BY <1>1, <1>2, <1>3, <1>5, <1>10 DEF t, h
  <2>3. \A k \in D : b.trades[k].item < n + 1
    BY <1>2, <1>9
  <2> QED BY <1>4, <1>9, <2>1, <2>2, <2>3 DEF Noticed
<1>12. ASSUME NEW k \in D PROVE Within(c, k)
  <2>0. Within(b, k)
    BY DEF Limits, D
  <2>1. AloneOnMarket(c, k)
    <3>1. \A j \in 1 .. k - 1 : j \in D
      BY <1>4
    <3> QED BY <1>4, <2>0, <3>1 DEF Within, AloneOnMarket
  <2>2. Held(c, k) = Held(b, k) /\ Held(b, k) \in SUBSET D
    <3>1. ~(N <= k) /\ c.trades[k] = b.trades[k]
      BY <1>4
    <3> QED BY <1>4, <3>1 DEF Held, D
  <2>3. Notional(c, Held(b, k)) = Notional(b, Held(b, k))
    <3>1. /\ IsFiniteSet(Held(b, k))
          /\ Notional(b, Held(b, k)) =
             Total([j \in DOMAIN b.trades |-> b.trades[j].size], Held(b, k))
      BY <1>2, <2>2, NotionalIs DEF D
    <3>2. Notional(c, Held(b, k)) = Total([j \in DOMAIN c.trades |-> c.trades[j].size], Held(b, k))
      BY <1>2, <1>4, <2>2, NotionalIs
    <3>3. \A j \in Held(b, k) : [i \in DOMAIN b.trades |-> b.trades[i].size][j] =
                                [i \in DOMAIN c.trades |-> c.trades[i].size][j]
      BY <1>4, <2>2 DEF D
    <3> QED BY <3>1, <3>2, <3>3, TotalSame
  <2>4. Realized(c, b.trades[k].from) = Realized(b, b.trades[k].from)
    <3> DEFINE u == b.trades[k].from
    <3>1. u < t /\ u \in Nat
      BY <1>9
    <3>2. ~(e.till <= u)
      BY <1>1, <1>2, <1>3, <3>1 DEF t, h
    <3>3. Ended(b, u) = Ended(c, u) /\ Ended(b, u) \in SUBSET D
      BY <1>4, <3>2 DEF Ended, D
    <3>4. \A j \in Ended(b, u) : Earned(b)[j] = Earned(c)[j]
      BY <1>4, <3>3 DEF Earned, D
    <3> HIDE DEF u
    <3>5. Realized(b, u) = Realized(c, u)
      BY <1>2, <3>3, <3>4, RealizedSame
    <3> QED BY <3>5 DEF u
  <2> QED BY <1>4, <2>0, <2>1, <2>2, <2>3, <2>4 DEF Within, InCount, InBudget, BeforeLoss
<1>13. Within(c, N)
  <2>0. OpenAt(b, t) \in SUBSET D /\ N \notin OpenAt(b, t)
    BY <1>4 DEF OpenAt, D
  <2>1. Held(c, N) = OpenAt(b, t) \cup {N}
    <3>1. e.till > t
      BY <1>1, <1>2, <1>3 DEF t, h
    <3>2. N \in Nat /\ \A k \in D \cup {N} : k <= N
      BY <1>4 DEF N
    <3>3. c.trades[N].from = t
      BY <1>1, <1>4 DEF t
    <3> QED BY <1>4, <3>1, <3>2, <3>3 DEF Held, OpenAt, D
  <2>2. AloneOnMarket(c, N)
    <3> SUFFICES ASSUME NEW j \in D, b.trades[j].mkt = h.mkt
                 PROVE  b.trades[j].till <= t /\ b.trades[j].from + Cooldown <= t
      <4>1. \A j \in 1 .. N - 1 : j \in D
        BY <1>4 DEF N
      <4> QED BY <1>1, <1>4, <4>1 DEF AloneOnMarket, t, h
    <3>1. b.trades[j].till <= t
      BY <1>2, <1>3, <1>6, <1>9, <1>10
    <3>2. b.last[h.mkt] \in Int /\ b.trades[j].from <= b.last[h.mkt] /\ b.trades[j].from \in Nat
      BY <1>3, <1>9, <1>10
    <3>3. t - b.last[h.mkt] >= Cooldown
      <4>1. ~(b.last[h.mkt] >= 0 /\ t - b.last[h.mkt] < Cooldown)
        BY <1>2, <1>6, Zenon DEF Cooling
      <4> QED BY <1>2, <3>2, <4>1, LimitsAre DEF t
    <3> QED BY <1>2, <3>1, <3>2, <3>3, LimitsAre DEF t
  <2>3. InCount(c, N)
    <3>1. /\ IsFiniteSet(OpenAt(b, t)) /\ Cardinality(OpenAt(b, t)) \in Nat
          /\ Cardinality(OpenAt(b, t)) <= Cardinality({m \in Markets : b.till[m] > t})
          /\ Cardinality({m \in Markets : b.till[m] > t}) \in Nat
      BY OpenIsCounted, FS_CardinalityType DEF t
    <3>2. Cardinality(OpenAt(b, t) \cup {N}) = Cardinality(OpenAt(b, t)) + 1
      BY <2>0, <3>1, FS_AddElement
    <3>3. Held(c, N) \cup {N} = OpenAt(b, t) \cup {N}
      BY <2>1
    <3>4. Cardinality(OpenAt(b, t)) + 1 <= MaxOpen
      BY <1>6, <3>1, LimitsAre
    <3> QED BY <3>2, <3>3, <3>4 DEF InCount
  <2>4. InBudget(c, N)
    <3> DEFINE p == [j \in DOMAIN b.trades |-> b.trades[j].size]
               q == [j \in DOMAIN c.trades |-> c.trades[j].size]
               H == OpenAt(b, t) \cup {N}
    <3>1. IsFiniteSet(OpenAt(b, t)) /\ Notional(b, OpenAt(b, t)) = Total(p, OpenAt(b, t))
      BY <1>2, <2>0, NotionalIs DEF D
    <3>2. IsFiniteSet(H) /\ Notional(c, H) = Total(q, H)
      BY <1>2, <1>4, <2>0, NotionalIs
    <3>3. /\ \A j \in H : q[j] \in Int
          /\ q[N] = e.size
          /\ \A j \in OpenAt(b, t) : p[j] = q[j]
      BY <1>2, <1>4, <2>0, TradeIs DEF D
    <3> HIDE DEF p, q
    <3>4. Total(q, H) = q[N] + Total(q, H \ {N})
      BY <3>2, <3>3, TotalTake
    <3>5. H \ {N} = OpenAt(b, t)
      BY <2>0
    <3>6. Total(q, OpenAt(b, t)) = Total(p, OpenAt(b, t))
      BY <3>1, <3>3, TotalSame
    <3>7. Notional(c, H) = e.size + Notional(b, OpenAt(b, t))
      BY <3>1, <3>2, <3>3, <3>4, <3>5, <3>6
    <3> HIDE DEF H
    <3>8. 2 * Notional(c, H) <= 2 * MaxExposure + Lot
      <4>1. 2 * e.size <= 2 * Room(l, t) + Lot
        BY <1>1 DEF t
      <4> QED BY <1>3, <1>7, <3>7, <4>1, LimitsAre
    <3> QED BY <2>1, <3>8 DEF InBudget, H
  <2>5. BeforeLoss(c, N)
    <3>1. ~(e.till <= t)
      BY <1>1, <1>2, <1>3 DEF t, h
    <3>2. Ended(b, t) = Ended(c, t) /\ Ended(b, t) \in SUBSET D
      BY <1>4, <3>1 DEF Ended, D
    <3>3. \A j \in Ended(b, t) : Earned(b)[j] = Earned(c)[j]
      BY <1>4, <3>2 DEF Earned, D
    <3>4. Realized(b, t) = Realized(c, t)
      BY <1>2, <3>2, <3>3, RealizedSame
    <3> QED BY <1>1, <1>4, <1>8, <3>4 DEF BeforeLoss, t
  <2> QED BY <2>2, <2>3, <2>4, <2>5 DEF Within
<1> QED BY <1>2, <1>4, <1>11, <1>12, <1>13 DEF Limits

JudgedWithin == mode = "replay" => Limits(book, at)

LEMMA LimitsInitial == Init => JudgedWithin
<1> SUFFICES ASSUME Init PROVE Limits(book, at)
  BY DEF JudgedWithin
<1>1. book = EmptyBook
  BY DEF Init
<1> QED BY <1>1, EmptyBookOK DEF Limits, Noticed

LEMMA LimitsKeep ==
  ASSUME OneAtATime, ReplayTypes, JudgedWithin, [Next]_vars
  PROVE  JudgedWithin'
<1> SUFFICES ASSUME mode' = "replay" PROVE Limits(book, at)'
  BY DEF JudgedWithin
<1>1. mode = "replay" /\ news' = news /\ Limits(book, at)
  BY DEF Next, BuildRegime, RegimeFails, AnalyzeOk, AnalyzeFails, Judge, Finish, Again, Crash,
         vars, files, JudgedWithin
<1>2. Limits(book', at')
  <2>1. CASE Judge
    <3>1. /\ at \in Items /\ at' = at + 1 /\ NewsOK /\ BookOK(book)
          /\ book' = book \/ \E env : book' = Judged(book, at, env)
      BY <2>1, JudgeIs DEF ReplayTypes
    <3>2. at \in Nat /\ OnlyNotes(book, book)
      BY <3>1, ItemsAre DEF OnlyNotes
    <3>3. CASE book' = book
      BY <1>1, <3>1, <3>2, <3>3, NotesKeepLimits
    <3>4. ASSUME NEW env, book' = Judged(book, at, env) PROVE Limits(book', at')
      <4> DEFINE c == Judged(book, at, env)
      <4>1. OnlyNotes(book, c) \/ Exits(book, c, news[at], Times[at]) \/ Enters(book, c, at)
        BY <3>1, JudgedIs
      <4> HIDE DEF c
      <4>2. Limits(c, at + 1)
        BY <1>1, <3>1, <3>2, <4>1, NotesKeepLimits, ExitsKeepLimits, EntersKeepLimits
      <4> QED BY <3>1, <3>4, <4>2 DEF c
    <3> QED BY <3>1, <3>3, <3>4
  <2>2. CASE Again \/ Crash
    <3>1. book' = EmptyBook
      BY <2>2 DEF Again, Crash, Fresh
    <3> QED BY <3>1, EmptyBookOK DEF Limits, Noticed
  <2>3. CASE ~(Judge \/ Again \/ Crash)
    <3>1. UNCHANGED <<book, at>>
      BY <2>3 DEF Next, BuildRegime, RegimeFails, AnalyzeOk, AnalyzeFails, Finish, vars, files
    <3> QED BY <1>1, <3>1
  <2> QED BY <2>1, <2>2, <2>3
<1> QED BY <1>1, <1>2 DEF Limits, Noticed

(* One position per market, the count, the budget but for one rounding,    *)
(* the cooldown and the daily loss hold at every entry of a replay, for    *)
(* every limit and every sequence of headlines that come one at a time     *)
(* (engine.py, run_live_replay against risk.py).                           *)
THEOREM EntriesAreWithinLimits == OneAtATime => (Spec => []PortfolioSound)
<1> SUFFICES ASSUME OneAtATime PROVE Spec => []PortfolioSound
  OBVIOUS
<1>1. Init => ReplayTypes /\ JudgedWithin
  BY TypesInitial, LimitsInitial
<1>2. ReplayTypes /\ JudgedWithin /\ [Next]_vars => (ReplayTypes /\ JudgedWithin)'
  BY TypesKeep, LimitsKeep
<1>3. JudgedWithin => PortfolioSound
  BY DEF JudgedWithin, Limits, Within, AloneOnMarket, InCount, InBudget, BeforeLoss, Held,
         PortfolioSound
<1> QED BY <1>1, <1>2, <1>3, PTL DEF Spec
=============================================================================
