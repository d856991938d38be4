---------------------------- MODULE EquityProofs ----------------------------
(***************************************************************************)
(* Proofs about three components of equity-engine.                         *)
(*                                                                         *)
(* BarCache, for any readers and limits, any calendar and any number of    *)
(* failures.  BarInv is the inductive invariant:                           *)
(*                                                                         *)
(*   DayTypes   what the clock, the readings and the series are            *)
(*   ReadInv    all that readers hold is of days that have begun, its      *)
(*              recent days complete; what Fyers answered is partial only  *)
(*              today, and reaches up to today if no piece failed          *)
(*   TableInv   the same of the table, whose newest day is the newest ever *)
(*              written; without a gap unless a write left one             *)
(*                                                                         *)
(* PaperDesk, for any orders, stocks and jobs: DeskInv, which counts the   *)
(* shares of the orders that are between two steps.                        *)
(*                                                                         *)
(*   DeskTypes  what the account, the log and each order are               *)
(*   BooksInv   a position is what was logged and what is about to be      *)
(*   ArmedInv   sent and about to be sent is no more than was confirmed    *)
(*                                                                         *)
(* SwingBacktest, for any lookbacks, settings and moves.  The bars only    *)
(* grow and the backtest is always that of the bars (TestInv); SoOk is the *)
(* invariant of the walk over one series, and Agree relates the walks over *)
(* a series and over the same one with a day more.                         *)
(***************************************************************************)
EXTENDS BarCache, PaperDesk, SwingBacktest, FiniteSetTheorems, SequenceTheorems, TLAPS

-----------------------------------------------------------------------------
(* Finite sets of days.                                                    *)

LEMMA LeastNat ==
  ASSUME NEW S \in SUBSET Nat, S # {}
  PROVE  \E n \in S : \A m \in S : n <= m
<1>1. \E n \in S : \A m \in S : <<m, n>> \notin OpToRel(<, Nat)
  BY NatLessThanWellFounded, WFMin, Zenon
<1>2. \E n \in S : \A m \in S : ~(m < n)
  BY <1>1, Zenon DEF OpToRel
<1> QED BY <1>2

(* A set of days up to a bound is finite, and has a last one and a first   *)
(* one.                                                                    *)
LEMMA MaxIs ==
  ASSUME NEW n \in Nat, NEW S, \A d \in S : d \in Nat /\ d <= n, S # {}
  PROVE  Max(S) \in S /\ \A d \in S : d <= Max(S)
<1> DEFINE Above == {k \in Nat : \A d \in S : d <= k}
<1>1. n \in Above
  OBVIOUS
<1>2. PICK k \in Above : \A m \in Above : k <= m
  <2> HIDE DEF Above
  <2>1. Above \in SUBSET Nat /\ Above # {}
    BY <1>1 DEF Above
  <2> QED BY <2>1, LeastNat
<1>3. k \in S
  <2> SUFFICES ASSUME k \notin S PROVE FALSE
    OBVIOUS
  <2>1. \A d \in S : d < k
    BY <1>2
  <2>2. k - 1 \in Nat
    <3>1. PICK d \in S : TRUE
      OBVIOUS
    <3>2. d \in Nat /\ k \in Nat /\ d < k
      BY <2>1
    <3> QED BY <3>2
  <2>3. k - 1 \in Above
    <3>1. \A d \in S : d \in Nat /\ d <= k - 1
      BY <2>1
    <3> QED BY <2>2, <3>1
  <2> QED BY <1>2, <2>3
<1>4. \E x \in S : \A y \in S : x >= y
  BY <1>2, <1>3
<1>5. Max(S) \in S /\ \A y \in S : Max(S) >= y
  BY <1>4 DEF Max
<1> QED BY <1>5

LEMMA MinIs ==
  ASSUME NEW S, \A d \in S : d \in Nat, S # {}
  PROVE  Min(S) \in S /\ \A d \in S : Min(S) <= d
<1>1. \E x \in S : \A y \in S : x <= y
  BY LeastNat
<1> QED BY <1>1 DEF Min

LEMMA DaysFinite ==
  ASSUME NEW n \in Nat, NEW S, \A d \in S : d \in Nat /\ d <= n
  PROVE  IsFiniteSet(S) /\ Cardinality(S) \in Nat
<1>1. S \in SUBSET Nat
  OBVIOUS
<1>2. IsFiniteSet(S)
  BY <1>1, FS_BoundedSetOfNaturals
<1> QED BY <1>2, FS_CardinalityType

(* More dates are not fewer.                                               *)
LEMMA DaysCount ==
  ASSUME NEW n \in Nat, NEW S, \A d \in S : d \in Nat /\ d <= n, NEW T \in SUBSET S
  PROVE  /\ Cardinality(T) \in Nat /\ Cardinality(S) \in Nat
         /\ Cardinality(T) <= Cardinality(S)
<1>1. IsFiniteSet(S)
  BY DaysFinite
<1> QED BY <1>1, FS_Subset, FS_CardinalityType

(* LastDays(n, S) holds what comes after one of its days.                  *)
LEMMA LastDaysIs ==
  ASSUME NEW k \in Nat, NEW S, \A d \in S : d \in Nat /\ d <= k, NEW n \in Int
  PROVE  /\ LastDays(n, S) \subseteq S
         /\ \A d \in LastDays(n, S), e \in S : e >= d => e \in LastDays(n, S)
<1>1. LastDays(n, S) \subseteq S
  BY DEF LastDays
<1>2. ASSUME NEW d \in LastDays(n, S), NEW e \in S, e >= d
      PROVE  e \in LastDays(n, S)
  <2>1. d \in S /\ Cardinality({x \in S : x > d}) < n
    BY DEF LastDays
  <2>2. {x \in S : x > e} \subseteq {x \in S : x > d}
    BY <1>2, <2>1
  <2>3. /\ Cardinality({x \in S : x > e}) \in Nat /\ Cardinality({x \in S : x > d}) \in Nat
        /\ Cardinality({x \in S : x > e}) <= Cardinality({x \in S : x > d})
    BY <2>2, DaysCount
  <2> QED BY <2>1, <2>3 DEF LastDays
<1> QED BY <1>1, <1>2

(* The newest of some days is one of the last n of them.                   *)
LEMMA NewestDay ==
  ASSUME NEW k \in Nat, NEW S, \A d \in S : d \in Nat /\ d <= k, S # {}, NEW n \in Nat \ {0}
  PROVE  /\ Max(S) \in LastDays(n, S) /\ LastDays(n, S) # {}
         /\ Max(LastDays(n, S)) = Max(S)
<1>1. Max(S) \in S /\ \A d \in S : d <= Max(S)
  BY MaxIs
<1>2. {d \in S : d > Max(S)} = {}
  BY <1>1
<1>3. Max(S) \in LastDays(n, S)
  <2>1. Cardinality({d \in S : d > Max(S)}) = 0
    BY <1>2, FS_EmptySet
  <2> QED BY <1>1, <2>1 DEF LastDays
<1>4. LastDays(n, S) \subseteq S /\ \A d \in LastDays(n, S) : d \in Nat /\ d <= k
  BY DEF LastDays
<1>5. Max(LastDays(n, S)) \in LastDays(n, S) /\ \A d \in LastDays(n, S) : d <= Max(LastDays(n, S))
  <2> DEFINE L == LastDays(n, S)
  <2>1. L # {} /\ \A d \in L : d \in Nat /\ d <= k
    BY <1>3, <1>4
  <2> HIDE DEF L
  <2>2. Max(L) \in L /\ \A d \in L : d <= Max(L)
    BY <2>1, MaxIs
  <2> QED BY <2>2 DEF L
<1>6. Max(LastDays(n, S)) <= Max(S) /\ Max(S) <= Max(LastDays(n, S))
  BY <1>1, <1>3, <1>4, <1>5
<1>7. Max(LastDays(n, S)) \in Nat /\ Max(S) \in Nat
  BY <1>1, <1>4, <1>5
<1>8. Max(LastDays(n, S)) = Max(S)
  BY <1>6, <1>7
<1> QED BY <1>3, <1>8

-----------------------------------------------------------------------------
(* Bars up to a day, S the trading days that have begun.                   *)

Held == UNION {[D -> {"partial", "final"}] : D \in SUBSET Nat}

(* The trading days that RecentFinal is about, and RecentFinal itself.     *)
Recent(last) == LastDays(TopUp - 1, {e \in TradingDays : e < last})
AsRecent(S, b) ==
  DOMAIN b # {} /\ Cardinality({e \in S : e > Max(DOMAIN b)}) < Chunk =>
    \A d \in Recent(Max(DOMAIN b)) : d \in DOMAIN b /\ b[d] = "final"

LEMMA RecentIs == \A b : RecentFinal(b) <=> AsRecent(DOMAIN Shown, b)
BY DEF RecentFinal, AsRecent, Recent, Behind

(* S is all the trading days until k.                                      *)
Until(S, k) ==
  /\ \A d \in S : d \in TradingDays /\ d \in Nat /\ d <= k
  /\ \A d \in S, e \in TradingDays : e < d => e \in S

(* A recent day has fewer than TopUp others after it, up to the last one.  *)
LEMMA RecentCount ==
  ASSUME NEW k \in Nat, NEW S, Until(S, k), NEW last \in S, NEW d \in Recent(last)
  PROVE  /\ d \in S /\ d < last
         /\ \A T \in SUBSET S : (\A e \in T : e <= last) => Cardinality({e \in T : e > d}) < TopUp
<1>1. d \in TradingDays /\ d < last /\ d \in Nat /\ last \in Nat
  BY BarCacheAssumption DEF Recent, LastDays, Until
<1>2. d \in S
  BY <1>1 DEF Until
<1>3. ASSUME NEW T \in SUBSET S, \A e \in T : e <= last
      PROVE  Cardinality({e \in T : e > d}) < TopUp
  <2> DEFINE Between == {e \in {f \in TradingDays : f < last} : e > d}
  <2>1. Cardinality(Between) < TopUp - 1
    BY DEF Recent, LastDays
  <2>2. \A e \in Between : e \in Nat /\ e <= last
    BY <1>1, BarCacheAssumption
  <2>3. IsFiniteSet(Between) /\ Cardinality(Between) \in Nat
    BY <1>1, <2>2, DaysFinite
  <2>4. {e \in T : e > d} \subseteq Between \cup {last}
    <3> SUFFICES ASSUME NEW e \in T, e > d, e # last PROVE e \in Between
      OBVIOUS
    <3>1. e \in TradingDays /\ e \in Nat /\ e <= last
      BY <1>3 DEF Until
    <3> QED BY <1>1, <3>1
  <2>5. IsFiniteSet(Between \cup {last}) /\ Cardinality(Between \cup {last}) <= Cardinality(Between) + 1
    BY <2>3, FS_AddElement
  <2>6. Cardinality({e \in T : e > d}) <= Cardinality(Between \cup {last})
    BY <2>4, <2>5, FS_Subset
  <2>7. Cardinality(Between \cup {last}) \in Nat /\ Cardinality({e \in T : e > d}) \in Nat
    BY <2>4, <2>5, FS_Subset, FS_CardinalityType
  <2> HIDE DEF Between
  <2> QED BY <2>1, <2>3, <2>5, <2>6, <2>7, BarCacheAssumption
<1> QED BY <1>1, <1>2, <1>3

LEMMA RecentGrows ==
  ASSUME NEW k \in Nat, NEW T, Until(T, k), NEW S \in SUBSET T,
         NEW b \in Held, DOMAIN b \subseteq S, AsRecent(S, b)
  PROVE  AsRecent(T, b)
<1> DEFINE last == Max(DOMAIN b)
           After(U) == {e \in U : e > last}
<1>1. \A d \in After(T) : d \in Nat /\ d <= k
  BY DEF Until
<1>2. After(S) \in SUBSET After(T)
  OBVIOUS
<1>3. /\ Cardinality(After(S)) \in Nat /\ Cardinality(After(T)) \in Nat
      /\ Cardinality(After(S)) <= Cardinality(After(T))
  <2> HIDE DEF After
  <2> QED BY <1>1, <1>2, DaysCount
<1>4. Cardinality(After(T)) < Chunk => Cardinality(After(S)) < Chunk
  BY <1>3, BarCacheAssumption
<1>5. DOMAIN b # {} /\ Cardinality(After(S)) < Chunk =>
        \A d \in Recent(last) : d \in DOMAIN b /\ b[d] = "final"
  BY DEF AsRecent
<1>6. DOMAIN b # {} /\ Cardinality(After(T)) < Chunk =>
        \A d \in Recent(last) : d \in DOMAIN b /\ b[d] = "final"
  BY <1>4, <1>5
<1> QED BY <1>6 DEF AsRecent

LEMMA NewestHeld ==
  ASSUME NEW b \in Held, NEW n
  PROVE  /\ Newest(n, b) \in Held /\ DOMAIN Newest(n, b) \subseteq DOMAIN b
         /\ DOMAIN Newest(n, b) = LastDays(n, DOMAIN b)
         /\ \A d \in DOMAIN Newest(n, b) : Newest(n, b)[d] = b[d]
<1>1. PICK D \in SUBSET Nat : b \in [D -> {"partial", "final"}]
  BY DEF Held
<1>2. LastDays(n, DOMAIN b) \in SUBSET Nat /\ LastDays(n, DOMAIN b) \subseteq DOMAIN b
  BY <1>1 DEF LastDays
<1>3. Newest(n, b) \in [LastDays(n, DOMAIN b) -> {"partial", "final"}]
  BY <1>1, <1>2 DEF Newest
<1> QED BY <1>2, <1>3 DEF Newest, Held

(* Newest: the last TopUp days of some bars or more keep the recent ones.  *)
LEMMA NewestRecent ==
  ASSUME NEW k \in Nat, NEW S, Until(S, k), NEW b \in Held, DOMAIN b \subseteq S,
         AsRecent(S, b), NEW n \in Nat, n >= TopUp
  PROVE  AsRecent(S, Newest(n, b))
<1> DEFINE D == DOMAIN b  last == Max(D)  c == Newest(n, b)
<1>1. DOMAIN c = LastDays(n, D) /\ \A d \in DOMAIN c : c[d] = b[d]
  BY NewestHeld
<1>2. \A d \in D : d \in Nat /\ d <= k
  BY DEF Until
<1>3. n \in Nat \ {0}
  BY BarCacheAssumption
<1>4. SUFFICES ASSUME D # {}, Cardinality({e \in S : e > last}) < Chunk, Max(DOMAIN c) = last,
                      NEW d \in Recent(last)
               PROVE  d \in DOMAIN c /\ c[d] = "final"
  <2>1. D # {} => Max(LastDays(n, D)) = last
    <3> HIDE DEF D
    <3> QED BY <1>2, <1>3, NewestDay
  <2>2. D = {} => DOMAIN c = {}
    BY <1>1 DEF LastDays
  <2> QED BY <1>1, <2>1, <2>2 DEF AsRecent
<1>5. d \in D /\ b[d] = "final"
  BY <1>4 DEF AsRecent
<1>6. last \in D /\ \A e \in D : e <= last
  <2> HIDE DEF D
  <2> QED BY <1>2, <1>4, MaxIs
<1>7. Cardinality({e \in D : e > d}) < TopUp
  <2>1. D \in SUBSET S /\ last \in S
    BY <1>6
  <2>2. d \in Recent(last) /\ \A e \in D : e <= last
    BY <1>4, <1>6
  <2> HIDE DEF D, last
  <2> QED BY <2>1, <2>2, RecentCount
<1>8. \A e \in {f \in D : f > d} : e \in Nat /\ e <= k
  BY <1>2
<1>9. Cardinality({e \in D : e > d}) \in Nat
  <2> HIDE DEF D
  <2> QED BY <1>8, DaysFinite
<1>10. d \in LastDays(n, D)
  BY <1>5, <1>7, <1>9, BarCacheAssumption DEF LastDays
<1> QED BY <1>1, <1>5, <1>10

LEMMA MergeHeld ==
  ASSUME NEW a \in Held, NEW b \in Held
  PROVE  /\ MergeBars(a, b) \in Held
         /\ DOMAIN MergeBars(a, b) = DOMAIN a \cup DOMAIN b
         /\ \A d \in DOMAIN b : MergeBars(a, b)[d] = b[d]
         /\ \A d \in DOMAIN a \ DOMAIN b : MergeBars(a, b)[d] = a[d]
<1>1. PICK D \in SUBSET Nat : a \in [D -> {"partial", "final"}]
  BY DEF Held
<1>2. PICK E \in SUBSET Nat : b \in [E -> {"partial", "final"}]
  BY DEF Held
<1>3. MergeBars(a, b) \in [D \cup E -> {"partial", "final"}]
  BY <1>1, <1>2 DEF MergeBars
<1> QED BY <1>1, <1>2, <1>3 DEF MergeBars, Held

(* MergeBars: the recent days before the newest bar of the two are those   *)
(* of the bars it comes from; what b puts over a is final but for day k.   *)
LEMMA MergeRecent ==
  ASSUME NEW k \in Nat, NEW S, Until(S, k),
         NEW a \in Held, DOMAIN a \subseteq S, AsRecent(S, a),
         NEW b \in Held, DOMAIN b \subseteq S, AsRecent(S, b),
         \A d \in DOMAIN b : d # k => b[d] = "final"
  PROVE  AsRecent(S, MergeBars(a, b))
<1> DEFINE c == MergeBars(a, b)  A == DOMAIN a  B == DOMAIN b  C == DOMAIN c
           last == Max(C)
<1>1. /\ C = A \cup B
      /\ \A d \in B : c[d] = b[d]
      /\ \A d \in A \ B : c[d] = a[d]
  BY MergeHeld
<1>2. \A d \in C : d \in Nat /\ d <= k
  BY <1>1 DEF Until
<1>3. SUFFICES ASSUME C # {}, Cardinality({e \in S : e > last}) < Chunk, NEW d \in Recent(last)
               PROVE  d \in C /\ c[d] = "final"
  BY DEF AsRecent
<1>4. last \in C /\ \A e \in C : e <= last
  <2> HIDE DEF C
  <2> QED BY <1>2, <1>3, MaxIs
<1>5. last \in S /\ d < last /\ d \in Nat /\ d # k
  <2>1. last \in S
    BY <1>1, <1>4
  <2>2. d \in S /\ d < last
    BY <2>1, RecentCount
  <2> QED BY <2>1, <2>2 DEF Until
<1>6. ASSUME NEW X, X \subseteq C, last \in X
      PROVE  Max(X) = last
  <2>1. \A e \in X : e \in Nat /\ e <= k
    BY <1>2, <1>6
  <2>2. Max(X) \in X /\ \A e \in X : e <= Max(X)
    BY <1>6, <2>1, MaxIs
  <2>3. Max(X) <= last /\ last <= Max(X) /\ Max(X) \in Nat /\ last \in Nat
    BY <1>2, <1>4, <1>6, <2>2
  <2> QED BY <2>3
<1>7. CASE last \in B
  <2>1. Max(B) = last
    <3> HIDE DEF last, B, C
    <3> QED BY <1>1, <1>6, <1>7
  <2>2. d \in B /\ b[d] = "final"
    BY <1>3, <1>7, <2>1 DEF AsRecent
  <2> QED BY <1>1, <2>2
<1>8. CASE last \in A
  <2>1. Max(A) = last
    <3> HIDE DEF last, A, C
    <3> QED BY <1>1, <1>6, <1>8
  <2>2. d \in A /\ a[d] = "final"
    BY <1>3, <1>8, <2>1 DEF AsRecent
  <2> QED BY <1>1, <1>5, <2>2
<1> QED BY <1>1, <1>4, <1>7, <1>8

(* Pieces: an answer holds the newest days, or is a whole Chunk behind.    *)
LEMMA PieceRecent ==
  ASSUME NEW k \in Nat, NEW S, Until(S, k), NEW s, DOMAIN s = S,
         \A d \in S : d # k => s[d] = "final",
         NEW n \in Nat, n >= TopUp, NEW answered,
         NEW b, b = [d \in {e \in LastDays(n, S) : PieceOf(e, LastDays(n, S)) \in answered} |-> s[d]]
  PROVE  AsRecent(S, b)
<1> DEFINE L == LastDays(n, S)  B == DOMAIN b  last == Max(B)
           After(d, T) == {e \in T : e > d}
<1>1. B = {e \in L : PieceOf(e, L) \in answered} /\ \A d \in B : b[d] = s[d]
  OBVIOUS
<1>2. /\ \A d \in S : d \in Nat /\ d <= k
      /\ L \subseteq S /\ B \subseteq L
      /\ \A d \in L, e \in S : e >= d => e \in L
  BY <1>1, LastDaysIs DEF Until
<1>3. SUFFICES ASSUME B # {}, Cardinality(After(last, S)) < Chunk, NEW d \in Recent(last)
               PROVE  d \in B /\ b[d] = "final"
  BY DEF AsRecent
<1>4. last \in B /\ \A e \in B : e <= last
  <2>1. \A e \in B : e \in Nat /\ e <= k
    BY <1>2
  <2> HIDE DEF B
  <2> QED BY <1>3, <2>1, MaxIs
<1> HIDE DEF last, B
<1>5. d \in S /\ d < last /\ d \in Nat /\ d # k /\ last \in S /\ last \in Nat
  <2>1. last \in S /\ last \in Nat /\ last <= k
    BY <1>2, <1>4
  <2>2. d \in S /\ d < last
    BY <1>3, <2>1, RecentCount
  <2> QED BY <1>2, <2>1, <2>2
<1>6. ASSUME NEW e \in L, Cardinality(After(e, L)) < Chunk
      PROVE  PieceOf(e, L) = 0
  <2>1. \A x \in After(e, L) : x \in Nat /\ x <= k
    BY <1>2
  <2>2. Cardinality(After(e, L)) \in Nat
    <3> HIDE DEF After
    <3> QED BY <2>1, DaysFinite
  <2> DEFINE c == Cardinality(After(e, L))
  <2>3. \A x, y \in Nat : x < y => x \div y = 0
    OBVIOUS
  <2>4. c \div Chunk = 0
    <3> HIDE DEF c
    <3> QED BY <1>6, <2>2, <2>3, BarCacheAssumption DEF c
  <2> QED BY <2>4 DEF PieceOf
<1>7. After(last, L) = After(last, S)
  BY <1>2, <1>4
<1>8. 0 \in answered
  <2>1. PieceOf(last, L) = 0
    BY <1>2, <1>3, <1>4, <1>6, <1>7
  <2> QED BY <1>1, <1>4, <2>1
<1>9. \A e \in S : e <= last
  <2> SUFFICES ASSUME NEW e \in S, e > last PROVE FALSE
    BY <1>2, <1>5
  <2>1. e \in L
    BY <1>2, <1>4
  <2>2. After(e, L) \subseteq After(last, L) /\ \A x \in After(last, L) : x \in Nat /\ x <= k
    <3>1. \A x \in L : x \in Nat /\ x <= k
      BY <1>2
    <3>2. e \in Nat /\ e > last
      BY <1>2
    <3>3. \A x \in L : x > e => x > last
      BY <1>5, <3>1, <3>2
    <3> QED BY <3>1, <3>3
  <2>3. Cardinality(After(e, L)) < Chunk
    <3>1. /\ Cardinality(After(e, L)) \in Nat /\ Cardinality(After(last, L)) \in Nat
          /\ Cardinality(After(e, L)) <= Cardinality(After(last, L))
      <4> HIDE DEF After
      <4> QED BY <2>2, DaysCount
    <3> QED BY <1>3, <1>7, <3>1, BarCacheAssumption
  <2>4. e \in B
    BY <1>1, <1>6, <1>8, <2>1, <2>3
  <2> QED BY <1>2, <1>4, <2>4
<1>10. Cardinality(After(d, S)) < TopUp /\ Cardinality(After(d, S)) \in Nat
  <2>1. S \in SUBSET S /\ last \in S /\ d \in Recent(last)
    BY <1>3, <1>5
  <2>2. Cardinality({e \in S : e > d}) < TopUp
    <3>1. \A T \in SUBSET S : (\A e \in T : e <= last) => Cardinality({e \in T : e > d}) < TopUp
      BY <2>1, RecentCount
    <3> QED BY <1>9, <2>1, <3>1
  <2>3. \A e \in After(d, S) : e \in Nat /\ e <= k
    BY <1>2
  <2>4. Cardinality(After(d, S)) \in Nat
    <3> HIDE DEF After
    <3> QED BY <2>3, DaysFinite
  <2> QED BY <2>2, <2>4
<1>11. d \in L
  BY <1>5, <1>10, BarCacheAssumption DEF LastDays
<1>12. After(d, L) = After(d, S)
  BY <1>2, <1>11
<1>13. PieceOf(d, L) = 0
  <2> HIDE DEF After, L
  <2> QED BY <1>6, <1>10, <1>11, <1>12, BarCacheAssumption
<1> QED BY <1>1, <1>5, <1>8, <1>11, <1>13

-----------------------------------------------------------------------------
(* The invariants of BarCache.                                             *)

Reading == [pc : {"away", "fetch", "upsert"}, db : Held, fresh : Held, cut : BOOLEAN]

(* Bars of days that have begun, the recent ones complete.                 *)
BarsOk(S, b) == b \in Held /\ DOMAIN b \subseteq S /\ AsRecent(S, b)

(* What Fyers answered is partial only today, day k; unless a piece is     *)
(* missing, it reaches up to the newest day.                               *)
FreshOk(S, k, x) ==
  x.pc = "upsert" =>
    /\ DOMAIN x.fresh # {}
    /\ \A d \in DOMAIN x.fresh : d # k => x.fresh[d] = "final"
    /\ ~x.cut => \A d \in DOMAIN x.fresh, e \in S : e > d => e \in DOMAIN x.fresh

DayTypes ==
  /\ day \in Nat /\ session \in {"before", "open", "closed"}
  /\ reader \in [Readers -> Reading] /\ series \in [Readers -> Held]

ReadInv ==
  \A r \in Readers : /\ BarsOk(DOMAIN Shown, reader[r].db) /\ BarsOk(DOMAIN Shown, reader[r].fresh)
                     /\ FreshOk(DOMAIN Shown, day, reader[r])
                     /\ BarsOk(DOMAIN Shown, series[r])

(* Without a gap, and complete but for the newest.                         *)
Whole(b) ==
  \A d, e \in DOMAIN b :
    d < e => b[d] = "final" /\ {f \in TradingDays : d < f /\ f < e} \subseteq DOMAIN b

(* The table; without a gap, if no write left one.                         *)
TableInv ==
  /\ BarsOk(DOMAIN Shown, table)
  /\ DOMAIN table = {} => latest = 0
  /\ DOMAIN table # {} => latest = Max(DOMAIN table)
  /\ ~torn => Whole(table)

BarInv == DayTypes /\ ReadInv /\ TableInv

LEMMA NoBarsOk == \A S : NoBars \in Held /\ DOMAIN NoBars = {} /\ BarsOk(S, NoBars)
<1>1. DOMAIN NoBars = {} /\ NoBars \in [{} -> {"partial", "final"}]
  BY DEF NoBars
<1>2. NoBars \in Held
  BY <1>1 DEF Held
<1> QED BY <1>1, <1>2 DEF BarsOk, AsRecent

LEMMA NewestOk ==
  ASSUME NEW k \in Nat, NEW S, Until(S, k), NEW b, BarsOk(S, b), NEW n \in Nat, n >= TopUp
  PROVE  BarsOk(S, Newest(n, b))
BY NewestHeld, NewestRecent DEF BarsOk

LEMMA MergeOk ==
  ASSUME NEW k \in Nat, NEW S, Until(S, k), NEW a, BarsOk(S, a), NEW b, BarsOk(S, b),
         \A d \in DOMAIN b : d # k => b[d] = "final"
  PROVE  BarsOk(S, MergeBars(a, b))
BY MergeHeld, MergeRecent DEF BarsOk

(* Shown is all the trading days until today, final but for today.         *)
LEMMA ShownIs ==
  ASSUME DayTypes
  PROVE  /\ Until(DOMAIN Shown, day) /\ Shown \in Held
         /\ \A d \in DOMAIN Shown : d # day => Shown[d] = "final"
<1>1. DOMAIN Shown = {e \in TradingDays : e < day \/ (e = day /\ session # "before")}
  BY DEF Shown
<1>2. Shown \in [DOMAIN Shown -> {"partial", "final"}] /\ DOMAIN Shown \in SUBSET Nat
  BY BarCacheAssumption DEF Shown
<1>3. Until(DOMAIN Shown, day)
  <2>1. day \in Nat /\ \A d \in TradingDays : d \in Nat
    BY BarCacheAssumption DEF DayTypes
  <2>2. \A d \in DOMAIN Shown : d \in TradingDays /\ d \in Nat /\ d <= day
    BY <1>1, <2>1
  <2>3. ASSUME NEW d \in DOMAIN Shown, NEW e \in TradingDays, e < d
        PROVE  e \in DOMAIN Shown
    BY <1>1, <2>1, <2>2, <2>3
  <2> QED BY <2>2, <2>3 DEF Until
<1>4. \A d \in DOMAIN Shown : d # day => Shown[d] = "final"
  BY DEF Shown
<1> QED BY <1>2, <1>3, <1>4 DEF Held

LEMMA BarInitInv == BarInit => BarInv
<1> SUFFICES ASSUME BarInit PROVE BarInv
  OBVIOUS
<1>1. Away \in Reading /\ Away.db = NoBars /\ Away.fresh = NoBars /\ Away.pc = "away"
  BY NoBarsOk DEF Away, Reading
<1>2. DayTypes
  BY <1>1, NoBarsOk, BarCacheAssumption DEF BarInit, DayTypes
<1>3. ReadInv
  BY <1>1, NoBarsOk DEF BarInit, ReadInv, FreshOk
<1>4. TableInv
  BY NoBarsOk DEF BarInit, TableInv, Whole
<1> QED BY <1>2, <1>3, <1>4 DEF BarInv

(* A reader's step that leaves the table as it is.                         *)
LEMMA ReaderStep ==
  ASSUME BarInv, NEW r \in Readers, UNCHANGED <<day, session, table, latest, torn>>,
         NEW x \in Reading, reader' = [reader EXCEPT ![r] = x],
         BarsOk(DOMAIN Shown, x.db), BarsOk(DOMAIN Shown, x.fresh), FreshOk(DOMAIN Shown, day, x),
         NEW y, series' = [series EXCEPT ![r] = y], BarsOk(DOMAIN Shown, y)
  PROVE  BarInv'
<1>1. (DOMAIN Shown)' = DOMAIN Shown
  BY DEF Shown
<1>2. DayTypes'
  BY DEF BarInv, DayTypes, BarsOk
<1>3. ReadInv'
  BY <1>1 DEF BarInv, DayTypes, ReadInv
<1>4. TableInv'
  BY <1>1 DEF BarInv, TableInv
<1> QED BY <1>2, <1>3, <1>4 DEF BarInv

LEMMA ReadTableInv ==
  ASSUME BarInv, NEW r \in Readers, NEW ok \in BOOLEAN, ReadTable(r, ok)
  PROVE  BarInv'
<1> DEFINE S == DOMAIN Shown
           rows == IF ok THEN Newest(Limit[r] + Slack, table) ELSE NoBars
           hit == Enough(r, rows) /\ UpToDate(rows)
<1>1. Until(S, day) /\ day \in Nat /\ BarsOk(S, table)
  BY ShownIs DEF BarInv, DayTypes, TableInv
<1>2. Limit[r] \in Nat /\ Limit[r] + Slack \in Nat /\ Limit[r] >= TopUp /\ Limit[r] + Slack >= TopUp
  BY BarCacheAssumption
<1>3. BarsOk(S, rows)
  BY <1>1, <1>2, NewestOk, NoBarsOk
<1>4. BarsOk(S, Newest(Limit[r], rows))
  BY <1>1, <1>2, <1>3, NewestOk
<1> DEFINE x == IF hit THEN Away ELSE [Away EXCEPT !.pc = "fetch", !.db = rows]
           y == IF hit THEN Newest(Limit[r], rows) ELSE series[r]
<1>5. reader' = [reader EXCEPT ![r] = x] /\ UNCHANGED <<day, session, table, latest, torn>>
  BY DEF ReadTable
<1>6. series' = [series EXCEPT ![r] = y]
  BY DEF ReadTable, BarInv, DayTypes
<1>7. /\ x \in Reading /\ x.pc \in {"away", "fetch"}
      /\ BarsOk(S, x.db) /\ BarsOk(S, x.fresh)
  BY <1>3, NoBarsOk DEF Away, Reading, BarsOk
<1>8. FreshOk(S, day, x)
  BY <1>7 DEF FreshOk
<1>9. BarsOk(S, y)
  BY <1>4 DEF BarInv, ReadInv
<1> QED
  <2> HIDE DEF x, y
  <2> QED BY <1>5, <1>6, <1>7, <1>8, <1>9, ReaderStep

LEMMA FetchHistoryInv ==
  ASSUME BarInv, NEW r \in Readers, NEW taken, FetchHistory(r, taken)
  PROVE  BarInv'
<1> DEFINE S == DOMAIN Shown
           n == IF Enough(r, reader[r].db) THEN TopUp ELSE Limit[r]
           ok == taken = Newest(n, Shown)
           L == LastDays(n, S)
<1>1. Until(S, day) /\ day \in Nat /\ reader[r] \in Reading
  BY ShownIs DEF BarInv, DayTypes
<1>2. n \in Nat \ {0} /\ n >= TopUp
  BY BarCacheAssumption
<1>3. PICK answered : taken = [d \in {e \in L : PieceOf(e, L) \in answered} |-> Shown[d]]
  <2>1. taken \in Pieces(n)
    BY DEF FetchHistory
  <2> QED BY <2>1 DEF Pieces
<1>4. L \subseteq S
  BY DEF LastDays
<1>5. DOMAIN taken \subseteq S /\ \A d \in DOMAIN taken : taken[d] = Shown[d]
  BY <1>3, <1>4
<1>6. taken \in Held
  <2>1. DOMAIN taken \in SUBSET Nat
    BY <1>1, <1>5 DEF Until
  <2>2. \A d \in DOMAIN taken : taken[d] \in {"partial", "final"}
    BY <1>5 DEF Shown
  <2>3. taken = [d \in DOMAIN taken |-> taken[d]]
    BY <1>3
  <2>4. taken \in [DOMAIN taken -> {"partial", "final"}]
    BY <2>2, <2>3
  <2> QED BY <2>1, <2>4 DEF Held
<1>7. \A d \in S : d # day => Shown[d] = "final"
  BY ShownIs DEF BarInv
<1>8. AsRecent(S, taken)
  <2>1. DOMAIN Shown = S
    OBVIOUS
  <2> HIDE DEF n, S
  <2> QED BY <1>1, <1>2, <1>3, <1>7, <2>1, PieceRecent
<1>9. BarsOk(S, taken)
  BY <1>5, <1>6, <1>8 DEF BarsOk
<1>10. ok => \A d \in DOMAIN taken, e \in S : e > d => e \in DOMAIN taken
  <2> SUFFICES ASSUME ok, NEW d \in DOMAIN taken, NEW e \in S, e > d PROVE e \in DOMAIN taken
    OBVIOUS
  <2>1. DOMAIN taken = L
    BY DEF Newest
  <2>2. /\ \A f \in S : f \in Nat /\ f <= day
        /\ n \in Int
    BY <1>1, <1>2 DEF Until
  <2>3. \A f \in L, g \in S : g >= f => g \in L
    <3> HIDE DEF S, n
    <3> QED BY <1>1, <2>2, LastDaysIs
  <2>4. e >= d
    BY <1>5, <2>2
  <2> QED BY <2>1, <2>3, <2>4
<1>11. CASE DOMAIN taken # {}
  <2> DEFINE x == [reader[r] EXCEPT !.pc = "upsert", !.fresh = taken, !.cut = ~ok]
  <2>1. /\ reader' = [reader EXCEPT ![r].pc = "upsert", ![r].fresh = taken, ![r].cut = ~ok]
        /\ UNCHANGED <<day, session, table, latest, torn, series>>
    BY <1>11 DEF FetchHistory
  <2>2. reader' = [reader EXCEPT ![r] = x]
    BY <2>1, <1>1 DEF BarInv, DayTypes, Reading
  <2>3. /\ x \in Reading /\ x.db = reader[r].db /\ x.fresh = taken /\ x.cut = ~ok
    BY <1>1, <1>6 DEF Reading
  <2>4. FreshOk(S, day, x)
    BY <1>5, <1>7, <1>10, <1>11, <2>3 DEF FreshOk
  <2>5. BarsOk(S, x.db) /\ BarsOk(S, x.fresh)
    BY <1>9, <2>3 DEF BarInv, ReadInv
  <2>6. series' = [series EXCEPT ![r] = series[r]] /\ BarsOk(S, series[r])
    BY <2>1 DEF BarInv, DayTypes, ReadInv
  <2> HIDE DEF x, ok
  <2> QED BY <2>1, <2>2, <2>3, <2>4, <2>5, <2>6, ReaderStep
<1>12. CASE DOMAIN taken = {}
  <2> DEFINE y == Newest(Limit[r], reader[r].db)
  <2>1. /\ reader' = [reader EXCEPT ![r] = Away] /\ series' = [series EXCEPT ![r] = y]
        /\ UNCHANGED <<day, session, table, latest, torn>>
    BY <1>12 DEF FetchHistory
  <2>2. Away \in Reading /\ BarsOk(S, Away.db) /\ BarsOk(S, Away.fresh) /\ FreshOk(S, day, Away)
    BY NoBarsOk DEF Away, Reading, FreshOk
  <2>3. BarsOk(S, y)
    <3>1. BarsOk(S, reader[r].db) /\ Limit[r] \in Nat /\ Limit[r] >= TopUp
      BY BarCacheAssumption DEF BarInv, ReadInv
    <3> QED BY <1>1, <3>1, NewestOk
  <2> HIDE DEF y
  <2> QED BY <2>1, <2>2, <2>3, ReaderStep
<1> QED BY <1>11, <1>12

(* MergeBars: what Fyers answered in full, up to today, leaves no gap above *)
(* a table it reaches down to.                                             *)
LEMMA MergeWhole ==
  ASSUME NEW k \in Nat, NEW S, Until(S, k), NEW a, BarsOk(S, a), Whole(a),
         NEW b, BarsOk(S, b), DOMAIN b # {},
         \A d \in DOMAIN b : d # k => b[d] = "final",
         \A d \in DOMAIN b, e \in S : e > d => e \in DOMAIN b,
         DOMAIN a # {} => Min(DOMAIN b) <= Max(DOMAIN a)
  PROVE  Whole(MergeBars(a, b))
<1> DEFINE c == MergeBars(a, b)  A == DOMAIN a  B == DOMAIN b  C == DOMAIN c
<1>1. /\ C = A \cup B
      /\ \A d \in B : c[d] = b[d]
      /\ \A d \in A \ B : c[d] = a[d]
  BY MergeHeld DEF BarsOk
<1>2. A \subseteq S /\ B \subseteq S /\ \A d \in S : d \in Nat /\ d <= k
  BY DEF BarsOk, Until
<1>3. Min(B) \in B /\ \A d \in B : Min(B) <= d
  <2>1. B # {} /\ \A d \in B : d \in Nat
    BY <1>2
  <2> HIDE DEF B
  <2> QED BY <2>1, MinIs
<1>4. A # {} => Max(A) \in A /\ \A d \in A : d <= Max(A)
  <2>1. \A d \in A : d \in Nat /\ d <= k
    BY <1>2
  <2> HIDE DEF A
  <2> QED BY <2>1, MaxIs
<1>5. \A d \in S : d \in B \/ d < Min(B)
  <2> SUFFICES ASSUME NEW d \in S, d \notin B PROVE d < Min(B)
    OBVIOUS
  <2>1. Min(B) \in Nat /\ d \in Nat /\ d # Min(B) /\ ~(d > Min(B))
    BY <1>2, <1>3
  <2> QED BY <2>1
<1>6. SUFFICES ASSUME NEW d \in C, NEW e \in C, d < e
               PROVE  /\ c[d] = "final"
                      /\ \A f \in TradingDays : d < f /\ f < e => f \in C
  BY DEF Whole
<1>7. d \in Nat /\ e \in Nat /\ e <= k /\ d \in S /\ e \in S
  BY <1>1, <1>2
<1>8. d \notin B => d \in A /\ d < Max(A) /\ Max(A) \in A
  <2> SUFFICES ASSUME d \notin B PROVE d \in A /\ d < Max(A) /\ Max(A) \in A
    OBVIOUS
  <2>1. d \in A /\ A # {} /\ Max(A) \in A
    BY <1>1, <1>4
  <2>2. d < Min(B) /\ Min(B) <= Max(A) /\ Min(B) \in Nat /\ Max(A) \in Nat
    BY <1>2, <1>3, <1>5, <1>7, <2>1
  <2> QED BY <1>7, <2>1, <2>2
<1>9. c[d] = "final"
  <2>1. CASE d \in B
    BY <1>1, <1>6, <1>7, <2>1
  <2>2. CASE d \notin B
    BY <1>1, <1>8, <2>2 DEF Whole
  <2> QED BY <2>1, <2>2
<1>10. ASSUME NEW f \in TradingDays, d < f, f < e
       PROVE  f \in C
  <2>1. f \in S /\ f \in Nat
    BY <1>2, <1>7, <1>10 DEF Until
  <2> SUFFICES ASSUME f \notin B PROVE f \in A
    BY <1>1
  <2>2. f < Min(B) /\ Min(B) \in Nat
    BY <1>2, <1>3, <1>5, <2>1
  <2>3. d \notin B
    BY <1>3, <1>7, <1>10, <2>1, <2>2
  <2>4. d \in A /\ Max(A) \in A /\ A # {}
    BY <1>8, <2>3
  <2>5. f < Max(A)
    <3>1. Min(B) <= Max(A) /\ Max(A) \in Nat
      BY <1>2, <2>4
    <3> QED BY <2>1, <2>2, <3>1
  <2>6. d < Max(A)
    BY <1>8, <2>3
  <2>7. {g \in TradingDays : d < g /\ g < Max(A)} \subseteq A
    BY <2>4, <2>6 DEF Whole
  <2> QED BY <1>10, <2>5, <2>7
<1> QED BY <1>9, <1>10

LEMMA UpsertBarsInv ==
  ASSUME BarInv, NEW r \in Readers, NEW ok \in BOOLEAN, UpsertBars(r, ok)
  PROVE  BarInv'
<1> DEFINE S == DOMAIN Shown  fresh == reader[r].fresh  db == reader[r].db
           y == Newest(Limit[r], MergeBars(db, fresh))
           top == Max(DOMAIN fresh)
<1>1. Until(S, day) /\ day \in Nat /\ reader[r] \in Reading
  BY ShownIs DEF BarInv, DayTypes
<1>2. /\ reader[r].pc = "upsert"
      /\ table' = IF ok THEN MergeBars(table, fresh) ELSE table
      /\ latest' = IF ok /\ top > latest THEN top ELSE latest
      /\ torn' = (torn \/ (ok /\ ((latest # 0 /\ Min(DOMAIN fresh) > latest) \/ reader[r].cut)))
      /\ reader' = [reader EXCEPT ![r] = Away] /\ series' = [series EXCEPT ![r] = y]
      /\ UNCHANGED <<day, session>>
  BY DEF UpsertBars
<1>3. /\ BarsOk(S, fresh) /\ BarsOk(S, db) /\ BarsOk(S, table)
      /\ DOMAIN fresh # {}
      /\ \A d \in DOMAIN fresh : d # day => fresh[d] = "final"
      /\ ~reader[r].cut => \A d \in DOMAIN fresh, e \in S : e > d => e \in DOMAIN fresh
  BY <1>2 DEF BarInv, ReadInv, TableInv, FreshOk
<1>4. (DOMAIN Shown)' = S
  BY <1>2 DEF Shown
<1>5. BarsOk(S, y)
  <2>1. BarsOk(S, MergeBars(db, fresh))
    <3> HIDE DEF S, fresh, db
    <3> QED BY <1>1, <1>3, MergeOk
  <2>2. Limit[r] \in Nat /\ Limit[r] >= TopUp
    BY BarCacheAssumption
  <2> QED BY <1>1, <2>1, <2>2, NewestOk
<1>6. DayTypes'
  <2>1. Away \in Reading /\ y \in Held
    BY <1>5, NoBarsOk DEF Away, Reading, BarsOk
  <2> HIDE DEF y
  <2> QED BY <1>2, <2>1 DEF BarInv, DayTypes
<1>7. ReadInv'
  <2>1. BarsOk(S, Away.db) /\ BarsOk(S, Away.fresh) /\ FreshOk(S, day, Away)
    BY NoBarsOk DEF Away, FreshOk
  <2> HIDE DEF y
  <2> QED BY <1>2, <1>4, <1>5, <2>1 DEF BarInv, DayTypes, ReadInv
<1>8. CASE ~ok
  <2>1. table' = table /\ latest' = latest /\ (torn' <=> torn)
    BY <1>2, <1>8
  <2>2. TableInv
    BY DEF BarInv
  <2>3. (~torn => Whole(table)) => (~torn' => Whole(table'))
    BY <2>1
  <2>4. BarsOk(DOMAIN Shown, table) => BarsOk((DOMAIN Shown)', table')
    BY <1>4, <2>1
  <2> QED BY <1>6, <1>7, <2>1, <2>2, <2>3, <2>4 DEF BarInv, TableInv
<1>9. CASE ok
  <2> DEFINE T == DOMAIN table  F == DOMAIN fresh
  <2>1. table' = MergeBars(table, fresh) /\ DOMAIN table' = T \cup F
    BY <1>2, <1>3, <1>9, MergeHeld DEF BarsOk
  <2>2. BarsOk(S, table')
    <3> HIDE DEF S, fresh
    <3> QED BY <1>1, <1>3, <2>1, MergeOk
  <2>3. \A d \in T \cup F : d \in Nat /\ d <= day
    BY <1>1, <1>3 DEF BarsOk, Until
  <2>4. top \in F /\ \A d \in F : d <= top
    <3>1. F # {} /\ \A d \in F : d \in Nat /\ d <= day
      BY <1>3, <2>3
    <3> HIDE DEF fresh
    <3> QED BY <1>1, <3>1, MaxIs
  <2>5. T # {} => latest \in T /\ \A d \in T : d <= latest
    <3>1. T # {} => latest = Max(T)
      BY DEF BarInv, TableInv
    <3> QED BY <1>1, <2>3, <3>1, MaxIs
  <2>6. T = {} => latest = 0
    BY DEF BarInv, TableInv
  <2>7. latest' \in T \cup F /\ \A d \in T \cup F : d <= latest'
    <3>1. latest \in Nat /\ top \in Nat
      BY <2>3, <2>4, <2>5, <2>6
    <3>2. top > 0
      <4>1. top \in TradingDays
        BY <1>1, <1>3, <2>4 DEF BarsOk, Until
      <4> HIDE DEF top
      <4> QED BY <4>1, BarCacheAssumption
    <3>3. latest' = IF top > latest THEN top ELSE latest
      BY <1>2, <1>9
    <3> HIDE DEF top, F, T
    <3> QED BY <2>3, <2>4, <2>5, <2>6, <3>1, <3>2, <3>3
  <2>8. latest' = Max(T \cup F)
    <3> DEFINE U == T \cup F
    <3>1. U # {} /\ \A d \in U : d \in Nat /\ d <= day
      BY <2>3, <2>7
    <3>2. Max(U) \in U /\ \A d \in U : d <= Max(U)
      <4> HIDE DEF U
      <4> QED BY <1>1, <3>1, MaxIs
    <3>3. Max(U) <= latest' /\ latest' <= Max(U) /\ Max(U) \in Nat /\ latest' \in Nat
      BY <2>7, <3>1, <3>2
    <3> QED BY <3>3
  <2>9. ~torn' => Whole(table')
    <3> SUFFICES ASSUME ~torn' PROVE Whole(table')
      OBVIOUS
    <3>1. ~torn /\ ~reader[r].cut /\ ~(latest # 0 /\ Min(F) > latest)
      BY <1>2, <1>9
    <3>2. Whole(table)
      BY <3>1 DEF BarInv, TableInv
    <3>3. T # {} => Min(F) <= Max(T)
      <4> SUFFICES ASSUME T # {} PROVE Min(F) <= Max(T)
        OBVIOUS
      <4>1. latest = Max(T) /\ latest \in TradingDays /\ latest \in Nat
        BY <1>1, <1>3, <2>3, <2>5 DEF BarInv, TableInv, BarsOk, Until
      <4>2. latest # 0
        BY <4>1, BarCacheAssumption
      <4>3. Min(F) \in F
        <5>1. F # {} /\ \A d \in F : d \in Nat
          BY <1>3, <2>3
        <5> HIDE DEF F
        <5> QED BY <5>1, MinIs
      <4> QED BY <2>3, <3>1, <4>1, <4>2, <4>3
    <3>4. \A d \in F, e \in S : e > d => e \in F
      BY <1>3, <3>1
    <3> HIDE DEF S, fresh
    <3> QED BY <1>1, <1>3, <2>1, <3>2, <3>3, <3>4, MergeWhole
  <2>10. DOMAIN table' # {}
    BY <1>3, <2>1
  <2>11. BarsOk((DOMAIN Shown)', table')
    BY <1>4, <2>2
  <2>12. latest' = Max(DOMAIN table')
    BY <2>1, <2>8
  <2> QED BY <1>6, <1>7, <2>9, <2>10, <2>11, <2>12 DEF BarInv, TableInv
<1> QED BY <1>8, <1>9

LEMMA NextDayInv == BarInv /\ NextDay => BarInv'
<1> SUFFICES ASSUME BarInv, NextDay PROVE BarInv'
  OBVIOUS
<1>1. /\ session = "closed" /\ day' = day + 1 /\ session' = "before"
      /\ UNCHANGED <<table, reader, series, misses, latest, torn>>
      /\ \A r \in Readers : \A d \in DOMAIN reader[r].fresh : reader[r].fresh[d] = "final"
  BY DEF NextDay
<1>2. day \in Nat
  BY DEF BarInv, DayTypes
<1>3. (DOMAIN Shown)' = DOMAIN Shown
  <2>1. \A e \in TradingDays : e \in Nat
    BY BarCacheAssumption
  <2>2. \A e \in TradingDays : (e < day \/ (e = day /\ session # "before"))
                            <=> (e < day' \/ (e = day' /\ session' # "before"))
    BY <1>1, <1>2, <2>1
  <2> QED BY <2>2 DEF Shown
<1>4. DayTypes'
  BY <1>1, <1>2 DEF BarInv, DayTypes
<1>5. ReadInv'
  <2> SUFFICES ASSUME NEW r \in Readers
               PROVE  /\ BarsOk((DOMAIN Shown)', reader[r].db) /\ BarsOk((DOMAIN Shown)', reader[r].fresh)
                      /\ FreshOk((DOMAIN Shown)', day', reader[r])
                      /\ BarsOk((DOMAIN Shown)', series[r])
    BY <1>1 DEF ReadInv
  <2>1. FreshOk(DOMAIN Shown, day', reader[r])
    BY <1>1 DEF BarInv, ReadInv, FreshOk
  <2> QED BY <1>3, <2>1 DEF BarInv, ReadInv
<1>6. TableInv'
  <2>1. UNCHANGED <<table, latest, torn>>
    BY <1>1
  <2> QED BY <1>3, <2>1 DEF BarInv, TableInv
<1> QED BY <1>4, <1>5, <1>6 DEF BarInv

(* The table and what readers hold stay as they are; more days have begun. *)
LEMMA TradeInv == BarInv /\ Trade => BarInv'
<1> SUFFICES ASSUME BarInv, Trade PROVE BarInv'
  OBVIOUS
<1> DEFINE S == DOMAIN Shown
<1>1. /\ session # "closed"
      /\ session = "before" => \A r \in Readers : reader[r] = Away
      /\ session' = IF session = "before" /\ day \in TradingDays THEN "open" ELSE "closed"
      /\ UNCHANGED <<day, table, reader, series, misses, latest, torn>>
  BY DEF Trade
<1>2. DayTypes /\ DayTypes'
  BY <1>1 DEF BarInv, DayTypes
<1>3. Until(S, day) /\ Until((DOMAIN Shown)', day) /\ day \in Nat
  <2>1. Until((DOMAIN Shown)', day')
    BY <1>2, <1>1, BarCacheAssumption DEF Until, Shown, DayTypes
  <2> QED BY <1>1, <1>2, <2>1, ShownIs DEF DayTypes
<1>4. S \subseteq (DOMAIN Shown)' /\ (session # "before" => (DOMAIN Shown)' = S)
  BY <1>1 DEF Shown
<1>5. \A b : BarsOk(S, b) => BarsOk((DOMAIN Shown)', b)
  <2> SUFFICES ASSUME NEW b, BarsOk(S, b) PROVE BarsOk((DOMAIN Shown)', b)
    OBVIOUS
  <2>1. AsRecent((DOMAIN Shown)', b)
    <3> HIDE DEF S
    <3> QED BY <1>3, <1>4, RecentGrows DEF BarsOk
  <2> QED BY <1>4, <2>1 DEF BarsOk
<1>6. ReadInv'
  <2> SUFFICES ASSUME NEW r \in Readers
               PROVE  /\ BarsOk((DOMAIN Shown)', reader[r].db) /\ BarsOk((DOMAIN Shown)', reader[r].fresh)
                      /\ FreshOk((DOMAIN Shown)', day, reader[r])
                      /\ BarsOk((DOMAIN Shown)', series[r])
    BY <1>1 DEF ReadInv
  <2>1. /\ BarsOk(S, reader[r].db) /\ BarsOk(S, reader[r].fresh) /\ BarsOk(S, series[r])
        /\ FreshOk(S, day, reader[r])
    BY DEF BarInv, ReadInv
  <2>2. FreshOk((DOMAIN Shown)', day, reader[r])
    <3>1. CASE session = "before"
      <4>1. reader[r].pc # "upsert"
        BY <1>1, <3>1 DEF Away
      <4> QED BY <4>1 DEF FreshOk
    <3>2. CASE session # "before"
      BY <1>4, <2>1, <3>2
    <3> QED BY <3>1, <3>2
  <2> QED BY <1>5, <2>1, <2>2
<1>7. TableInv'
  <2>1. UNCHANGED <<table, latest, torn>>
    BY <1>1
  <2>2. BarsOk((DOMAIN Shown)', table)
    BY <1>5 DEF BarInv, TableInv
  <2> QED BY <2>1, <2>2 DEF BarInv, TableInv
<1> QED BY <1>2, <1>6, <1>7 DEF BarInv

LEMMA BarStutter == BarInv /\ UNCHANGED barVars => BarInv'
<1> SUFFICES ASSUME BarInv, UNCHANGED barVars PROVE BarInv'
  OBVIOUS
<1>1. UNCHANGED <<day, session, table, reader, series, latest, torn>>
  BY DEF barVars
<1>2. (DOMAIN Shown)' = DOMAIN Shown
  BY <1>1 DEF Shown
<1> QED BY <1>1, <1>2 DEF BarInv, DayTypes, ReadInv, TableInv

LEMMA BarStep == BarInv /\ [BarNext]_barVars => BarInv'
<1> SUFFICES ASSUME BarInv, [BarNext]_barVars PROVE BarInv'
  OBVIOUS
<1>1. ASSUME NEW r \in Readers, NEW ok \in BOOLEAN, ReadTable(r, ok) \/ UpsertBars(r, ok)
      PROVE  BarInv'
  BY <1>1, ReadTableInv, UpsertBarsInv
<1>2. ASSUME NEW r \in Readers, NEW taken, FetchHistory(r, taken)
      PROVE  BarInv'
  BY <1>2, FetchHistoryInv
<1>3. CASE NextDay
  BY <1>3, NextDayInv
<1>4. CASE Trade
  BY <1>4, TradeInv
<1>5. CASE UNCHANGED barVars
  BY <1>5, BarStutter
<1> QED BY <1>1, <1>2, <1>3, <1>4, <1>5 DEF BarNext

(* daily_bars, UpsertBars and get_historical_candles: whichever readers    *)
(* overlap and whichever requests fail, the recent days of the table and   *)
(* of every series returned are complete, and so is the whole table unless *)
(* a write left a gap behind.                                              *)
THEOREM BarsComplete == BarSpec => []BarsSound
<1>1. BarInv => BarsSound
  <2> SUFFICES ASSUME BarInv PROVE BarsSound
    OBVIOUS
  <2>1. AsRecent(DOMAIN Shown, table) /\ \A r \in Readers : AsRecent(DOMAIN Shown, series[r])
    BY DEF BarInv, TableInv, ReadInv, BarsOk
  <2>2. ~torn => Whole(table)
    BY DEF BarInv, TableInv
  <2> QED BY <2>1, <2>2, RecentIs DEF BarsSound, Whole
<1> QED BY <1>1, BarInitInv, BarStep, PTL DEF BarSpec

-----------------------------------------------------------------------------
(* PaperDesk: shares of the orders that are between two steps.             *)

(* The shares f gives to the orders, one by one.                           *)
Units(f, S) == UNION {{o} \X (1..f[o]) : o \in S}
Shares(f)   == Cardinality(Units(f, Orders))

LEMMA UnitsFinite ==
  ASSUME NEW f \in [Orders -> Nat], NEW S \in SUBSET Orders
  PROVE  IsFiniteSet(Units(f, S)) /\ Cardinality(Units(f, S)) \in Nat
<1> DEFINE part(o) == {o} \X (1..f[o])
           F == {part(o) : o \in S}
           g == [o \in S |-> part(o)]
<1>1. IsFiniteSet(S)
  BY DeskAssumption, FS_Subset
<1>2. g \in Surjection(S, F)
  BY DEF Surjection
<1>3. IsFiniteSet(F)
  <2> HIDE DEF g, F
  <2> QED BY <1>1, <1>2, FS_Surjection
<1>4. \A T \in F : IsFiniteSet(T)
  <2> SUFFICES ASSUME NEW o \in S PROVE IsFiniteSet({o} \X (1..f[o]))
    OBVIOUS
  <2> DEFINE n == f[o]
  <2>1. n \in Int /\ 1 \in Int
    OBVIOUS
  <2> HIDE DEF n
  <2>2. IsFiniteSet(1..n)
    BY <2>1, FS_Interval
  <2>3. IsFiniteSet({o})
    BY FS_Singleton
  <2>4. IsFiniteSet({o} \X (1..n))
    BY <2>2, <2>3, FS_Product
  <2> QED BY <2>4 DEF n
<1>5. IsFiniteSet(UNION F)
  <2> HIDE DEF F
  <2> QED BY <1>3, <1>4, FS_UNION
<1>6. IsFiniteSet(Units(f, S))
  BY <1>5 DEF Units
<1> QED BY <1>6, FS_CardinalityType

(* One order's shares and those of the others.                             *)
LEMMA SharesOf ==
  ASSUME NEW f \in [Orders -> Nat], NEW o \in Orders
  PROVE  Shares(f) = Cardinality(Units(f, Orders \ {o})) + f[o]
<1> DEFINE A == Units(f, Orders \ {o})  B == {o} \X (1..f[o])
<1>1. Units(f, Orders) = A \cup B
  BY DEF Units
<1>2. A \cap B = {}
  BY DEF Units
<1>3. IsFiniteSet(A) /\ Cardinality(A) \in Nat
  BY UnitsFinite
<1>4. IsFiniteSet(B) /\ Cardinality(B) = f[o]
  <2>1. IsFiniteSet(1..f[o]) /\ Cardinality(1..f[o]) = f[o] /\ f[o] \in Nat
    BY FS_Interval
  <2>2. IsFiniteSet({o}) /\ Cardinality({o}) = 1
    BY FS_Singleton
  <2>3. IsFiniteSet(B) /\ Cardinality(B) = Cardinality({o}) * Cardinality(1..f[o])
    BY <2>1, <2>2, FS_Product
  <2>4. 1 * f[o] = f[o]
    BY <2>1
  <2> QED BY <2>1, <2>2, <2>3, <2>4
<1> HIDE DEF A, B
<1>5. Cardinality(A \cup B) = Cardinality(A) + f[o]
  <2>1. Cardinality(A \cup B) = Cardinality(A) + Cardinality(B) - Cardinality(A \cap B)
    BY <1>3, <1>4, FS_Union
  <2>2. Cardinality(A \cap B) = 0
    BY <1>2, FS_EmptySet
  <2> QED BY <1>3, <1>4, <2>1, <2>2
<1> QED BY <1>1, <1>5 DEF A, Shares

LEMMA SharesType == ASSUME NEW f \in [Orders -> Nat] PROVE Shares(f) \in Nat
BY UnitsFinite DEF Shares

LEMMA SharesNone ==
  ASSUME NEW f \in [Orders -> Nat], \A o \in Orders : f[o] = 0
  PROVE  Shares(f) = 0
<1>1. Units(f, Orders) = {}
  BY DEF Units
<1> QED BY <1>1, FS_EmptySet DEF Shares

LEMMA SharesChange ==
  ASSUME NEW f \in [Orders -> Nat], NEW g \in [Orders -> Nat], NEW o \in Orders,
         \A p \in Orders \ {o} : g[p] = f[p]
  PROVE  Shares(g) = Shares(f) - f[o] + g[o]
<1>1. Units(g, Orders \ {o}) = Units(f, Orders \ {o})
  BY DEF Units
<1>2. Shares(f) = Cardinality(Units(f, Orders \ {o})) + f[o]
  BY SharesOf
<1>3. Shares(g) = Cardinality(Units(g, Orders \ {o})) + g[o]
  BY SharesOf
<1>4. Cardinality(Units(f, Orders \ {o})) \in Nat
  BY UnitsFinite
<1> QED BY <1>1, <1>2, <1>3, <1>4

(* An order in its place: what it is about to log, and to send.            *)
Request ==
  {NoOrder}
    \cup [pc : {"quote", "load", "place"}, sym : Stocks, side : {"BUY", "SELL"}, qty : 1..MaxQty]
    \cup {x \in [pc : {"save", "log"}, sym : Stocks, held : Nat, fill : Int] : x.held + x.fill >= 0}

Owes(x, s)  == IF x.pc = "log" /\ x.sym = s THEN x.fill ELSE 0
Sends(x, s) == IF x.pc = "place" /\ x.sym = s THEN x.qty ELSE 0
Above(n)    == IF n > 0 THEN n ELSE 0

Gain(ord, s) == [o \in Orders |-> Above(Owes(ord[o], s))]
Loss(ord, s) == [o \in Orders |-> Above(-Owes(ord[o], s))]
Due(ord, s)  == Shares(Gain(ord, s)) - Shares(Loss(ord, s))
Sent(ord, s) == Shares([o \in Orders |-> Sends(ord[o], s)])

LEMMA RequestIs == \A x \in Request, s \in Stocks : Owes(x, s) \in Int /\ Sends(x, s) \in Nat
<1> SUFFICES ASSUME NEW x \in Request, NEW s \in Stocks PROVE Owes(x, s) \in Int /\ Sends(x, s) \in Nat
  OBVIOUS
<1>1. MaxQty \in Nat
  BY DeskAssumption
<1>2. CASE x = NoOrder
  BY <1>2 DEF NoOrder, Owes, Sends
<1>3. CASE x \in [pc : {"quote", "load", "place"}, sym : Stocks, side : {"BUY", "SELL"}, qty : 1..MaxQty]
  BY <1>1, <1>3 DEF Owes, Sends
<1>4. CASE x \in [pc : {"save", "log"}, sym : Stocks, held : Nat, fill : Int]
  BY <1>4 DEF Owes, Sends
<1> QED BY <1>2, <1>3, <1>4 DEF Request

LEMMA DueType ==
  ASSUME NEW ord \in [Orders -> Request], NEW s \in Stocks
  PROVE  /\ Gain(ord, s) \in [Orders -> Nat] /\ Loss(ord, s) \in [Orders -> Nat]
         /\ Due(ord, s) \in Int /\ Sent(ord, s) \in Nat
<1>1. \A o \in Orders : Owes(ord[o], s) \in Int /\ Sends(ord[o], s) \in Nat
  BY RequestIs
<1>2. Gain(ord, s) \in [Orders -> Nat] /\ Loss(ord, s) \in [Orders -> Nat]
  BY <1>1 DEF Gain, Loss, Above
<1>3. Sent(ord, s) \in Nat
  BY <1>1, SharesType DEF Sent
<1>4. Shares(Gain(ord, s)) \in Nat /\ Shares(Loss(ord, s)) \in Nat
  BY <1>2, SharesType
<1> QED BY <1>2, <1>3, <1>4 DEF Due

(* A step of one order changes what it owes and sends, and no other.       *)
LEMMA DueChange ==
  ASSUME NEW ord \in [Orders -> Request], NEW o \in Orders, NEW x \in Request, NEW s \in Stocks
  PROVE  /\ Due([ord EXCEPT ![o] = x], s) = Due(ord, s) - Owes(ord[o], s) + Owes(x, s)
         /\ Sent([ord EXCEPT ![o] = x], s) = Sent(ord, s) - Sends(ord[o], s) + Sends(x, s)
<1> DEFINE new == [ord EXCEPT ![o] = x]
           out == [p \in Orders |-> Sends(ord[p], s)]
           out2 == [p \in Orders |-> Sends(new[p], s)]
<1>1. new \in [Orders -> Request] /\ new[o] = x /\ \A p \in Orders \ {o} : new[p] = ord[p]
  OBVIOUS
<1> HIDE DEF new
<1>2. /\ \A p \in Orders : Sends(ord[p], s) \in Nat /\ Sends(new[p], s) \in Nat
      /\ Owes(ord[o], s) \in Int /\ Owes(x, s) \in Int
  BY <1>1, RequestIs
<1>3. Shares(out2) = Shares(out) - out[o] + out2[o]
  <2>1. out \in [Orders -> Nat] /\ out2 \in [Orders -> Nat]
    BY <1>2
  <2>2. \A p \in Orders \ {o} : out2[p] = out[p]
    BY <1>1
  <2> HIDE DEF out, out2
  <2> QED BY <2>1, <2>2, SharesChange
<1>4. Sent(new, s) = Sent(ord, s) - Sends(ord[o], s) + Sends(x, s)
  BY <1>1, <1>3 DEF Sent
<1>5. /\ Gain(ord, s) \in [Orders -> Nat] /\ Loss(ord, s) \in [Orders -> Nat]
      /\ Gain(new, s) \in [Orders -> Nat] /\ Loss(new, s) \in [Orders -> Nat]
  BY <1>1, DueType
<1>6. \A p \in Orders \ {o} : Gain(new, s)[p] = Gain(ord, s)[p] /\ Loss(new, s)[p] = Loss(ord, s)[p]
  BY <1>1 DEF Gain, Loss
<1>7. /\ Shares(Gain(new, s)) = Shares(Gain(ord, s)) - Gain(ord, s)[o] + Gain(new, s)[o]
      /\ Shares(Loss(new, s)) = Shares(Loss(ord, s)) - Loss(ord, s)[o] + Loss(new, s)[o]
  BY <1>5, <1>6, SharesChange
<1>8. /\ Gain(ord, s)[o] - Loss(ord, s)[o] = Owes(ord[o], s)
      /\ Gain(new, s)[o] - Loss(new, s)[o] = Owes(x, s)
  BY <1>1, <1>2 DEF Gain, Loss, Above
<1>9. /\ Shares(Gain(ord, s)) \in Nat /\ Shares(Loss(ord, s)) \in Nat
      /\ Gain(ord, s)[o] \in Nat /\ Loss(ord, s)[o] \in Nat
      /\ Gain(new, s)[o] \in Nat /\ Loss(new, s)[o] \in Nat
  BY <1>5, SharesType
<1>10. Due(new, s) = Due(ord, s) - Owes(ord[o], s) + Owes(x, s)
  BY <1>2, <1>7, <1>8, <1>9 DEF Due
<1> QED BY <1>4, <1>10 DEF new

(* Nothing is due when no order is about to log.                           *)
LEMMA DueNone ==
  ASSUME NEW ord \in [Orders -> Request], NEW s \in Stocks,
         \A o \in Orders : Owes(ord[o], s) = 0
  PROVE  Due(ord, s) = 0
<1>1. Gain(ord, s) \in [Orders -> Nat] /\ Loss(ord, s) \in [Orders -> Nat]
  BY DueType
<1>2. \A o \in Orders : Gain(ord, s)[o] = 0 /\ Loss(ord, s)[o] = 0
  BY DEF Gain, Loss, Above
<1>3. Shares(Gain(ord, s)) = 0 /\ Shares(Loss(ord, s)) = 0
  BY <1>1, <1>2, SharesNone
<1> QED BY <1>3 DEF Due

(* A single order that is about to log: what it does is due.               *)
LEMMA DueOne ==
  ASSUME NEW ord \in [Orders -> Request], NEW s \in Stocks, NEW o \in Orders,
         \A p \in Orders \ {o} : Owes(ord[p], s) = 0
  PROVE  Due(ord, s) = Owes(ord[o], s)
<1> DEFINE new == [ord EXCEPT ![o] = NoOrder]
<1>1. NoOrder \in Request /\ Owes(NoOrder, s) = 0
  BY DEF Request, NoOrder, Owes
<1>2. new \in [Orders -> Request] /\ \A p \in Orders : Owes(new[p], s) = 0
  BY <1>1
<1>3. Due(new, s) = 0
  BY <1>2, DueNone
<1>4. Due(new, s) = Due(ord, s) - Owes(ord[o], s) + Owes(NoOrder, s)
  BY <1>1, DueChange
<1>5. Due(ord, s) \in Int /\ Owes(ord[o], s) \in Int
  BY DueType, RequestIs
<1>6. 0 = Due(ord, s) - Owes(ord[o], s) + 0
  BY <1>1, <1>3, <1>4
<1>7. \A i, j \in Int : 0 = i - j + 0 => i = j
  OBVIOUS
<1> QED BY <1>5, <1>6, <1>7, Zenon

-----------------------------------------------------------------------------
(* The invariants of PaperDesk.                                            *)

DeskTypes ==
  /\ mode \in {"simulation", "live"}
  /\ position \in [Stocks -> Nat] /\ logged \in [Stocks -> Int]
  /\ real \in [Stocks -> Nat] /\ armed \in [Stocks -> Nat]
  /\ order \in [Orders -> Request]
  /\ refreshing \in BOOLEAN /\ job \in [Refreshes -> {"none", "created", "running"}]

(* A position is what was logged and what is about to be.                  *)
BooksInv == \A s \in Stocks \ raced : position[s] = logged[s] + Due(order, s)

(* What was sent to the exchange and what is about to be was confirmed.    *)
ArmedInv == \A s \in Stocks : real[s] + Sent(order, s) <= armed[s]

DeskInv == DeskTypes /\ BooksInv /\ ArmedInv /\ RefreshOpen

LEMMA NoOrderIs ==
  NoOrder \in Request /\ \A s \in Stocks : Owes(NoOrder, s) = 0 /\ Sends(NoOrder, s) = 0
BY DEF Request, NoOrder, Owes, Sends

(* No order, nothing due, nothing to send.                                 *)
LEMMA NoOrders ==
  ASSUME NEW ord, ord = [o \in Orders |-> NoOrder]
  PROVE  /\ ord \in [Orders -> Request]
         /\ \A s \in Stocks : Due(ord, s) = 0 /\ Sent(ord, s) = 0
<1>1. ord \in [Orders -> Request]
  BY NoOrderIs
<1> SUFFICES ASSUME NEW s \in Stocks PROVE Due(ord, s) = 0 /\ Sent(ord, s) = 0
  BY <1>1
<1>2. \A o \in Orders : Owes(ord[o], s) = 0 /\ Sends(ord[o], s) = 0
  BY NoOrderIs
<1>3. Due(ord, s) = 0
  BY <1>1, <1>2, DueNone
<1>4. Sent(ord, s) = 0
  <2> DEFINE out == [o \in Orders |-> Sends(ord[o], s)]
  <2>1. out \in [Orders -> Nat] /\ \A o \in Orders : out[o] = 0
    BY <1>2
  <2> HIDE DEF out
  <2>2. Shares(out) = 0
    BY <2>1, SharesNone
  <2> QED BY <2>2 DEF Sent, out
<1> QED BY <1>3, <1>4

LEMMA DeskInitInv == DeskInit => DeskInv
<1> SUFFICES ASSUME DeskInit PROVE DeskInv
  OBVIOUS
<1>1. order \in [Orders -> Request] /\ \A s \in Stocks : Due(order, s) = 0 /\ Sent(order, s) = 0
  BY NoOrders DEF DeskInit
<1>2. DeskTypes
  <2>1. 0 \in Nat /\ 0 \in Int
    OBVIOUS
  <2> QED BY <1>1, <2>1 DEF DeskInit, DeskTypes, None
<1>3. BooksInv
  BY <1>1 DEF DeskInit, BooksInv, None
<1>4. ArmedInv
  BY <1>1 DEF DeskInit, ArmedInv, None
<1>5. RefreshOpen
  BY DEF DeskInit, RefreshOpen
<1> QED BY <1>2, <1>3, <1>4, <1>5 DEF DeskInv

(* What a step of one order does to the sums.                              *)
LEMMA OrderStep ==
  ASSUME DeskTypes, NEW o \in Orders, NEW x \in Request, order' = [order EXCEPT ![o] = x]
  PROVE  /\ order[o] \in Request /\ order' \in [Orders -> Request]
         /\ \A s \in Stocks :
              /\ Due(order', s) = Due(order, s) - Owes(order[o], s) + Owes(x, s)
              /\ Sent(order', s) = Sent(order, s) - Sends(order[o], s) + Sends(x, s)
              /\ Due(order, s) \in Int /\ Owes(order[o], s) \in Int /\ Owes(x, s) \in Int
              /\ Sent(order, s) \in Nat /\ Sends(order[o], s) \in Nat /\ Sends(x, s) \in Nat
<1>1. order \in [Orders -> Request] /\ order[o] \in Request
  BY DEF DeskTypes
<1>2. order' \in [Orders -> Request]
  BY <1>1
<1> SUFFICES ASSUME NEW s \in Stocks
             PROVE  /\ Due(order', s) = Due(order, s) - Owes(order[o], s) + Owes(x, s)
                    /\ Sent(order', s) = Sent(order, s) - Sends(order[o], s) + Sends(x, s)
                    /\ Due(order, s) \in Int /\ Owes(order[o], s) \in Int /\ Owes(x, s) \in Int
                    /\ Sent(order, s) \in Nat /\ Sends(order[o], s) \in Nat /\ Sends(x, s) \in Nat
  BY <1>1, <1>2
<1>3. /\ Due([order EXCEPT ![o] = x], s) = Due(order, s) - Owes(order[o], s) + Owes(x, s)
      /\ Sent([order EXCEPT ![o] = x], s) = Sent(order, s) - Sends(order[o], s) + Sends(x, s)
  BY <1>1, DueChange
<1>4. Due(order, s) \in Int /\ Sent(order, s) \in Nat
  BY <1>1, DueType
<1>5. /\ Owes(order[o], s) \in Int /\ Owes(x, s) \in Int
      /\ Sends(order[o], s) \in Nat /\ Sends(x, s) \in Nat
  BY <1>1, RequestIs
<1> QED BY <1>3, <1>4, <1>5

(* An order that goes on, and neither logs nor sends anything.             *)
LEMMA QuietStep ==
  ASSUME DeskInv, NEW o \in Orders, NEW x \in Request, order' = [order EXCEPT ![o] = x],
         \A s \in Stocks : Owes(x, s) = Owes(order[o], s) /\ Sends(x, s) = Sends(order[o], s),
         UNCHANGED <<mode, position, logged, real, refreshing, job, raced, armed>>
  PROVE  DeskInv'
<1>1. DeskTypes
  BY DEF DeskInv
<1>2. order' \in [Orders -> Request]
  BY <1>1, OrderStep
<1>3. \A s \in Stocks : Due(order', s) = Due(order, s) /\ Sent(order', s) = Sent(order, s)
  <2> SUFFICES ASSUME NEW s \in Stocks
               PROVE  Due(order', s) = Due(order, s) /\ Sent(order', s) = Sent(order, s)
    OBVIOUS
  <2>1. /\ Due(order', s) = Due(order, s) - Owes(order[o], s) + Owes(x, s)
        /\ Sent(order', s) = Sent(order, s) - Sends(order[o], s) + Sends(x, s)
        /\ Due(order, s) \in Int /\ Owes(order[o], s) \in Int
        /\ Sent(order, s) \in Nat /\ Sends(order[o], s) \in Nat
    BY <1>1, OrderStep
  <2>2. Owes(x, s) = Owes(order[o], s) /\ Sends(x, s) = Sends(order[o], s)
    OBVIOUS
  <2>3. \A i, j \in Int : i - j + j = i
    OBVIOUS
  <2> QED BY <2>1, <2>2, <2>3
<1>4. DeskTypes'
  BY <1>1, <1>2 DEF DeskTypes
<1>5. BooksInv'
  BY <1>3 DEF DeskInv, BooksInv
<1>6. ArmedInv'
  BY <1>3 DEF DeskInv, ArmedInv
<1>7. RefreshOpen'
  BY DEF DeskInv, RefreshOpen
<1> QED BY <1>4, <1>5, <1>6, <1>7 DEF DeskInv

LEMMA RouteInv ==
  ASSUME DeskInv, NEW o \in Orders, NEW s \in Stocks, NEW side \in {"BUY", "SELL"},
         NEW qty \in 1..MaxQty, NEW confirm \in BOOLEAN, Route(o, s, side, qty, confirm)
  PROVE  DeskInv'
<1> DEFINE x(to) == [pc |-> to, sym |-> s, side |-> side, qty |-> qty]
<1>1. DeskTypes /\ order[o] = NoOrder /\ qty \in Nat
  BY DeskAssumption DEF DeskInv, Route
<1>2. UNCHANGED <<mode, position, logged, real, refreshing, job, raced>>
  BY DEF Route, reports
<1>3. \A to \in {"quote", "place"} : x(to) \in Request
  BY DEF Request
<1>4. CASE mode = "simulation"
  <2>1. order' = [order EXCEPT ![o] = x("quote")] /\ armed' = armed
    BY <1>4 DEF Route
  <2>2. \A p \in Stocks : Owes(x("quote"), p) = 0 /\ Sends(x("quote"), p) = 0
    BY DEF Owes, Sends
  <2>3. \A p \in Stocks : Owes(order[o], p) = 0 /\ Sends(order[o], p) = 0
    BY <1>1, NoOrderIs
  <2> HIDE DEF x
  <2> QED BY <1>2, <1>3, <2>1, <2>2, <2>3, QuietStep
<1>5. CASE mode = "live" /\ ~confirm
  <2>1. UNCHANGED <<order, armed>>
    BY <1>5 DEF Route
  <2> QED BY <1>2, <2>1 DEF DeskInv, DeskTypes, BooksInv, ArmedInv, RefreshOpen
<1>6. CASE mode = "live" /\ confirm
  <2>1. order' = [order EXCEPT ![o] = x("place")] /\ armed' = [armed EXCEPT ![s] = @ + qty]
    BY <1>6 DEF Route
  <2>2. \A p \in Stocks : Owes(x("place"), p) = 0 /\ Sends(x("place"), p) = IF p = s THEN qty ELSE 0
    BY DEF Owes, Sends
  <2>3. \A p \in Stocks : Owes(order[o], p) = 0 /\ Sends(order[o], p) = 0
    BY <1>1, NoOrderIs
  <2>4. /\ order' \in [Orders -> Request]
        /\ \A p \in Stocks :
             /\ Due(order', p) = Due(order, p) - Owes(order[o], p) + Owes(x("place"), p)
             /\ Sent(order', p) = Sent(order, p) - Sends(order[o], p) + Sends(x("place"), p)
             /\ Due(order, p) \in Int /\ Sent(order, p) \in Nat
    <3> HIDE DEF x
    <3> QED BY <1>1, <1>3, <2>1, OrderStep
  <2>5. \A p \in Stocks : /\ Due(order', p) = Due(order, p)
                          /\ Sent(order', p) = Sent(order, p) + IF p = s THEN qty ELSE 0
    <3> HIDE DEF x
    <3> QED BY <1>1, <2>2, <2>3, <2>4
  <2>6. DeskTypes'
    BY <1>1, <1>2, <2>1, <2>4 DEF DeskTypes
  <2>7. BooksInv'
    BY <1>2, <2>5 DEF DeskInv, BooksInv
  <2>8. ArmedInv'
    <3> SUFFICES ASSUME NEW p \in Stocks PROVE real'[p] + Sent(order', p) <= armed'[p]
      BY DEF ArmedInv
    <3>1. real[p] + Sent(order, p) <= armed[p] /\ real[p] \in Nat /\ armed[p] \in Nat
      BY DEF DeskInv, DeskTypes, ArmedInv
    <3>2. armed'[p] = armed[p] + IF p = s THEN qty ELSE 0
      BY <1>1, <2>1, <3>1 DEF DeskTypes
    <3>3. real'[p] = real[p]
      BY <1>2
    <3> QED BY <1>1, <2>4, <2>5, <3>1, <3>2, <3>3
  <2>9. RefreshOpen'
    BY <1>2 DEF DeskInv, RefreshOpen
  <2> QED BY <2>6, <2>7, <2>8, <2>9 DEF DeskInv
<1> QED BY <1>1, <1>4, <1>5, <1>6 DEF DeskTypes

(* Nothing is owed by an order before "log", nothing sent but at "place".  *)
LEMMA Idle ==
  ASSUME NEW x \in Request
  PROVE  /\ x.pc # "log" => \A s \in Stocks : Owes(x, s) = 0
         /\ x.pc # "place" => \A s \in Stocks : Sends(x, s) = 0
         /\ x.pc \in {"quote", "load", "place"} =>
              x \in [pc : {"quote", "load", "place"}, sym : Stocks, side : {"BUY", "SELL"}, qty : 1..MaxQty]
         /\ x.pc \in {"save", "log"} =>
              /\ x \in [pc : {"save", "log"}, sym : Stocks, held : Nat, fill : Int]
              /\ x.held + x.fill >= 0
<1>1. x.pc # "log" => \A s \in Stocks : Owes(x, s) = 0
  BY DEF Owes
<1>2. x.pc # "place" => \A s \in Stocks : Sends(x, s) = 0
  BY DEF Sends
<1>3. x = NoOrder => x.pc = "none"
  BY DEF NoOrder
<1>4. x.pc \in {"quote", "load", "place"} =>
        x \in [pc : {"quote", "load", "place"}, sym : Stocks, side : {"BUY", "SELL"}, qty : 1..MaxQty]
  BY <1>3 DEF Request
<1>5. x.pc \in {"save", "log"} =>
        /\ x \in [pc : {"save", "log"}, sym : Stocks, held : Nat, fill : Int]
        /\ x.held + x.fill >= 0
  BY <1>3 DEF Request
<1> QED BY <1>1, <1>2, <1>4, <1>5

LEMMA QuoteInv ==
  ASSUME DeskInv, NEW o \in Orders, NEW ok \in BOOLEAN, Quote(o, ok)
  PROVE  DeskInv'
<1> DEFINE x == IF ok THEN [order[o] EXCEPT !.pc = "load"] ELSE NoOrder
<1>1. /\ order[o].pc = "quote" /\ order' = [order EXCEPT ![o] = x]
      /\ UNCHANGED <<mode, position, logged, real, refreshing, job, raced, armed>>
  BY DEF Quote, reports
<1>2. /\ order[o] \in Request
      /\ order[o] \in [pc : {"quote", "load", "place"}, sym : Stocks, side : {"BUY", "SELL"}, qty : 1..MaxQty]
  BY <1>1, Idle DEF DeskInv, DeskTypes
<1>3. x \in Request /\ x.pc \in {"load", "none"}
  BY <1>2, NoOrderIs DEF Request, NoOrder
<1>4. \A s \in Stocks : /\ Owes(x, s) = 0 /\ Sends(x, s) = 0
                        /\ Owes(order[o], s) = 0 /\ Sends(order[o], s) = 0
  <2> HIDE DEF x
  <2> QED BY <1>1, <1>2, <1>3, Idle
<1> HIDE DEF x
<1> QED BY <1>1, <1>3, <1>4, QuietStep

LEMMA LoadInv ==
  ASSUME DeskInv, NEW o \in Orders, Load(o)
  PROVE  DeskInv'
<1> DEFINE s == order[o].sym  held == position[s]
           fill == Filled(order[o].side, order[o].qty, held)
           x == IF order[o].side = "SELL" /\ held = 0 THEN NoOrder
                ELSE [pc |-> "save", sym |-> s, held |-> held, fill |-> fill]
<1>1. /\ order[o].pc = "load" /\ order' = [order EXCEPT ![o] = x]
      /\ UNCHANGED <<mode, position, logged, real, refreshing, job, raced, armed>>
  BY DEF Load, reports
<1>2. /\ order[o] \in Request
      /\ order[o] \in [pc : {"quote", "load", "place"}, sym : Stocks, side : {"BUY", "SELL"}, qty : 1..MaxQty]
  BY <1>1, Idle DEF DeskInv, DeskTypes
<1>3. x \in Request /\ x.pc \in {"save", "none"}
  <2>1. s \in Stocks /\ held \in Nat /\ order[o].qty \in Nat
    BY <1>2, DeskAssumption DEF DeskInv, DeskTypes
  <2>2. fill \in Int /\ held + fill >= 0
    BY <2>1 DEF Filled, Lower
  <2> HIDE DEF s, held, fill
  <2> QED BY <2>1, <2>2, NoOrderIs DEF Request, NoOrder
<1>4. \A p \in Stocks : /\ Owes(x, p) = 0 /\ Sends(x, p) = 0
                        /\ Owes(order[o], p) = 0 /\ Sends(order[o], p) = 0
  <2> HIDE DEF x
  <2> QED BY <1>1, <1>2, <1>3, Idle
<1> HIDE DEF x
<1> QED BY <1>1, <1>3, <1>4, QuietStep

(* The position is written: if it was still what the order had read, what  *)
(* the order changed is now due in the log.                                *)
LEMMA SaveInv ==
  ASSUME DeskInv, NEW o \in Orders, Save(o)
  PROVE  DeskInv'
<1> DEFINE s == order[o].sym  x == [order[o] EXCEPT !.pc = "log"]
<1>1. /\ order[o].pc = "save"
      /\ position' = [position EXCEPT ![s] = order[o].held + order[o].fill]
      /\ raced' = IF position[s] # order[o].held THEN raced \cup {s} ELSE raced
      /\ order' = [order EXCEPT ![o].pc = "log"]
      /\ UNCHANGED <<mode, logged, real, refreshing, job, armed>>
  BY DEF Save, reports
<1>2. /\ order[o] \in Request
      /\ order[o] \in [pc : {"save", "log"}, sym : Stocks, held : Nat, fill : Int]
      /\ order[o].held + order[o].fill >= 0
  BY <1>1, Idle DEF DeskInv, DeskTypes
<1>3. order' = [order EXCEPT ![o] = x] /\ DeskTypes
  BY <1>1 DEF DeskInv, DeskTypes
<1>4. /\ x \in Request /\ x.pc = "log" /\ x.sym = s /\ x.fill = order[o].fill
      /\ s \in Stocks /\ x.fill \in Int
  BY <1>2 DEF Request
<1>5. \A p \in Stocks : /\ Owes(order[o], p) = 0 /\ Sends(order[o], p) = 0 /\ Sends(x, p) = 0
                        /\ Owes(x, p) = IF p = s THEN order[o].fill ELSE 0
  <2>1. \A p \in Stocks : Owes(x, p) = IF p = s THEN order[o].fill ELSE 0
    BY <1>4 DEF Owes
  <2>2. \A p \in Stocks : Sends(x, p) = 0
    BY <1>4 DEF Sends
  <2> QED BY <1>1, <1>2, <2>1, <2>2, Idle
<1> HIDE DEF x
<1>6. /\ order' \in [Orders -> Request]
      /\ \A p \in Stocks : /\ Due(order', p) = Due(order, p) + IF p = s THEN order[o].fill ELSE 0
                           /\ Sent(order', p) = Sent(order, p)
                           /\ Due(order, p) \in Int
  <2>1. /\ order' \in [Orders -> Request]
        /\ \A p \in Stocks :
             /\ Due(order', p) = Due(order, p) - Owes(order[o], p) + Owes(x, p)
             /\ Sent(order', p) = Sent(order, p) - Sends(order[o], p) + Sends(x, p)
             /\ Due(order, p) \in Int /\ Sent(order, p) \in Nat
    BY <1>3, <1>4, OrderStep
  <2> QED BY <1>4, <1>5, <2>1
<1>7. DeskTypes'
  <2>1. order[o].held + order[o].fill \in Nat
    BY <1>2
  <2> QED BY <1>1, <1>3, <1>6, <2>1 DEF DeskTypes
<1>8. BooksInv'
  <2> SUFFICES ASSUME NEW p \in Stocks \ raced' PROVE position'[p] = logged'[p] + Due(order', p)
    BY DEF BooksInv
  <2>1. p \notin raced /\ (p = s => position[s] = order[o].held)
    BY <1>1
  <2>2. position[p] = logged[p] + Due(order, p) /\ logged'[p] = logged[p] /\ logged[p] \in Int
    BY <1>1, <2>1 DEF DeskInv, DeskTypes, BooksInv
  <2>3. position'[p] = position[p] + IF p = s THEN order[o].fill ELSE 0
    <3>1. CASE p = s
      BY <1>1, <1>3, <2>1, <3>1 DEF DeskTypes
    <3>2. CASE p # s
      BY <1>1, <1>3, <3>2 DEF DeskTypes
    <3> QED BY <3>1, <3>2
  <2>4. Due(order', p) = Due(order, p) + IF p = s THEN order[o].fill ELSE 0
    BY <1>6
  <2>5. Due(order, p) \in Int /\ order[o].fill \in Int
    BY <1>4, <1>6
  <2> QED BY <2>2, <2>3, <2>4, <2>5
<1>9. ArmedInv'
  BY <1>1, <1>6 DEF DeskInv, ArmedInv
<1>10. RefreshOpen'
  BY <1>1 DEF DeskInv, RefreshOpen
<1> QED BY <1>7, <1>8, <1>9, <1>10 DEF DeskInv

LEMMA LogInv ==
  ASSUME DeskInv, NEW o \in Orders, Log(o)
  PROVE  DeskInv'
<1> DEFINE s == order[o].sym
<1>1. /\ order[o].pc = "log"
      /\ logged' = [logged EXCEPT ![s] = @ + order[o].fill]
      /\ order' = [order EXCEPT ![o] = NoOrder]
      /\ UNCHANGED <<mode, position, real, refreshing, job, raced, armed>>
  BY DEF Log, reports
<1>2. /\ DeskTypes /\ order[o] \in Request
      /\ order[o] \in [pc : {"save", "log"}, sym : Stocks, held : Nat, fill : Int]
  BY <1>1, Idle DEF DeskInv, DeskTypes
<1>3. \A p \in Stocks : /\ Owes(order[o], p) = IF p = s THEN order[o].fill ELSE 0
                        /\ Sends(order[o], p) = 0
  BY <1>1 DEF Owes, Sends
<1>4. /\ order' \in [Orders -> Request]
      /\ \A p \in Stocks : /\ Due(order', p) = Due(order, p) - IF p = s THEN order[o].fill ELSE 0
                           /\ Sent(order', p) = Sent(order, p)
                           /\ Due(order, p) \in Int
  <2>1. /\ order' \in [Orders -> Request]
        /\ \A p \in Stocks :
             /\ Due(order', p) = Due(order, p) - Owes(order[o], p) + Owes(NoOrder, p)
             /\ Sent(order', p) = Sent(order, p) - Sends(order[o], p) + Sends(NoOrder, p)
             /\ Due(order, p) \in Int /\ Sent(order, p) \in Nat
    BY <1>1, <1>2, NoOrderIs, OrderStep
  <2>2. \A p \in Stocks : Owes(NoOrder, p) = 0 /\ Sends(NoOrder, p) = 0
    BY NoOrderIs
  <2> QED BY <1>2, <1>3, <2>1, <2>2
<1>5. DeskTypes'
  BY <1>1, <1>2, <1>4 DEF DeskTypes
<1>6. BooksInv'
  <2> SUFFICES ASSUME NEW p \in Stocks \ raced PROVE position[p] = logged'[p] + Due(order', p)
    BY <1>1 DEF BooksInv
  <2>1. position[p] = logged[p] + Due(order, p) /\ logged[p] \in Int
    BY DEF DeskInv, DeskTypes, BooksInv
  <2>2. logged'[p] = logged[p] + IF p = s THEN order[o].fill ELSE 0
    <3>1. CASE p = s
      BY <1>1, <1>2, <3>1 DEF DeskTypes
    <3>2. CASE p # s
      BY <1>1, <1>2, <2>1, <3>2 DEF DeskTypes
    <3> QED BY <3>1, <3>2
  <2>3. Due(order', p) = Due(order, p) - IF p = s THEN order[o].fill ELSE 0
    BY <1>4
  <2>4. Due(order, p) \in Int /\ order[o].fill \in Int
    BY <1>2, <1>4
  <2> QED BY <2>1, <2>2, <2>3, <2>4
<1>7. ArmedInv'
  BY <1>1, <1>4 DEF DeskInv, ArmedInv
<1>8. RefreshOpen'
  BY <1>1 DEF DeskInv, RefreshOpen
<1> QED BY <1>5, <1>6, <1>7, <1>8 DEF DeskInv

LEMMA PlaceInv ==
  ASSUME DeskInv, NEW o \in Orders, NEW placed \in BOOLEAN, NEW ok \in BOOLEAN, Place(o, placed, ok)
  PROVE  DeskInv'
<1> DEFINE s == order[o].sym
<1>1. /\ order[o].pc = "place"
      /\ real' = IF placed THEN [real EXCEPT ![s] = @ + order[o].qty] ELSE real
      /\ order' = [order EXCEPT ![o] = NoOrder]
      /\ UNCHANGED <<mode, position, logged, refreshing, job, raced, armed>>
  BY DEF Place, reports
<1>2. /\ DeskTypes /\ order[o] \in Request /\ s \in Stocks /\ order[o].qty \in Nat
  BY <1>1, Idle, DeskAssumption DEF DeskInv, DeskTypes
<1>3. \A p \in Stocks : /\ Owes(order[o], p) = 0
                        /\ Sends(order[o], p) = IF p = s THEN order[o].qty ELSE 0
  BY <1>1 DEF Owes, Sends
<1>4. /\ order' \in [Orders -> Request]
      /\ \A p \in Stocks : /\ Due(order', p) = Due(order, p)
                           /\ Sent(order', p) = Sent(order, p) - IF p = s THEN order[o].qty ELSE 0
                           /\ Sent(order, p) \in Nat
  <2>1. /\ order' \in [Orders -> Request]
        /\ \A p \in Stocks :
             /\ Due(order', p) = Due(order, p) - Owes(order[o], p) + Owes(NoOrder, p)
             /\ Sent(order', p) = Sent(order, p) - Sends(order[o], p) + Sends(NoOrder, p)
             /\ Due(order, p) \in Int /\ Sent(order, p) \in Nat
    BY <1>1, <1>2, NoOrderIs, OrderStep
  <2>2. \A p \in Stocks : Owes(NoOrder, p) = 0 /\ Sends(NoOrder, p) = 0
    BY NoOrderIs
  <2> QED BY <1>2, <1>3, <2>1, <2>2
<1>5. DeskTypes'
  BY <1>1, <1>2, <1>4 DEF DeskTypes
<1>6. BooksInv'
  BY <1>1, <1>4 DEF DeskInv, BooksInv
<1>7. ArmedInv'
  <2> SUFFICES ASSUME NEW p \in Stocks PROVE real'[p] + Sent(order', p) <= armed[p]
    BY <1>1 DEF ArmedInv
  <2>1. real[p] + Sent(order, p) <= armed[p] /\ real[p] \in Nat /\ armed[p] \in Nat
    BY DEF DeskInv, DeskTypes, ArmedInv
  <2>2. real'[p] = real[p] + IF placed /\ p = s THEN order[o].qty ELSE 0
    <3>1. CASE placed /\ p = s
      BY <1>1, <1>2, <3>1 DEF DeskTypes
    <3>2. CASE ~(placed /\ p = s)
      BY <1>1, <1>2, <2>1, <3>2 DEF DeskTypes
    <3> QED BY <3>1, <3>2
  <2>3. Sent(order', p) = Sent(order, p) - IF p = s THEN order[o].qty ELSE 0
    BY <1>4
  <2>4. Sent(order, p) \in Nat /\ order[o].qty \in Nat
    BY <1>2, <1>4
  <2> QED BY <2>1, <2>2, <2>3, <2>4
<1>8. RefreshOpen'
  BY <1>1 DEF DeskInv, RefreshOpen
<1> QED BY <1>5, <1>6, <1>7, <1>8 DEF DeskInv

LEMMA DieInv == DeskInv /\ Die => DeskInv'
<1> SUFFICES ASSUME DeskInv, Die PROVE DeskInv'
  OBVIOUS
<1>1. /\ order' = [o \in Orders |-> NoOrder]
      /\ raced' = raced \cup {order[o].sym : o \in {p \in Orders : order[p].pc = "log"}}
      /\ refreshing' = FALSE /\ job' = [j \in Refreshes |-> "none"]
      /\ UNCHANGED <<mode, position, logged, real, armed>>
  BY DEF Die
<1>2. order' \in [Orders -> Request] /\ \A s \in Stocks : Due(order', s) = 0 /\ Sent(order', s) = 0
  BY <1>1, NoOrders
<1>3. DeskTypes /\ DeskTypes'
  BY <1>1, <1>2 DEF DeskInv, DeskTypes
<1>4. BooksInv'
  <2> SUFFICES ASSUME NEW s \in Stocks \ raced' PROVE position[s] = logged[s] + Due(order', s)
    BY <1>1 DEF BooksInv
  <2>1. s \notin raced /\ \A o \in Orders : order[o].pc = "log" => order[o].sym # s
    BY <1>1
  <2>2. \A o \in Orders : Owes(order[o], s) = 0
    BY <2>1 DEF Owes
  <2>3. Due(order, s) = 0
    BY <1>3, <2>2, DueNone DEF DeskTypes
  <2> QED BY <1>2, <2>1, <2>3 DEF DeskInv, BooksInv
<1>5. ArmedInv'
  <2> SUFFICES ASSUME NEW s \in Stocks PROVE real[s] + Sent(order', s) <= armed[s]
    BY <1>1 DEF ArmedInv
  <2>1. real[s] + Sent(order, s) <= armed[s] /\ real[s] \in Nat /\ armed[s] \in Nat
    BY DEF DeskInv, DeskTypes, ArmedInv
  <2>2. Sent(order, s) \in Nat
    BY <1>3, DueType DEF DeskTypes
  <2> QED BY <1>2, <2>1, <2>2
<1>6. RefreshOpen'
  BY <1>1 DEF RefreshOpen
<1> QED BY <1>3, <1>4, <1>5, <1>6 DEF DeskInv

LEMMA JobInv ==
  ASSUME DeskInv, NEW j \in Refreshes, RequestRefresh(j) \/ StartJob(j) \/ EndJob(j)
  PROVE  DeskInv'
<1>1. UNCHANGED <<mode, position, logged, order, real, raced, armed>>
  BY DEF RequestRefresh, StartJob, EndJob
<1>2. DeskTypes'
  BY <1>1 DEF DeskInv, DeskTypes, RequestRefresh, StartJob, EndJob
<1>3. BooksInv' /\ ArmedInv'
  BY <1>1 DEF DeskInv, BooksInv, ArmedInv
<1>4. RefreshOpen'
  BY DEF DeskInv, DeskTypes, RefreshOpen, RequestRefresh, StartJob, EndJob
<1> QED BY <1>2, <1>3, <1>4 DEF DeskInv

LEMMA DeskStep == DeskInv /\ [DeskNext]_deskVars => DeskInv'
<1> SUFFICES ASSUME DeskInv, [DeskNext]_deskVars PROVE DeskInv'
  OBVIOUS
<1>1. ASSUME NEW m \in {"simulation", "live"} \ {mode}, SetMode(m)
      PROVE  DeskInv'
  BY <1>1 DEF SetMode, reports, DeskInv, DeskTypes, BooksInv, ArmedInv, RefreshOpen
<1>2. ASSUME NEW o \in Orders, NEW s \in Stocks, NEW side \in {"BUY", "SELL"},
             NEW qty \in 1..MaxQty, NEW confirm \in BOOLEAN, Route(o, s, side, qty, confirm)
      PROVE  DeskInv'
  BY <1>2, RouteInv
<1>3. ASSUME NEW o \in Orders, NEW ok \in BOOLEAN, Quote(o, ok)
      PROVE  DeskInv'
  BY <1>3, QuoteInv
<1>4. ASSUME NEW o \in Orders, NEW ok \in BOOLEAN, NEW placed \in BOOLEAN, Place(o, placed, ok)
      PROVE  DeskInv'
  BY <1>4, PlaceInv
<1>5. ASSUME NEW o \in Orders, Load(o) \/ Save(o) \/ Log(o)
      PROVE  DeskInv'
  BY <1>5, LoadInv, SaveInv, LogInv
<1>6. ASSUME NEW j \in Refreshes, RequestRefresh(j) \/ StartJob(j) \/ EndJob(j)
      PROVE  DeskInv'
  BY <1>6, JobInv
<1>7. CASE Die
  BY <1>7, DieInv
<1>8. CASE UNCHANGED deskVars
  BY <1>8 DEF deskVars, DeskInv, DeskTypes, BooksInv, ArmedInv, RefreshOpen
<1> QED BY <1>1, <1>2, <1>3, <1>4, <1>5, <1>6, <1>7, <1>8 DEF DeskNext

(* What DeskInv says when no order, or one, is about to log.               *)
LEMMA BooksAre == DeskInv => PaperBooks
<1> SUFFICES ASSUME DeskInv, NEW s \in Stocks
             PROVE  /\ position[s] >= 0
                    /\ s \notin raced /\ Unlogged(s) = {} => position[s] = logged[s]
                    /\ \A o \in Orders : s \notin raced /\ Unlogged(s) = {o} =>
                                           position[s] = logged[s] + order[o].fill
  BY DEF PaperBooks
<1>1. DeskTypes /\ position[s] \in Nat /\ logged[s] \in Int /\ order \in [Orders -> Request]
  BY DEF DeskInv, DeskTypes
<1>2. s \notin raced => position[s] = logged[s] + Due(order, s)
  BY DEF DeskInv, BooksInv
<1>3. \A o \in Orders : o \notin Unlogged(s) => Owes(order[o], s) = 0
  BY DEF Unlogged, Owes
<1>4. ASSUME Unlogged(s) = {}
      PROVE  Due(order, s) = 0
  BY <1>1, <1>3, <1>4, DueNone
<1>5. ASSUME NEW o \in Orders, Unlogged(s) = {o}
      PROVE  Due(order, s) = order[o].fill
  <2>1. Due(order, s) = Owes(order[o], s)
    BY <1>1, <1>3, <1>5, DueOne
  <2>2. order[o].pc = "log" /\ order[o].sym = s
    BY <1>5 DEF Unlogged
  <2> QED BY <2>1, <2>2 DEF Owes
<1> QED BY <1>1, <1>2, <1>4, <1>5

(* broker.py and main.py of equity-engine: the paper account agrees with   *)
(* its log unless two orders raced or the process died between the writes, *)
(* no more reaches the exchange than was confirmed in live mode, and the   *)
(* refresh flag is up only while a job runs.                               *)
THEOREM DeskSafe == DeskSpec => []DeskSound
<1>1. DeskInv => DeskSound
  <2> SUFFICES ASSUME DeskInv PROVE DeskSound
    OBVIOUS
  <2>1. RealConfirmed
    <3> SUFFICES ASSUME NEW s \in Stocks PROVE real[s] <= armed[s]
      BY DEF RealConfirmed
    <3>1. /\ real[s] + Sent(order, s) <= armed[s] /\ real[s] \in Nat /\ armed[s] \in Nat
          /\ order \in [Orders -> Request]
      BY DEF DeskInv, DeskTypes, ArmedInv
    <3>2. Sent(order, s) \in Nat
      BY <3>1, DueType
    <3> QED BY <3>1, <3>2
  <2> QED BY <2>1, BooksAre DEF DeskInv, DeskSound
<1> QED BY <1>1, DeskInitInv, DeskStep, PTL DEF DeskSpec

-----------------------------------------------------------------------------
(* Wilder's averages and the walk over the bars are functions whose value  *)
(* at k is made of the one at k - 1.  Such a function exists because it    *)
(* does up to every k: LeastNat finds no first k where it does not.        *)

(* Wilder's average of whole numbers is one.                               *)
LEMMA WilderType ==
  ASSUME NEW values \in Seq(Int), NEW period \in Nat \ {0}
  PROVE  Wilder(values, period) \in Int
<1> DEFINE n == Len(values)
           At(f, k) ==
             IF k = 0 THEN 0
             ELSE IF k < period THEN f[k - 1] + values[k]
             ELSE (f[k - 1] * (IF k = period THEN 1 ELSE period - 1) + values[k]) \div period
           avg == CHOOSE f : f = [k \in 0..n |-> At(f, k)]
           Upto(m) == \E f \in [0..m -> Int] : \A k \in 0..m : f[k] = At(f, k)
<1>1. n \in Nat /\ \A k \in 1..n : values[k] \in Int
  OBVIOUS
<1>2. ASSUME NEW f, NEW k \in 0..n, k > 0 => f[k - 1] \in Int
      PROVE  At(f, k) \in Int
  <2>1. CASE k = 0
    BY <2>1
  <2>2. CASE k > 0
    <3> DEFINE p == period
               w == IF k = p THEN 1 ELSE p - 1
    <3>1. f[k - 1] \in Int /\ values[k] \in Int /\ w \in Int
      BY <1>1, <1>2, <2>2
    <3>2. f[k - 1] * w \in Int
      BY <3>1
    <3>3. \A x \in Int : x \div p \in Int
      OBVIOUS
    <3>4. f[k - 1] * w + values[k] \in Int /\ f[k - 1] + values[k] \in Int
      BY <3>1, <3>2
    <3>5. (f[k - 1] * w + values[k]) \div p \in Int
      BY <3>3, <3>4
    <3>6. At(f, k) = IF k < p THEN f[k - 1] + values[k] ELSE (f[k - 1] * w + values[k]) \div p
      BY <2>2
    <3> QED BY <3>4, <3>5, <3>6
  <2> QED BY <2>1, <2>2
<1>3. ASSUME NEW f, NEW g, NEW k \in 0..n, k > 0 => f[k - 1] = g[k - 1]
      PROVE  At(f, k) = At(g, k)
  <2>1. CASE k = 0
    BY <2>1
  <2>2. CASE k # 0
    BY <1>3, <2>2
  <2> QED BY <2>1, <2>2
<1> HIDE DEF At
<1>4. Upto(n)
  <2> DEFINE Bad == {m \in 0..n : ~Upto(m)}
  <2> SUFFICES ASSUME Bad # {} PROVE FALSE
    BY <1>1
  <2>1. PICK m \in Bad : \A q \in Bad : m <= q
    <3>1. Bad \in SUBSET Nat
      OBVIOUS
    <3> HIDE DEF Bad
    <3> QED BY <3>1, LeastNat
  <2>2. m \in 0..n /\ ~Upto(m)
    BY <2>1
  <2>3. PICK f : f \in [0..(m - 1) -> Int] /\ \A k \in 0..(m - 1) : f[k] = At(f, k)
    <3>1. CASE m = 0
      <4>1. [k \in 0..(m - 1) |-> 0] \in [0..(m - 1) -> Int] /\ 0..(m - 1) = {}
        BY <3>1
      <4> QED BY <4>1
    <3>2. CASE m > 0
      <4>1. m - 1 \in 0..n /\ ~(m <= m - 1)
        BY <1>1, <2>2, <3>2
      <4>2. Upto(m - 1)
        BY <2>1, <4>1
      <4> QED BY <4>2
    <3> QED BY <2>2, <3>1, <3>2
  <2> DEFINE g == [k \in 0..m |-> IF k < m THEN f[k] ELSE At(f, m)]
  <2>4. \A k \in 0..m : k > 0 => k - 1 \in 0..(m - 1) /\ g[k - 1] = f[k - 1] /\ f[k - 1] \in Int
    BY <2>2, <2>3
  <2>5. At(f, m) \in Int
    <3>1. m \in 0..m
      BY <1>1, <2>2
    <3>2. m > 0 => f[m - 1] \in Int
      BY <2>4, <3>1
    <3> HIDE DEF g
    <3> QED BY <1>2, <2>2, <3>2
  <2>6. g \in [0..m -> Int]
    BY <2>2, <2>3, <2>5
  <2>7. \A k \in 0..m : g[k] = At(g, k)
    <3> SUFFICES ASSUME NEW k \in 0..m PROVE g[k] = At(g, k)
      OBVIOUS
    <3>1. At(g, k) = At(f, k)
      <4>1. k \in 0..n /\ (k > 0 => g[k - 1] = f[k - 1])
        BY <2>2, <2>4
      <4> HIDE DEF g
      <4> QED BY <1>3, <4>1
    <3>2. g[k] = At(f, k)
      BY <2>2, <2>3
    <3> QED BY <3>1, <3>2
  <2>8. Upto(m)
    <3> HIDE DEF g
    <3> QED BY <2>6, <2>7
  <2> QED BY <2>2, <2>8
<1>5. avg = [k \in 0..n |-> At(avg, k)]
  <2>1. PICK f \in [0..n -> Int] : \A k \in 0..n : f[k] = At(f, k)
    BY <1>4
  <2>2. f = [k \in 0..n |-> At(f, k)]
    BY <2>1
  <2> QED BY <2>2
<1> HIDE DEF avg
<1>6. \A k \in 0..n : avg[k] \in Int
  <2> DEFINE Bad == {k \in 0..n : avg[k] \notin Int}
  <2> SUFFICES ASSUME Bad # {} PROVE FALSE
    OBVIOUS
  <2>1. PICK k \in Bad : \A q \in Bad : k <= q
    <3>1. Bad \in SUBSET Nat
      OBVIOUS
    <3> HIDE DEF Bad
    <3> QED BY <3>1, LeastNat
  <2>2. k \in 0..n /\ avg[k] \notin Int
    BY <2>1
  <2>3. k > 0 => avg[k - 1] \in Int
    BY <1>1, <2>1, <2>2
  <2>4. avg[k] = At(avg, k)
    BY <1>5, <2>2
  <2> QED BY <1>2, <2>2, <2>3, <2>4
<1>7. avg[n] \in Int
  BY <1>1, <1>6
<1>8. Wilder(values, period) = avg[n]
  BY DEF Wilder, avg, At
<1> QED BY <1>7, <1>8

-----------------------------------------------------------------------------
(* Plans.                                                                  *)

LEMMA AtrType == ASSUME NEW bs \in Seq(Bars), bs # <<>> PROVE Atr(bs) \in Int
<1> DEFINE ranges == [i \in 1..(Len(bs) - 1) |-> TrueRange(bs[i + 1], bs[i].close)]
<1>1. \A b \in Bars, c \in Int : TrueRange(b, c) \in Int
  <2> SUFFICES ASSUME NEW b \in Bars, NEW c \in Int PROVE TrueRange(b, c) \in Int
    OBVIOUS
  <2>1. b.high \in Int /\ b.low \in Int
    BY DEF Bars, Prices
  <2> QED BY <2>1 DEF TrueRange, Most, Mag
<1>2. Len(bs) - 1 \in Nat
  BY EmptySeq
<1>3. \A i \in 1..(Len(bs) - 1) : ranges[i] \in Int
  <2> SUFFICES ASSUME NEW i \in 1..(Len(bs) - 1) PROVE ranges[i] \in Int
    OBVIOUS
  <2>1. i \in 1..Len(bs) /\ i + 1 \in 1..Len(bs)
    BY <1>2
  <2>2. bs[i] \in Bars /\ bs[i + 1] \in Bars
    BY <2>1
  <2>3. bs[i].close \in Int
    BY <2>2 DEF Bars, Prices
  <2> QED BY <1>1, <2>2, <2>3
<1>4. ranges \in Seq(Int)
  BY <1>2, <1>3
<1>5. Atr14 \in Nat \ {0}
  BY BacktestAssumption
<1> HIDE DEF ranges
<1>6. Wilder(ranges, Atr14) \in Int
  BY <1>4, <1>5, WilderType
<1> QED BY <1>6 DEF Atr, ranges

(* build_features: a price above zero, and an average range.               *)
LEMMA FeaturesAre ==
  ASSUME NEW bs \in Seq(Bars), bs # <<>>, Features(bs) # Nothing
  PROVE  /\ Features(bs).ltp = Last(bs).close /\ Features(bs).ltp \in Nat \ {0}
         /\ Features(bs).atr \in Int
<1>1. Atr(bs) \in Int
  BY AtrType
<1>2. Last(bs) \in Bars
  <2>1. Len(bs) \in 1..Len(bs)
    BY EmptySeq
  <2> QED BY <2>1 DEF Last
<1>3. Last(bs).close \in Int
  BY <1>2 DEF Bars, Prices
<1>4. /\ Features(bs).ltp = Last(bs).close /\ ~(Last(bs).close <= 0)
      /\ Features(bs).atr = Atr(bs)
  BY DEF Features
<1> QED BY <1>1, <1>3, <1>4

LEMMA BestSetup == \A f : Best(f).setup \in Setups
<1> TAKE f
<1>1. Classify(f) \in Setups
  BY DEF Classify, Setups
<1>2. TrendPullback(f).setup \in Setups
  BY <1>1 DEF TrendPullback, NoSignal, Setups
<1>3. MonthlyCprReclaim(f).setup \in Setups
  BY <1>1 DEF MonthlyCprReclaim, NoSignal, Setups
<1>4. Breakout52w(f).setup \in Setups
  BY DEF Breakout52w, NoSignal, Setups
<1>5. \A a, b : a.setup \in Setups /\ b.setup \in Setups => Better(a, b).setup \in Setups
  BY DEF Better
<1> QED BY <1>2, <1>3, <1>4, <1>5 DEF Best

(* A division rounds down.                                                 *)
LEMMA DivIs ==
  ASSUME NEW a \in Nat, NEW b \in Nat \ {0}
  PROVE  a \div b \in Nat /\ b * (a \div b) <= a
OBVIOUS

(* build_plan: a stop below the close by the risk of a share, a target     *)
(* above it, and a size whose risk is within the budget.                   *)
PlanOk(plan, close) ==
  /\ plan.setup \in Setups /\ plan.stop \in Int /\ plan.target \in Int /\ plan.qty \in Nat
  /\ plan.stop <= plan.target
  /\ plan.qty * (close - plan.stop) * 100 <= Settings.capital * Settings.riskPct

LEMMA BuildPlanOk ==
  ASSUME NEW f, f.ltp \in Nat \ {0}, f.atr \in Int, NEW signal, signal.setup \in Setups,
         BuildPlan(f, signal) # Nothing
  PROVE  PlanOk(BuildPlan(f, signal), f.ltp)
<1> DEFINE plan == BuildPlan(f, signal)
           mult == Settings.stopMult[signal.setup]
           risk == mult * f.atr
           worth == Settings.capital * Settings.riskPct
           allowed == Settings.capital * Settings.positionPct
           budget == worth \div 100
           cap == allowed \div 100
           qty == IF risk > 0 THEN Least(budget \div risk, cap \div f.ltp) ELSE 0
<1>1. mult \in Nat /\ {Settings.capital, Settings.riskPct, Settings.positionPct} \subseteq Nat
  BY BacktestAssumption
<1>2. /\ ~(f.atr <= 0) /\ ~(qty <= 0)
      /\ plan = [setup |-> signal.setup, entry |-> f.ltp, stop |-> f.ltp - risk,
                 target |-> f.ltp + 2 * risk, qty |-> qty]
  BY DEF BuildPlan
<1> HIDE DEF plan
<1>3. worth \in Nat /\ allowed \in Nat /\ risk \in Int
  BY <1>1
<1> HIDE DEF mult, worth, allowed
<1>4. budget \in Nat /\ 100 * budget <= worth /\ cap \in Nat
  BY <1>3, DivIs
<1> HIDE DEF budget, cap, risk
<1>5. risk > 0
  BY <1>2
<1>6. /\ budget \div risk \in Nat /\ risk * (budget \div risk) <= budget
      /\ cap \div f.ltp \in Nat
  BY <1>3, <1>4, <1>5, DivIs
<1>7. qty \in Nat /\ qty <= budget \div risk
  BY <1>5, <1>6 DEF Least
<1> HIDE DEF qty
<1>8. qty * risk <= risk * (budget \div risk)
  <2>1. \A x, y, r \in Nat : x <= y => x * r <= r * y
    OBVIOUS
  <2> QED BY <1>3, <1>5, <1>6, <1>7, <2>1
<1>9. qty * risk \in Int /\ qty * risk * 100 <= worth
  <2>1. qty * risk \in Int
    BY <1>3, <1>7
  <2> DEFINE loss == qty * risk
             most == risk * (budget \div risk)
  <2>2. most \in Int
    BY <1>3, <1>6
  <2> HIDE DEF loss, most
  <2>3. loss \in Int /\ loss <= most /\ most <= budget
    BY <1>6, <1>8, <2>1 DEF loss, most
  <2>4. loss * 100 <= worth
    BY <1>3, <1>4, <2>2, <2>3
  <2> QED BY <2>1, <2>4 DEF loss
<1>10. f.ltp - plan.stop = risk /\ plan.stop \in Int /\ plan.target \in Int /\ plan.stop <= plan.target
  BY <1>2, <1>3, <1>5
<1>11. plan.qty = qty /\ plan.setup = signal.setup
  BY <1>2
<1>12. PlanOk(plan, f.ltp)
  BY <1>7, <1>9, <1>10, <1>11 DEF PlanOk, worth
<1> QED BY <1>12 DEF plan

LEMMA PlanAtOk ==
  ASSUME NEW bs \in Seq(Bars), bs # <<>>, PlanAt(bs) # Nothing
  PROVE  PlanOk(PlanAt(bs), Last(bs).close)
<1> DEFINE f == Features(bs)
<1>1. f # Nothing /\ PlanAt(bs) = BuildPlan(f, Best(f))
  BY DEF PlanAt, PlanOf
<1>2. f.ltp = Last(bs).close /\ f.ltp \in Nat \ {0} /\ f.atr \in Int
  BY <1>1, FeaturesAre
<1> HIDE DEF f
<1>3. PlanOk(BuildPlan(f, Best(f)), f.ltp)
  BY <1>1, <1>2, BestSetup, BuildPlanOk
<1> QED BY <1>1, <1>2, <1>3

-----------------------------------------------------------------------------
(* Trades.                                                                 *)

LEMMA BarIs ==
  ASSUME NEW bs \in Seq(Bars), NEW j \in 1..Len(bs)
  PROVE  /\ bs[j].low \in Int /\ bs[j].high \in Int /\ bs[j].close \in Int /\ bs[j].open \in Int
         /\ bs[j].low <= bs[j].close
<1>1. bs[j] \in Bars
  OBVIOUS
<1> QED BY <1>1 DEF Bars, Prices

(* The bars at which a position ends, unless the bars do first.            *)
Ends(bs, entry, plan) ==
  {j \in entry..Len(bs) : \/ bs[j].low <= plan.stop \/ bs[j].high >= plan.target
                          \/ j - entry >= MaxHold[plan.setup]}

LEMMA EndIs ==
  ASSUME NEW bs \in Seq(Bars), NEW entry \in 1..Len(bs), NEW plan, plan.setup \in Setups,
         NEW end, end = EndAt(bs, entry, plan)
  PROVE  /\ end.at = (IF Ends(bs, entry, plan) = {} THEN Len(bs) ELSE Min(Ends(bs, entry, plan)))
         /\ end.at \in entry..Len(bs) /\ end.at - entry <= MaxHold[plan.setup]
         /\ \A j \in entry..(end.at - 1) : ~(bs[j].low <= plan.stop) /\ ~(bs[j].high >= plan.target)
         /\ \/ end.reason = "STOP" /\ bs[end.at].low <= plan.stop /\ end.price = plan.stop
            \/ end.reason = "TARGET" /\ ~(bs[end.at].low <= plan.stop) /\ end.price = plan.target
            \/ /\ end.reason \in {"EOD", "TIME"} /\ ~(bs[end.at].low <= plan.stop)
               /\ end.price = bs[end.at].close
<1> DEFINE E == Ends(bs, entry, plan)
           hold == MaxHold[plan.setup]
           at == IF E = {} THEN Len(bs) ELSE Min(E)
<1>1. hold \in Nat
  BY BacktestAssumption
<1>2. end = IF bs[at].low <= plan.stop /\ (TRUE \/ ~(bs[at].high >= plan.target))
            THEN [at |-> at, price |-> plan.stop, reason |-> "STOP"]
            ELSE IF bs[at].high >= plan.target
            THEN [at |-> at, price |-> plan.target, reason |-> "TARGET"]
            ELSE [at |-> at, price |-> bs[at].close, reason |-> IF E = {} THEN "EOD" ELSE "TIME"]
  BY DEF EndAt, Ending, Ends
<1>3. end.at = at
  BY <1>2
<1>4. at \in entry..Len(bs) /\ at - entry <= hold /\ \A j \in entry..(at - 1) : j \notin E
  <2>1. CASE E = {}
    <3>1. at = Len(bs) /\ at \notin E
      BY <2>1
    <3> HIDE DEF at
    <3>2. at \in entry..Len(bs)
      BY <3>1
    <3>3. ~(at - entry >= hold)
      BY <3>1, <3>2 DEF Ends
    <3> QED BY <1>1, <2>1, <3>2, <3>3
  <2>2. CASE E # {}
    <3>1. \A j \in E : j \in Nat
      BY DEF Ends
    <3> HIDE DEF E
    <3>2. Min(E) \in E /\ \A j \in E : Min(E) <= j
      BY <2>2, <3>1, MinIs
    <3>3. at \in E /\ \A j \in E : at <= j
      BY <2>2, <3>2
    <3> HIDE DEF at
    <3>4. at \in entry..Len(bs)
      BY <3>3 DEF E, Ends
    <3>5. \A j \in entry..(at - 1) : j \notin E
      BY <3>3, <3>4
    <3>6. at - entry <= hold
      <4> SUFFICES ASSUME at - entry > hold PROVE FALSE
        BY <1>1, <3>4
      <4> DEFINE j == entry + hold
      <4>1. j \in entry..Len(bs) /\ j - entry >= hold /\ ~(at <= j)
        BY <1>1, <3>4
      <4>2. j \in E
        BY <4>1 DEF E, Ends
      <4> QED BY <3>3, <4>1, <4>2
    <3> QED BY <3>4, <3>5, <3>6
  <2> QED BY <2>1, <2>2
<1> HIDE DEF at
<1>5. \A j \in entry..(at - 1) : ~(bs[j].low <= plan.stop) /\ ~(bs[j].high >= plan.target)
  <2> SUFFICES ASSUME NEW j \in entry..(at - 1)
               PROVE  ~(bs[j].low <= plan.stop) /\ ~(bs[j].high >= plan.target)
    OBVIOUS
  <2>1. j \in entry..Len(bs) /\ j \notin E
    BY <1>4
  <2> QED BY <2>1 DEF Ends
<1>6. at = IF E = {} THEN Len(bs) ELSE Min(E)
  BY DEF at
<1> HIDE DEF E
<1>7. \/ end.reason = "STOP" /\ bs[at].low <= plan.stop /\ end.price = plan.stop
      \/ end.reason = "TARGET" /\ ~(bs[at].low <= plan.stop) /\ end.price = plan.target
      \/ /\ end.reason \in {"EOD", "TIME"} /\ ~(bs[at].low <= plan.stop)
         /\ end.price = bs[at].close
  BY <1>2
<1> QED BY <1>3, <1>4, <1>5, <1>6, <1>7 DEF E

(* What BacktestSound says of one trade.                                   *)
Trips == [signal : Nat, entryAt : Nat, entry : Int, stop : Int, target : Int, setup : Setups,
          qty : Nat, exitAt : Nat, exit : Int, reason : {"STOP", "TARGET", "TIME", "EOD"}]

TripOk(bs, t) ==
  /\ t \in Trips /\ t.signal < t.exitAt /\ t.exitAt <= Len(bs)
  /\ t.entryAt = t.signal + 1 /\ t.exitAt - t.entryAt <= MaxHold[t.setup]
  /\ \A j \in t.entryAt..(t.exitAt - 1) : ~Touched(bs[j], t)
  /\ bs[t.exitAt].low <= t.stop <=> t.reason = "STOP"
  /\ t.stop < t.entry /\ t.exit >= t.stop
  /\ t.qty * (bs[t.signal].close - t.stop) * 100 <= Settings.capital * Settings.riskPct

LEMMA RoundTripOk ==
  ASSUME NEW bs \in Seq(Bars), NEW i \in 1..(Len(bs) - 1), NEW plan, PlanOk(plan, bs[i].close),
         bs[i + 1].open > plan.stop
  PROVE  TripOk(bs, RoundTrip(bs, i, plan, EndAt(bs, i + 1, plan)))
<1> DEFINE end == EndAt(bs, i + 1, plan)
           t == RoundTrip(bs, i, plan, end)
<1>1. i \in Nat /\ i + 1 \in 1..Len(bs) /\ Len(bs) \in Nat
  OBVIOUS
<1>2. /\ plan.setup \in Setups /\ plan.stop \in Int /\ plan.target \in Int /\ plan.qty \in Nat
      /\ plan.stop <= plan.target
      /\ plan.qty * (bs[i].close - plan.stop) * 100 <= Settings.capital * Settings.riskPct
  BY DEF PlanOk
<1> HIDE DEF end
<1>3. /\ end.at \in (i + 1)..Len(bs) /\ end.at - (i + 1) <= MaxHold[plan.setup]
      /\ \A j \in (i + 1)..(end.at - 1) : ~(bs[j].low <= plan.stop) /\ ~(bs[j].high >= plan.target)
      /\ \/ end.reason = "STOP" /\ bs[end.at].low <= plan.stop /\ end.price = plan.stop
         \/ end.reason = "TARGET" /\ ~(bs[end.at].low <= plan.stop) /\ end.price = plan.target
         \/ /\ end.reason \in {"EOD", "TIME"} /\ ~(bs[end.at].low <= plan.stop)
            /\ end.price = bs[end.at].close
  BY <1>1, <1>2, EndIs DEF end
<1>4. end.at \in Nat /\ end.at \in 1..Len(bs)
  BY <1>1, <1>3
<1>5. /\ bs[i + 1].open \in Int /\ bs[end.at].low \in Int /\ bs[end.at].close \in Int
      /\ bs[end.at].low <= bs[end.at].close
  BY <1>1, <1>4, BarIs
<1>6. end.price \in Int /\ end.price >= plan.stop
  BY <1>2, <1>3, <1>5
<1>7. end.reason \in {"STOP", "TARGET", "TIME", "EOD"}
      /\ (bs[end.at].low <= plan.stop <=> end.reason = "STOP")
  BY <1>3
<1>8. t = [signal |-> i, entryAt |-> i + 1, entry |-> bs[i + 1].open,
           stop |-> plan.stop, target |-> plan.target, setup |-> plan.setup, qty |-> plan.qty,
           exitAt |-> end.at, exit |-> end.price, reason |-> end.reason]
  BY DEF RoundTrip
<1> HIDE DEF t
<1>9. /\ t.signal = i /\ t.entryAt = i + 1 /\ t.entry = bs[i + 1].open /\ t.stop = plan.stop
      /\ t.target = plan.target /\ t.setup = plan.setup /\ t.qty = plan.qty
      /\ t.exitAt = end.at /\ t.exit = end.price /\ t.reason = end.reason
  BY <1>8
<1>10. t \in Trips
  BY <1>1, <1>2, <1>4, <1>5, <1>6, <1>7, <1>8 DEF Trips
<1>11. t.signal < t.exitAt /\ t.exitAt <= Len(bs)
  BY <1>1, <1>3, <1>9
<1>12. t.entryAt = t.signal + 1 /\ t.exitAt - t.entryAt <= MaxHold[t.setup]
  BY <1>3, <1>9
<1>13. \A j \in t.entryAt..(t.exitAt - 1) : ~Touched(bs[j], t)
  BY <1>3, <1>9 DEF Touched
<1>14. bs[t.exitAt].low <= t.stop <=> t.reason = "STOP"
  BY <1>7, <1>9
<1>15. t.stop < t.entry /\ t.exit >= t.stop
  BY <1>2, <1>5, <1>6, <1>9
<1>16. t.qty * (bs[t.signal].close - t.stop) * 100 <= Settings.capital * Settings.riskPct
  BY <1>2, <1>9
<1>17. TripOk(bs, t)
  BY <1>10, <1>11, <1>12, <1>13, <1>14, <1>15, <1>16 DEF TripOk
<1> QED BY <1>17 DEF t, end

-----------------------------------------------------------------------------
(* The walk over the bars.                                                 *)

WalkOf(bs, walk) ==
  walk[0] = Begin /\ \A k \in 1..(Len(bs) - 1) : walk[k] = Advance(bs, walk[k - 1], k)

LEMMA BacktestIs ==
  ASSUME NEW bs \in Seq(Bars), bs # <<>>
  PROVE  \E walk : WalkOf(bs, walk) /\ Backtest(bs) = walk[Len(bs) - 1].trades
<1> DEFINE n == Len(bs) - 1
           At(f, k) == IF k = 0 THEN Begin ELSE Advance(bs, f[k - 1], k)
           walk == CHOOSE f : f = [k \in 0..n |-> At(f, k)]
           Upto(m) == \E f : f = [k \in 0..m |-> At(f, k)]
<1>1. n \in Nat
  BY EmptySeq
<1>2. ASSUME NEW f, NEW g, NEW k, k # 0 => f[k - 1] = g[k - 1]
      PROVE  At(f, k) = At(g, k)
  <2>1. CASE k = 0
    BY <2>1
  <2>2. CASE k # 0
    BY <1>2, <2>2
  <2> QED BY <2>1, <2>2
<1>3. At(walk, 0) = Begin /\ \A k \in 1..n : At(walk, k) = Advance(bs, walk[k - 1], k)
  OBVIOUS
<1> HIDE DEF At
<1>4. Upto(n)
  <2> DEFINE Bad == {m \in 0..n : ~Upto(m)}
  <2> SUFFICES ASSUME Bad # {} PROVE FALSE
    BY <1>1
  <2>1. PICK m \in Bad : \A q \in Bad : m <= q
    <3>1. Bad \in SUBSET Nat
      OBVIOUS
    <3> HIDE DEF Bad
    <3> QED BY <3>1, LeastNat
  <2>2. m \in 0..n /\ ~Upto(m)
    BY <2>1
  <2>3. \E f : \A k \in 0..(m - 1) : f[k] = At(f, k)
    <3>1. CASE m = 0
      <4>1. 0..(m - 1) = {}
        BY <3>1
      <4> QED BY <4>1
    <3>2. CASE m > 0
      <4>1. m - 1 \in 0..n /\ ~(m <= m - 1)
        BY <1>1, <2>2, <3>2
      <4>2. PICK f : f = [k \in 0..(m - 1) |-> At(f, k)]
        BY <2>1, <4>1
      <4>3. \A k \in 0..(m - 1) : f[k] = At(f, k)
        BY <4>2
      <4> QED BY <4>3
    <3> QED BY <1>1, <2>2, <3>1, <3>2
  <2>4. PICK f : \A k \in 0..(m - 1) : f[k] = At(f, k)
    BY <2>3
  <2> DEFINE g == [k \in 0..m |-> IF k < m THEN f[k] ELSE At(f, m)]
  <2>5. \A k \in 0..m : g[k] = At(g, k)
    <3> SUFFICES ASSUME NEW k \in 0..m PROVE g[k] = At(g, k)
      OBVIOUS
    <3>1. k # 0 => g[k - 1] = f[k - 1]
      BY <1>1, <2>2
    <3>2. g[k] = At(f, k)
      BY <1>1, <2>2, <2>4
    <3> HIDE DEF g
    <3>3. At(g, k) = At(f, k)
      BY <1>2, <3>1
    <3> QED BY <3>2, <3>3
  <2>6. g = [k \in 0..m |-> g[k]]
    OBVIOUS
  <2>7. Upto(m)
    <3> HIDE DEF g
    <3>1. g = [k \in 0..m |-> At(g, k)]
      BY <2>5, <2>6
    <3> QED BY <3>1
  <2> QED BY <2>2, <2>7
<1>5. walk = [k \in 0..n |-> At(walk, k)]
  BY <1>4
<1> HIDE DEF walk
<1>6. \A k \in 0..n : walk[k] = At(walk, k)
  BY <1>5
<1>7. WalkOf(bs, walk)
  <2>1. 0 \in 0..n /\ \A k \in 1..n : k \in 0..n
    BY <1>1
  <2> QED BY <1>3, <1>6, <2>1 DEF WalkOf
<1>8. Backtest(bs) = walk[n].trades
  BY DEF Backtest, walk, At
<1> QED BY <1>7, <1>8

(* After some days: the trades so far are sound, and end before the day    *)
(* from which the next signal may be.                                      *)
SoOk(bs, so) ==
  /\ so.trades \in Seq(Trips) /\ so.free \in Nat
  /\ \A k \in DOMAIN so.trades :
       /\ TripOk(bs, so.trades[k]) /\ so.trades[k].exitAt < so.free
       /\ k > 1 => so.trades[k - 1].exitAt < so.trades[k].signal

LEMMA SeenIs ==
  ASSUME NEW bs \in Seq(Bars), NEW i \in 1..Len(bs)
  PROVE  Seen(bs, i) \in Seq(Bars) /\ Seen(bs, i) # <<>> /\ Last(Seen(bs, i)) = bs[i]
<1>1. Seen(bs, i) = [k \in 1..i |-> bs[k]]
  BY DEF Seen
<1>2. i \in Nat /\ \A k \in 1..i : bs[k] \in Bars
  OBVIOUS
<1>3. Seen(bs, i) \in Seq(Bars) /\ Len(Seen(bs, i)) = i
  BY <1>1, <1>2
<1> QED BY <1>1, <1>3 DEF Last

LEMMA AdvanceOk ==
  ASSUME NEW bs \in Seq(Bars), NEW i \in 1..(Len(bs) - 1), NEW so, SoOk(bs, so)
  PROVE  SoOk(bs, Advance(bs, so, i))
<1> DEFINE plan == PlanAt(Seen(bs, i))
           t == RoundTrip(bs, i, plan, EndAt(bs, i + 1, plan))
<1>1. CASE i < so.free \/ ~Enters(bs, i, plan)
  BY <1>1 DEF Advance
<1>2. CASE ~(i < so.free) /\ Enters(bs, i, plan)
  <2>1. i \in 1..Len(bs) /\ plan # Nothing /\ bs[i + 1].open > plan.stop
    BY <1>2 DEF Enters
  <2>2. PlanOk(plan, bs[i].close)
    BY <2>1, SeenIs, PlanAtOk
  <2> HIDE DEF plan
  <2>3. TripOk(bs, t)
    BY <2>1, <2>2, RoundTripOk
  <2>4. t \in Trips /\ i < t.exitAt /\ t.signal = i
    BY <2>3 DEF TripOk, RoundTrip
  <2>5. Advance(bs, so, i) = [trades |-> Append(so.trades, t), free |-> t.exitAt + 1]
    BY <1>2 DEF Advance, RoundTrip, plan
  <2> HIDE DEF t
  <2> DEFINE new == [trades |-> Append(so.trades, t), free |-> t.exitAt + 1]
  <2>6. so.trades \in Seq(Trips) /\ so.free \in Nat /\ so.free <= i
    BY <1>2 DEF SoOk
  <2>7. new.trades \in Seq(Trips) /\ new.free \in Nat /\ Len(new.trades) = Len(so.trades) + 1
    BY <2>4, <2>6 DEF Trips
  <2>8. ASSUME NEW k \in DOMAIN new.trades
        PROVE  /\ TripOk(bs, new.trades[k]) /\ new.trades[k].exitAt < new.free
               /\ k > 1 => new.trades[k - 1].exitAt < new.trades[k].signal
    <3>1. CASE k \in 1..Len(so.trades)
      <4>1. k \in DOMAIN so.trades /\ new.trades[k] = so.trades[k]
            /\ (k > 1 => new.trades[k - 1] = so.trades[k - 1])
        BY <2>6, <3>1
      <4>2. /\ TripOk(bs, so.trades[k]) /\ so.trades[k].exitAt < so.free
            /\ k > 1 => so.trades[k - 1].exitAt < so.trades[k].signal
        BY <4>1 DEF SoOk
      <4>3. so.trades[k].exitAt \in Nat /\ t.exitAt \in Nat
        BY <2>4, <4>2 DEF TripOk, Trips
      <4> QED BY <2>4, <2>6, <4>1, <4>2, <4>3
    <3>2. CASE k = Len(so.trades) + 1
      <4>1. new.trades[k] = t /\ t.exitAt \in Nat
        BY <2>4, <2>6, <3>2 DEF Trips
      <4>2. ASSUME k > 1 PROVE new.trades[k - 1].exitAt < i
        <5>1. k - 1 \in DOMAIN so.trades /\ new.trades[k - 1] = so.trades[k - 1]
          BY <2>6, <3>2, <4>2
        <5>2. so.trades[k - 1].exitAt < so.free /\ so.trades[k - 1].exitAt \in Nat
          BY <5>1 DEF SoOk, TripOk, Trips
        <5> QED BY <2>6, <5>1, <5>2
      <4> QED BY <2>3, <2>4, <4>1, <4>2
    <3> QED BY <2>7, <3>1, <3>2
  <2> HIDE DEF new
  <2>9. SoOk(bs, new)
    BY <2>7, <2>8 DEF SoOk
  <2> QED BY <2>5, <2>9 DEF new
<1> QED BY <1>1, <1>2

LEMMA WalkOk ==
  ASSUME NEW bs \in Seq(Bars), NEW walk, WalkOf(bs, walk), NEW i \in 0..(Len(bs) - 1)
  PROVE  SoOk(bs, walk[i])
<1> DEFINE Bad == {k \in 0..(Len(bs) - 1) : ~SoOk(bs, walk[k])}
<1> SUFFICES ASSUME Bad # {} PROVE FALSE
  OBVIOUS
<1>1. PICK k \in Bad : \A q \in Bad : k <= q
  <2>1. Bad \in SUBSET Nat
    OBVIOUS
  <2> HIDE DEF Bad
  <2> QED BY <2>1, LeastNat
<1>2. k \in 0..(Len(bs) - 1) /\ ~SoOk(bs, walk[k]) /\ Len(bs) \in Nat
  BY <1>1
<1>3. SoOk(bs, Begin)
  <2>1. Warmup + 1 \in Nat
    <3>1. Warmup \in Nat \ {0}
      BY BacktestAssumption, Zenon
    <3> QED BY <3>1
  <2>2. <<>> \in Seq(Trips) /\ DOMAIN <<>> = {}
    OBVIOUS
  <2>3. Begin.trades = <<>> /\ Begin.free = Warmup + 1
    BY DEF Begin
  <2> QED BY <2>1, <2>2, <2>3 DEF SoOk
<1>4. k # 0
  BY <1>2, <1>3 DEF WalkOf
<1>5. k \in 1..(Len(bs) - 1) /\ k - 1 \in 0..(Len(bs) - 1) /\ ~(k <= k - 1)
  BY <1>2, <1>4
<1>6. SoOk(bs, walk[k - 1])
  BY <1>1, <1>5
<1>7. SoOk(bs, walk[k])
  BY <1>5, <1>6, AdvanceOk DEF WalkOf
<1> QED BY <1>2, <1>7

-----------------------------------------------------------------------------
(* A new bar.                                                              *)

(* What a day and the days before it bring is as it was.                   *)
LEMMA SeenBefore ==
  ASSUME NEW bs \in Seq(Bars), NEW b \in Bars
  PROVE  /\ Append(bs, b) \in Seq(Bars) /\ Len(Append(bs, b)) = Len(bs) + 1
         /\ \A j \in 1..Len(bs) : Append(bs, b)[j] = bs[j]
         /\ \A i \in 1..Len(bs) : Seen(Append(bs, b), i) = Seen(bs, i)
<1> DEFINE new == Append(bs, b)
<1>1. /\ new \in Seq(Bars) /\ Len(new) = Len(bs) + 1 /\ Len(bs) \in Nat
      /\ \A j \in 1..Len(bs) : new[j] = bs[j]
  OBVIOUS
<1> HIDE DEF new
<1>2. ASSUME NEW i \in 1..Len(bs) PROVE Seen(new, i) = Seen(bs, i)
  <2>1. Seen(new, i) = [k \in 1..i |-> new[k]] /\ Seen(bs, i) = [k \in 1..i |-> bs[k]]
    BY DEF Seen
  <2>2. \A k \in 1..i : new[k] = bs[k]
    BY <1>1
  <2> QED BY <2>1, <2>2
<1> QED BY <1>1, <1>2 DEF new

(* A position that had ended ends where it did.                            *)
LEMMA EndStays ==
  ASSUME NEW bs \in Seq(Bars), NEW b \in Bars, NEW entry \in 1..Len(bs), NEW plan,
         Ends(bs, entry, plan) # {}
  PROVE  EndAt(Append(bs, b), entry, plan) = EndAt(bs, entry, plan)
<1> DEFINE new == Append(bs, b)
           E == Ends(bs, entry, plan)
           F == Ends(new, entry, plan)
<1>1. /\ new \in Seq(Bars) /\ Len(new) = Len(bs) + 1 /\ Len(bs) \in Nat
      /\ \A j \in 1..Len(bs) : new[j] = bs[j]
  BY SeenBefore
<1> HIDE DEF new
<1>2. E \subseteq F /\ \A j \in F : j \in E \/ j > Len(bs)
  BY <1>1 DEF Ends
<1>3. (\A j \in E : j \in Nat /\ j <= Len(bs)) /\ (\A j \in F : j \in Nat)
  BY <1>1 DEF Ends
<1> HIDE DEF E, F
<1>4. E # {} /\ F # {}
  BY <1>2 DEF E
<1>5. Min(E) \in E /\ \A j \in E : Min(E) <= j
  BY <1>3, <1>4, MinIs
<1>6. Min(F) \in F /\ \A j \in F : Min(F) <= j
  BY <1>3, <1>4, MinIs
<1>7. Min(F) = Min(E)
  BY <1>1, <1>2, <1>3, <1>5, <1>6
<1>8. Min(E) \in 1..Len(bs)
  BY <1>5 DEF E, Ends
<1>9. \A s : s \in {bs, new} => 
        LET at == IF Ends(s, entry, plan) = {} THEN Len(s) ELSE Min(Ends(s, entry, plan))
        IN  EndAt(s, entry, plan) =
              IF s[at].low <= plan.stop /\ (TRUE \/ ~(s[at].high >= plan.target))
              THEN [at |-> at, price |-> plan.stop, reason |-> "STOP"]
              ELSE IF s[at].high >= plan.target
              THEN [at |-> at, price |-> plan.target, reason |-> "TARGET"]
              ELSE [at |-> at, price |-> s[at].close,
                    reason |-> IF Ends(s, entry, plan) = {} THEN "EOD" ELSE "TIME"]
  BY DEF EndAt, Ending, Ends
<1> DEFINE at == Min(E)
<1>10. new[at] = bs[at]
  BY <1>1, <1>8
<1>11. EndAt(bs, entry, plan) =
         IF bs[at].low <= plan.stop /\ (TRUE \/ ~(bs[at].high >= plan.target))
         THEN [at |-> at, price |-> plan.stop, reason |-> "STOP"]
         ELSE IF bs[at].high >= plan.target
         THEN [at |-> at, price |-> plan.target, reason |-> "TARGET"]
         ELSE [at |-> at, price |-> bs[at].close, reason |-> "TIME"]
  BY <1>4, <1>9 DEF E
<1>12. EndAt(new, entry, plan) =
         IF new[at].low <= plan.stop /\ (TRUE \/ ~(new[at].high >= plan.target))
         THEN [at |-> at, price |-> plan.stop, reason |-> "STOP"]
         ELSE IF new[at].high >= plan.target
         THEN [at |-> at, price |-> plan.target, reason |-> "TARGET"]
         ELSE [at |-> at, price |-> new[at].close, reason |-> "TIME"]
  BY <1>4, <1>7, <1>9 DEF F
<1> HIDE DEF at
<1>13. EndAt(new, entry, plan) = EndAt(bs, entry, plan)
  BY <1>10, <1>11, <1>12
<1> QED BY <1>13 DEF new

(* One that had not ended ends with the bars.                              *)
LEMMA EndOfBars ==
  ASSUME NEW bs \in Seq(Bars), NEW entry \in 1..Len(bs), NEW plan, plan.setup \in Setups,
         Ends(bs, entry, plan) = {}
  PROVE  EndAt(bs, entry, plan).at = Len(bs) /\ EndAt(bs, entry, plan).reason = "EOD"
<1>1. Len(bs) \in entry..Len(bs) /\ Len(bs) \notin Ends(bs, entry, plan)
  OBVIOUS
<1>2. ~(bs[Len(bs)].low <= plan.stop) /\ ~(bs[Len(bs)].high >= plan.target)
  BY <1>1 DEF Ends
<1> QED BY <1>2 DEF EndAt, Ending, Ends

(* Up to a day: the walks with and without the new bar have come to the    *)
(* same, or the one without has a position to the end of its bars.         *)
Agree(bs, so, new) ==
  \/ so = new
  \/ /\ so.free > Len(bs)
     /\ new.trades \in Seq(Trips)
     /\ \A k \in DOMAIN so.trades :
          so.trades[k].reason # "EOD" => k \in DOMAIN new.trades /\ new.trades[k] = so.trades[k]

(* Advance leaves the trades of the days before.                           *)
LEMMA AdvanceKeeps ==
  ASSUME NEW bs, NEW i, NEW so, so.trades \in Seq(Trips)
  PROVE  \A k \in DOMAIN so.trades :
           /\ k \in DOMAIN Advance(bs, so, i).trades
           /\ Advance(bs, so, i).trades[k] = so.trades[k]
<1> DEFINE plan == PlanAt(Seen(bs, i))
           t == RoundTrip(bs, i, plan, EndAt(bs, i + 1, plan))
<1>1. \/ Advance(bs, so, i) = so
      \/ Advance(bs, so, i) = [trades |-> Append(so.trades, t),
                               free |-> EndAt(bs, i + 1, plan).at + 1]
  BY DEF Advance
<1>2. \A k \in DOMAIN so.trades :
        k \in DOMAIN Append(so.trades, t) /\ Append(so.trades, t)[k] = so.trades[k]
  <2> HIDE DEF t
  <2> QED OBVIOUS
<1> HIDE DEF t, plan
<1> QED BY <1>1, <1>2

LEMMA AdvanceAgree ==
  ASSUME NEW bs \in Seq(Bars), NEW b \in Bars, NEW i \in 1..(Len(bs) - 1), NEW so, NEW new,
         SoOk(bs, so), new.trades \in Seq(Trips), Agree(bs, so, new),
         Advance(Append(bs, b), new, i).trades \in Seq(Trips)
  PROVE  Agree(bs, Advance(bs, so, i), Advance(Append(bs, b), new, i))
<1> DEFINE longer == Append(bs, b)
           plan == PlanAt(Seen(bs, i))
           E == Ends(bs, i + 1, plan)
           end == EndAt(bs, i + 1, plan)
           after == EndAt(longer, i + 1, plan)
<1>1. /\ i \in 1..Len(bs) /\ i + 1 \in 1..Len(bs) /\ Len(bs) \in Nat
      /\ longer \in Seq(Bars) /\ longer[i + 1] = bs[i + 1] /\ Seen(longer, i) = Seen(bs, i)
  BY SeenBefore
<1>2. Enters(longer, i, plan) <=> Enters(bs, i, plan)
  BY <1>1 DEF Enters
<1>3. CASE ~(so = new)
  <2>1. /\ so.free > Len(bs) /\ so.free \in Nat
        /\ \A k \in DOMAIN so.trades :
             so.trades[k].reason # "EOD" => k \in DOMAIN new.trades /\ new.trades[k] = so.trades[k]
    BY <1>3 DEF Agree, SoOk
  <2>2. Advance(bs, so, i) = so
    BY <1>1, <2>1 DEF Advance
  <2>3. \A k \in DOMAIN new.trades :
          /\ k \in DOMAIN Advance(longer, new, i).trades
          /\ Advance(longer, new, i).trades[k] = new.trades[k]
    BY AdvanceKeeps
  <2> QED BY <2>1, <2>2, <2>3 DEF Agree
<1>4. CASE so = new /\ (i < so.free \/ ~Enters(bs, i, plan))
  <2>1. Advance(bs, so, i) = so /\ Advance(longer, new, i) = so
    BY <1>1, <1>2, <1>4 DEF Advance
  <2> QED BY <2>1 DEF Agree
<1>5. CASE so = new /\ ~(i < so.free) /\ Enters(bs, i, plan)
  <2>1. /\ Advance(bs, so, i) = [trades |-> Append(so.trades, RoundTrip(bs, i, plan, end)),
                                 free |-> end.at + 1]
        /\ Advance(longer, new, i) = [trades |-> Append(so.trades, RoundTrip(longer, i, plan, after)),
                                      free |-> after.at + 1]
    BY <1>1, <1>2, <1>5 DEF Advance
  <2>2. \A e : RoundTrip(longer, i, plan, e) = RoundTrip(bs, i, plan, e)
    BY <1>1 DEF RoundTrip
  <2>3. CASE E # {}
    <3>1. after = end
      BY <1>1, <2>3, EndStays
    <3>2. Advance(longer, new, i) = Advance(bs, so, i)
      BY <2>1, <2>2, <3>1
    <3> QED BY <3>2 DEF Agree
  <2>4. CASE E = {}
    <3>1. plan.setup \in Setups
      <4>1. plan # Nothing
        BY <1>5 DEF Enters
      <4> QED BY <1>1, <4>1, SeenIs, PlanAtOk DEF PlanOk
    <3>2. end.at = Len(bs) /\ end.reason = "EOD"
      BY <1>1, <2>4, <3>1, EndOfBars
    <3> DEFINE t == RoundTrip(bs, i, plan, end)
               old == Append(so.trades, t)
    <3>3. t.reason = "EOD"
      BY <3>2 DEF RoundTrip
    <3>4. so.trades \in Seq(Trips)
      BY DEF SoOk
    <3> HIDE DEF t
    <3>5. /\ \A k \in DOMAIN old : k \in DOMAIN so.trades \/ old[k].reason = "EOD"
          /\ \A k \in DOMAIN so.trades : old[k] = so.trades[k]
      BY <3>3, <3>4
    <3>6. \A k \in DOMAIN so.trades :
            /\ k \in DOMAIN Advance(longer, new, i).trades
            /\ Advance(longer, new, i).trades[k] = so.trades[k]
      BY <1>5, <3>4, AdvanceKeeps
    <3>7. Advance(bs, so, i).trades = old /\ Advance(bs, so, i).free > Len(bs)
      BY <1>1, <2>1, <3>2 DEF t
    <3> HIDE DEF old
    <3> QED BY <3>5, <3>6, <3>7 DEF Agree
  <2> QED BY <2>3, <2>4
<1> QED BY <1>3, <1>4, <1>5

LEMMA WalksAgree ==
  ASSUME NEW bs \in Seq(Bars), NEW b \in Bars, NEW walk, WalkOf(bs, walk),
         NEW new, WalkOf(Append(bs, b), new), NEW i \in 0..(Len(bs) - 1)
  PROVE  Agree(bs, walk[i], new[i])
<1> DEFINE longer == Append(bs, b)
           Bad == {k \in 0..(Len(bs) - 1) : ~Agree(bs, walk[k], new[k])}
<1> SUFFICES ASSUME Bad # {} PROVE FALSE
  OBVIOUS
<1>1. PICK k \in Bad : \A q \in Bad : k <= q
  <2>1. Bad \in SUBSET Nat
    OBVIOUS
  <2> HIDE DEF Bad
  <2> QED BY <2>1, LeastNat
<1>2. k \in 0..(Len(bs) - 1) /\ ~Agree(bs, walk[k], new[k]) /\ Len(bs) \in Nat
  BY <1>1
<1>3. walk[0] = new[0]
  BY DEF WalkOf
<1>4. k # 0
  BY <1>2, <1>3 DEF Agree
<1>5. k \in 1..(Len(bs) - 1) /\ k - 1 \in 0..(Len(bs) - 1) /\ ~(k <= k - 1)
  BY <1>2, <1>4
<1>6. longer \in Seq(Bars) /\ Len(longer) = Len(bs) + 1
  BY SeenBefore
<1>7. k \in 1..(Len(longer) - 1) /\ k \in 0..(Len(longer) - 1) /\ k - 1 \in 0..(Len(longer) - 1)
  BY <1>2, <1>5, <1>6
<1>8. Agree(bs, walk[k - 1], new[k - 1])
  BY <1>1, <1>5
<1>9. walk[k] = Advance(bs, walk[k - 1], k) /\ new[k] = Advance(longer, new[k - 1], k)
  BY <1>5, <1>7 DEF WalkOf
<1>10. SoOk(bs, walk[k - 1])
  BY <1>5, WalkOk
<1>11. SoOk(longer, new[k - 1]) /\ SoOk(longer, new[k])
  BY <1>6, <1>7, WalkOk
<1>12. new[k - 1].trades \in Seq(Trips) /\ Advance(longer, new[k - 1], k).trades \in Seq(Trips)
  BY <1>9, <1>11 DEF SoOk
<1>13. Agree(bs, walk[k], new[k])
  BY <1>5, <1>8, <1>9, <1>10, <1>12, AdvanceAgree
<1> QED BY <1>2, <1>13

-----------------------------------------------------------------------------
(* The backtest of the bars so far.                                        *)

TestInv ==
  /\ bars \in Seq(Bars) /\ bars # <<>>
  /\ backtest = RunBacktest(bars)

LEMMA TestSound == TestInv => BacktestSound
<1> SUFFICES ASSUME TestInv, NEW k \in DOMAIN backtest
             PROVE  LET t == backtest[k]
                    IN  /\ k > 1 => backtest[k - 1].exitAt < t.signal
                        /\ t.entryAt = t.signal + 1 /\ t.exitAt - t.entryAt <= MaxHold[t.setup]
                        /\ \A j \in t.entryAt..(t.exitAt - 1) : ~Touched(bars[j], t)
                        /\ bars[t.exitAt].low <= t.stop <=> t.reason = "STOP"
                        /\ t.stop < t.entry /\ t.exit >= t.stop
                        /\ t.qty * (bars[t.signal].close - t.stop) * 100
                             <= Settings.capital * Settings.riskPct
  BY DEF BacktestSound
<1>1. bars \in Seq(Bars) /\ bars # <<>> /\ backtest = RunBacktest(bars)
  BY DEF TestInv
<1>2. backtest # <<>>
  OBVIOUS
<1>3. backtest = Backtest(bars)
  BY <1>1, <1>2 DEF RunBacktest
<1>4. PICK walk : WalkOf(bars, walk) /\ backtest = walk[Len(bars) - 1].trades
  BY <1>1, <1>3, BacktestIs
<1>5. Len(bars) - 1 \in 0..(Len(bars) - 1)
  BY <1>1, EmptySeq
<1>6. SoOk(bars, walk[Len(bars) - 1])
  BY <1>1, <1>4, <1>5, WalkOk
<1>7. TripOk(bars, backtest[k]) /\ (k > 1 => backtest[k - 1].exitAt < backtest[k].signal)
  BY <1>4, <1>6 DEF SoOk
<1> QED BY <1>7 DEF TripOk

LEMMA DayIs ==
  ASSUME NEW b \in Bars, NEW move \in Bars
  PROVE  [open |-> b.close + move.open, high |-> b.close + move.high,
          low |-> b.close + move.low, close |-> b.close + move.close, vol |-> move.vol] \in Bars
<1>1. /\ b.close \in Int
      /\ move.open \in Int /\ move.high \in Int /\ move.low \in Int /\ move.close \in Int
      /\ move.vol \in Nat /\ {move.open, move.close} \subseteq move.low..move.high
  BY DEF Bars, Prices
<1> DEFINE new == [open |-> b.close + move.open, high |-> b.close + move.high,
                   low |-> b.close + move.low, close |-> b.close + move.close, vol |-> move.vol]
<1>2. new \in Prices
  BY <1>1 DEF Prices
<1>3. {new.open, new.close} \subseteq new.low..new.high
  BY <1>1
<1> QED BY <1>2, <1>3 DEF Bars

LEMMA TestInitInv == TestInit => TestInv
<1> SUFFICES ASSUME TestInit PROVE TestInv
  OBVIOUS
<1>1. OpenPrice \in Nat \ {0} /\ Warmup \in Nat \ {0}
  BY BacktestAssumption, Zenon
<1> DEFINE b == [open |-> OpenPrice, high |-> OpenPrice + 50, low |-> OpenPrice - 50,
                 close |-> OpenPrice, vol |-> 10]
<1>2. b \in Bars
  <2>1. b \in Prices
    BY <1>1 DEF Prices
  <2>2. {b.open, b.close} \subseteq b.low..b.high
    BY <1>1
  <2> QED BY <2>1, <2>2 DEF Bars
<1>3. FirstBars = [i \in 1..Warmup |-> b]
  BY DEF FirstBars
<1> HIDE DEF b
<1>4. FirstBars \in Seq(Bars) /\ Len(FirstBars) = Warmup
  BY <1>1, <1>2, <1>3
<1>5. FirstBars # <<>>
  BY <1>1, <1>4
<1> QED BY <1>4, <1>5 DEF TestInit, TestInv

LEMMA TestNextIs ==
  ASSUME TestInv, TestNext
  PROVE  /\ \E b \in Bars : bars' = Append(bars, b)
         /\ TestInv'
<1>1. PICK move \in Moves : bars' = Append(bars, Day(move)) /\ backtest' = RunBacktest(bars')
  BY DEF TestNext
<1>2. move \in Bars
  BY BacktestAssumption
<1>3. Last(bars) \in Bars
  <2>1. bars \in Seq(Bars) /\ Len(bars) \in 1..Len(bars)
    BY EmptySeq DEF TestInv
  <2> QED BY <2>1 DEF Last
<1>4. Day(move) \in Bars
  BY <1>2, <1>3, DayIs DEF Day
<1>5. bars' \in Seq(Bars) /\ Len(bars') = Len(bars) + 1 /\ Len(bars) \in Nat
  BY <1>1, <1>4, SeenBefore DEF TestInv
<1>6. bars' # <<>>
  BY <1>5
<1> QED BY <1>1, <1>4, <1>5, <1>6 DEF TestInv

LEMMA TestStutter == TestInv /\ UNCHANGED testVars => TestInv'
BY DEF TestInv, testVars

(* A closed trade stays, at its place, a day later.                        *)
LEMMA OneDayMore ==
  ASSUME NEW bs \in Seq(Bars), bs # <<>>, NEW b \in Bars, NEW k \in DOMAIN RunBacktest(bs),
         RunBacktest(bs)[k].reason # "EOD"
  PROVE  /\ k \in DOMAIN RunBacktest(Append(bs, b))
         /\ RunBacktest(Append(bs, b))[k] = RunBacktest(bs)[k]
<1> DEFINE longer == Append(bs, b)
<1>1. /\ longer \in Seq(Bars) /\ Len(longer) = Len(bs) + 1 /\ Len(bs) \in Nat \ {0}
      /\ longer # <<>>
  <2>1. longer \in Seq(Bars) /\ Len(longer) = Len(bs) + 1
    BY SeenBefore
  <2>2. Len(bs) \in Nat \ {0}
    BY EmptySeq
  <2> QED BY <2>1, <2>2
<1>2. Warmup \in Nat \ {0} /\ Spare \in Nat \ {0}
  BY BacktestAssumption, Zenon
<1>3. ~(Len(bs) < Warmup + Spare) /\ RunBacktest(bs) = Backtest(bs)
  <2>1. RunBacktest(bs) # <<>>
    OBVIOUS
  <2> QED BY <2>1 DEF RunBacktest
<1>4. RunBacktest(longer) = Backtest(longer)
  BY <1>1, <1>2, <1>3 DEF RunBacktest
<1>5. PICK walk : WalkOf(bs, walk) /\ Backtest(bs) = walk[Len(bs) - 1].trades
  BY BacktestIs
<1>6. PICK new : WalkOf(longer, new) /\ Backtest(longer) = new[Len(longer) - 1].trades
  BY <1>1, BacktestIs
<1> DEFINE n == Len(bs) - 1
<1>7. n \in 0..n /\ n \in 0..(Len(longer) - 1) /\ Len(longer) - 1 = n + 1 /\ n + 1 \in 1..(Len(longer) - 1)
  BY <1>1
<1>8. Agree(bs, walk[n], new[n])
  BY <1>5, <1>6, <1>7, WalksAgree
<1>9. new[n].trades \in Seq(Trips)
  BY <1>1, <1>6, <1>7, WalkOk DEF SoOk
<1>10. new[n + 1] = Advance(longer, new[n], n + 1)
  BY <1>1, <1>6, <1>7 DEF WalkOf
<1>11. k \in DOMAIN walk[n].trades /\ walk[n].trades[k].reason # "EOD"
  BY <1>3, <1>5
<1>12. k \in DOMAIN new[n].trades /\ new[n].trades[k] = walk[n].trades[k]
  BY <1>8, <1>11 DEF Agree
<1>13. /\ k \in DOMAIN new[n + 1].trades /\ new[n + 1].trades[k] = new[n].trades[k]
  BY <1>9, <1>10, <1>12, AdvanceKeeps
<1> QED BY <1>3, <1>4, <1>5, <1>6, <1>7, <1>12, <1>13

(* backtest_symbol: whatever the bars, the settings and the lookbacks,     *)
(* positions do not overlap, end at the first bar that touches their stop  *)
(* or target, the stop before the target, and are sized by what the stop   *)
(* loses.                                                                  *)
THEOREM BacktestIsSound == TestSpec => []BacktestSound
<1>1. TestInv /\ [TestNext]_testVars => TestInv'
  BY TestNextIs, TestStutter
<1>2. TestSpec => []TestInv
  BY <1>1, TestInitInv, PTL DEF TestSpec
<1> QED BY <1>2, TestSound, PTL

(* backtest_symbol: a later bar changes no trade that was closed without   *)
(* it.                                                                     *)
THEOREM NothingLooksAhead == TestSpec => NoLookahead
<1>1. TestInv /\ [TestNext]_testVars => TestInv'
  BY TestNextIs, TestStutter
<1>2. TestSpec => []TestInv
  BY <1>1, TestInitInv, PTL DEF TestSpec
<1>3. TestInv /\ [TestNext]_testVars =>
        [\A k \in DOMAIN backtest :
           backtest[k].reason # "EOD" => k \in DOMAIN backtest' /\ backtest'[k] = backtest[k]]_testVars
  <2> SUFFICES ASSUME TestInv, TestNext, NEW k \in DOMAIN backtest, backtest[k].reason # "EOD"
               PROVE  k \in DOMAIN backtest' /\ backtest'[k] = backtest[k]
    OBVIOUS
  <2>1. bars \in Seq(Bars) /\ bars # <<>> /\ backtest = RunBacktest(bars)
    BY DEF TestInv
  <2>2. PICK b \in Bars : bars' = Append(bars, b)
    BY TestNextIs
  <2>3. backtest' = RunBacktest(Append(bars, b))
    BY <2>2, TestNextIs DEF TestInv
  <2> QED BY <2>1, <2>3, OneDayMore
<1> QED BY <1>2, <1>3, PTL DEF TestSpec, NoLookahead
=============================================================================
