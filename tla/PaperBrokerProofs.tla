------------------------- MODULE PaperBrokerProofs -------------------------
(***************************************************************************)
(* Proofs about PaperBroker, for every set of symbols and requests and     *)
(* every budget, fee, lot cost and bound: first what sums over finite sets *)
(* do, then the types and the cooldown (StopInv), then the trades, the     *)
(* index and the money.  The latter take seven invariants, each inductive  *)
(* together with those before it:                                          *)
(*                                                                         *)
(*   SoleInv      which handlers may be under way and what they hold       *)
(*   TradeInv     which trades are used, indexed, recorded and settled     *)
(*   EchoInv      what trades:all holds, and may yet be told to hold       *)
(*   InvestedInv  invested and the positions' cost, half-done steps added  *)
(*   IndexInv     the three views of an open position, exceptions named    *)
(*   BooksInv     cash, realized total and trade records, likewise         *)
(*   LedgerInv    what allocate() and release() are about to write         *)
(*                                                                         *)
(* With the last, PaperBroker implements Ledger.                           *)
(***************************************************************************)
EXTENDS PaperLedger, FiniteSetTheorems, TLAPS

-----------------------------------------------------------------------------
(* Finite sums.                                                            *)

(* MapThenSumSet folds over a set in an order that CHOOSE picks.  The sum  *)
(* is shown to be a weight, the unit points of f above zero less those     *)
(* below it, which depends on no order: a smallest subset on which the two *)
(* differ cannot exist.                                                    *)
Up(f, S)   == UNION {{x} \X (1..f[x]) : x \in S}
Down(f, S) == UNION {{x} \X (1..(-f[x])) : x \in S}
Weighed(f, S) == /\ IsFiniteSet(Up(f, S)) /\ IsFiniteSet(Down(f, S))
Weight(f, S)  == Cardinality(Up(f, S)) - Cardinality(Down(f, S))

(* A family of subsets of a finite set has a member none of whose proper   *)
(* subsets is in it.                                                       *)
LEMMA SmallestSet ==
  ASSUME NEW S, IsFiniteSet(S), NEW F \in SUBSET (SUBSET S), F # {}
  PROVE  \E T \in F : \A U \in SUBSET T : U # T => U \notin F
<1>1. IsWellFoundedOn(StrictSubsetOrdering(S), SUBSET S)
  BY FS_FiniteSubsetsOfFinite, FS_StrictSubsetOrderingWellFounded
<1>2. \E T \in F : \A U \in F : <<U, T>> \notin StrictSubsetOrdering(S)
  BY <1>1, WFMin
<1> QED BY <1>2 DEF StrictSubsetOrdering

(* One more element adds its value to the weight.                          *)
LEMMA WeightAdd ==
  ASSUME NEW f, NEW S, NEW x, x \notin S, f[x] \in Int, Weighed(f, S)
  PROVE  Weighed(f, S \cup {x}) /\ Weight(f, S \cup {x}) = f[x] + Weight(f, S)
<1>1. /\ Up(f, S \cup {x}) = Up(f, S) \cup ({x} \X (1..f[x]))
      /\ Down(f, S \cup {x}) = Down(f, S) \cup ({x} \X (1..(-f[x])))
  BY DEF Up, Down
<1>2. /\ Up(f, S) \cap ({x} \X (1..f[x])) = {}
      /\ Down(f, S) \cap ({x} \X (1..(-f[x]))) = {}
  BY DEF Up, Down
<1>3. ASSUME NEW n \in Int
      PROVE  IsFiniteSet({x} \X (1..n)) /\ Cardinality({x} \X (1..n)) = IF n > 0 THEN n ELSE 0
  <2> DEFINE k == IF n > 0 THEN n ELSE 0
  <2>1. IsFiniteSet(1..n) /\ Cardinality(1..n) = k /\ k \in Int
    BY FS_Interval
  <2>2. IsFiniteSet({x}) /\ Cardinality({x}) = 1
    BY FS_Singleton
  <2>3. IsFiniteSet({x} \X (1..n)) /\ Cardinality({x} \X (1..n)) = Cardinality({x}) * Cardinality(1..n)
    BY <2>1, <2>2, FS_Product
  <2>4. 1 * k = k
    BY <2>1
  <2> QED BY <2>1, <2>2, <2>3, <2>4
<1>4. /\ IsFiniteSet({x} \X (1..(-f[x])))
      /\ Cardinality({x} \X (1..(-f[x]))) = IF -f[x] > 0 THEN -f[x] ELSE 0
  BY <1>3
<1>5. ASSUME NEW A, NEW B, IsFiniteSet(A), IsFiniteSet(B), A \cap B = {}
      PROVE  IsFiniteSet(A \cup B) /\ Cardinality(A \cup B) = Cardinality(A) + Cardinality(B)
  <2>1. Cardinality(A) \in Nat /\ Cardinality(B) \in Nat /\ Cardinality(A \cap B) = 0
    BY <1>5, FS_CardinalityType, FS_EmptySet
  <2>2. /\ IsFiniteSet(A \cup B)
        /\ Cardinality(A \cup B) = Cardinality(A) + Cardinality(B) - Cardinality(A \cap B)
    BY <1>5, FS_Union
  <2> QED BY <2>1, <2>2
<1>6. /\ Cardinality(Up(f, S)) \in Nat /\ Cardinality(Down(f, S)) \in Nat
  BY FS_CardinalityType DEF Weighed
<1>7. /\ IsFiniteSet(Up(f, S \cup {x}))
      /\ Cardinality(Up(f, S \cup {x})) = Cardinality(Up(f, S)) + IF f[x] > 0 THEN f[x] ELSE 0
  <2> DEFINE A == Up(f, S)  B == {x} \X (1..f[x])
  <2>1. IsFiniteSet(A) /\ A \cap B = {}
    BY <1>2 DEF Weighed
  <2>2. IsFiniteSet(B) /\ Cardinality(B) = IF f[x] > 0 THEN f[x] ELSE 0
    BY <1>3
  <2>3. Up(f, S \cup {x}) = A \cup B
    BY <1>1
  <2> HIDE DEF A, B
  <2>4. IsFiniteSet(A \cup B) /\ Cardinality(A \cup B) = Cardinality(A) + Cardinality(B)
    BY <2>1, <2>2, <1>5
  <2> QED BY <2>2, <2>3, <2>4 DEF A
<1>8. /\ IsFiniteSet(Down(f, S \cup {x}))
      /\ Cardinality(Down(f, S \cup {x})) = Cardinality(Down(f, S)) + IF -f[x] > 0 THEN -f[x] ELSE 0
  <2> DEFINE A == Down(f, S)  B == {x} \X (1..(-f[x]))
  <2>1. IsFiniteSet(A) /\ A \cap B = {}
    BY <1>2 DEF Weighed
  <2>2. IsFiniteSet(B) /\ Cardinality(B) = IF -f[x] > 0 THEN -f[x] ELSE 0
    BY <1>4
  <2>3. Down(f, S \cup {x}) = A \cup B
    BY <1>1
  <2> HIDE DEF A, B
  <2>4. IsFiniteSet(A \cup B) /\ Cardinality(A \cup B) = Cardinality(A) + Cardinality(B)
    BY <2>1, <2>2, <1>5
  <2> QED BY <2>2, <2>3, <2>4 DEF A
<1> QED BY <1>6, <1>7, <1>8 DEF Weighed, Weight

(* The fold that defines the sum picks the elements in some order; whatever*)
(* the order, it is the weight.                                            *)
LEMMA SumIsWeight ==
  ASSUME NEW S, IsFiniteSet(S), NEW f, \A x \in S : f[x] \in Int
  PROVE  Weighed(f, S) /\ SumOf(f, S) = Weight(f, S)
<1> DEFINE rec(g) == [T \in SUBSET S |->
               IF T = {} THEN 0 ELSE f[CHOOSE x \in T : TRUE] + g[T \ {CHOOSE x \in T : TRUE}]]
           it == CHOOSE g : g = rec(g)
           w == [T \in SUBSET S |-> Weight(f, T)]
           bad == {T \in SUBSET S : ~Weighed(f, T)}
<1>1. SumOf(f, S) = it[S]
  BY DEF SumOf, MapThenSumSet, MapThenFoldSet
<1> HIDE DEF it, w
<1>2. Weighed(f, {}) /\ Weight(f, {}) = 0
  <2>1. Up(f, {}) = {} /\ Down(f, {}) = {}
    BY DEF Up, Down
  <2> QED BY <2>1, FS_EmptySet DEF Weighed, Weight
<1>3. ASSUME NEW T \in SUBSET S, T # {}, NEW x, x = CHOOSE y \in T : TRUE
      PROVE  x \in T /\ x \notin T \ {x} /\ (T \ {x}) \cup {x} = T /\ f[x] \in Int
             /\ T \ {x} \in SUBSET S /\ T \ {x} # T
  BY <1>3
<1>4. bad = {}
  <2> SUFFICES ASSUME bad # {} PROVE FALSE
    OBVIOUS
  <2>0. bad \in SUBSET (SUBSET S)
    OBVIOUS
  <2>1. \E T \in bad : \A U \in SUBSET T : U # T => U \notin bad
    <3> HIDE DEF bad
    <3> QED BY <2>0, SmallestSet
  <2> PICK T \in bad : \A U \in SUBSET T : U # T => U \notin bad
    BY <2>1
  <2>2. T \in SUBSET S /\ ~Weighed(f, T) /\ T # {}
    BY <1>2
  <2>3. PICK x : x = CHOOSE y \in T : TRUE
    OBVIOUS
  <2>5. x \notin T \ {x} /\ (T \ {x}) \cup {x} = T /\ f[x] \in Int
        /\ T \ {x} \in SUBSET S /\ T \ {x} # T
    BY <2>2, <2>3, <1>3
  <2>4. Weighed(f, T \ {x})
    BY <2>5
  <2>6. Weighed(f, (T \ {x}) \cup {x})
    BY <2>4, <2>5, WeightAdd
  <2> QED BY <2>2, <2>5, <2>6
<1>5. ASSUME NEW T \in SUBSET S, T # {}, NEW x, x = CHOOSE y \in T : TRUE
      PROVE  Weight(f, T) = f[x] + Weight(f, T \ {x})
  <2>1. x \notin T \ {x} /\ (T \ {x}) \cup {x} = T /\ f[x] \in Int /\ T \ {x} \in SUBSET S
    BY <1>5, <1>3
  <2>2. Weighed(f, T \ {x})
    BY <2>1, <1>4
  <2>3. Weight(f, (T \ {x}) \cup {x}) = f[x] + Weight(f, T \ {x})
    BY <2>1, <2>2, WeightAdd
  <2> QED BY <2>1, <2>3
<1>6. w = rec(w)
  <2> SUFFICES ASSUME NEW T \in SUBSET S PROVE w[T] = rec(w)[T]
    BY DEF w
  <2>1. CASE T = {}
    BY <2>1, <1>2 DEF w
  <2>2. CASE T # {}
    <3>1. PICK x : x = CHOOSE y \in T : TRUE
      OBVIOUS
    <3>2. w[T \ {x}] = Weight(f, T \ {x}) /\ w[T] = Weight(f, T)
      BY <3>1, <2>2, <1>3 DEF w
    <3> QED BY <3>1, <3>2, <2>2, <1>5
  <2> QED BY <2>1, <2>2
<1>7. it = rec(it)
  BY <1>6 DEF it
<1>8. it[S] = w[S]
  <2> DEFINE off == {T \in SUBSET S : it[T] # w[T]}
  <2> SUFFICES ASSUME off # {} PROVE FALSE
    OBVIOUS
  <2>0. off \in SUBSET (SUBSET S)
    OBVIOUS
  <2>1. \E T \in off : \A U \in SUBSET T : U # T => U \notin off
    <3> HIDE DEF off
    <3> QED BY <2>0, SmallestSet
  <2> PICK T \in off : \A U \in SUBSET T : U # T => U \notin off
    BY <2>1
  <2>2. CASE T = {}
    BY <2>1, <2>2, <1>6, <1>7
  <2>3. CASE T # {}
    <3>1. PICK x : x = CHOOSE y \in T : TRUE
      OBVIOUS
    <3>2. it[T \ {x}] = w[T \ {x}]
      BY <2>1, <2>3, <3>1, <1>3
    <3>3. it[T] = f[x] + it[T \ {x}] /\ w[T] = f[x] + w[T \ {x}]
      BY <2>3, <3>1, <1>6, <1>7
    <3> QED BY <2>1, <3>2, <3>3
  <2> QED BY <2>2, <2>3
<1> QED BY <1>1, <1>4, <1>8 DEF w

(* The sum over a set with one more element.                               *)
LEMMA SumAdd ==
  ASSUME NEW S, IsFiniteSet(S), NEW x, x \notin S, NEW f, \A y \in S \cup {x} : f[y] \in Int
  PROVE  SumOf(f, S) \in Int /\ SumOf(f, S \cup {x}) = f[x] + SumOf(f, S)
<1>1. Weighed(f, S) /\ SumOf(f, S) = Weight(f, S) /\ f[x] \in Int
  BY SumIsWeight
<1>2. Weighed(f, S \cup {x}) /\ Weight(f, S \cup {x}) = f[x] + Weight(f, S)
  BY <1>1, WeightAdd
<1>3. IsFiniteSet(S \cup {x})
  BY FS_AddElement
<1>4. SumOf(f, S \cup {x}) = Weight(f, S \cup {x})
  BY <1>3, SumIsWeight
<1>5. Weight(f, S) \in Int
  BY <1>1, FS_CardinalityType DEF Weighed, Weight
<1> QED BY <1>1, <1>2, <1>4, <1>5

(* The sum over no element.                                                *)
LEMMA SumNone ==
  ASSUME NEW f PROVE SumOf(f, {}) = 0
<1>1. Up(f, {}) = {} /\ Down(f, {}) = {}
  BY DEF Up, Down
<1>2. SumOf(f, {}) = Weight(f, {})
  BY FS_EmptySet, SumIsWeight
<1> QED BY <1>1, <1>2, FS_EmptySet DEF Weight

(* A sum of integers is an integer.                                        *)
LEMMA SumType ==
  ASSUME NEW S, IsFiniteSet(S), NEW f, \A x \in S : f[x] \in Int
  PROVE  SumOf(f, S) \in Int
<1>1. Weighed(f, S) /\ SumOf(f, S) = Weight(f, S)
  BY SumIsWeight
<1> QED BY <1>1, FS_CardinalityType DEF Weighed, Weight

(* A sum of naturals is a natural.                                         *)
LEMMA SumNat ==
  ASSUME NEW S, IsFiniteSet(S), NEW f, \A x \in S : f[x] \in Nat
  PROVE  SumOf(f, S) \in Nat
<1>1. Weighed(f, S) /\ SumOf(f, S) = Weight(f, S)
  BY SumIsWeight
<1>2. Down(f, S) = {}
  BY DEF Down
<1>3. Cardinality(Up(f, S)) \in Nat /\ Cardinality({}) = 0
  BY <1>1, FS_CardinalityType, FS_EmptySet DEF Weighed
<1> QED BY <1>1, <1>2, <1>3 DEF Weight

(* Functions that agree on a set have the same sum over it.                *)
LEMMA SumSame ==
  ASSUME NEW S, IsFiniteSet(S), NEW f, NEW g, \A x \in S : f[x] \in Int /\ g[x] = f[x]
  PROVE  SumOf(g, S) = SumOf(f, S)
<1>1. SumOf(f, S) = Weight(f, S) /\ SumOf(g, S) = Weight(g, S)
  BY SumIsWeight
<1>2. Up(f, S) = Up(g, S) /\ Down(f, S) = Down(g, S)
  BY DEF Up, Down
<1> QED BY <1>1, <1>2 DEF Weight

(* Changing the value of one element changes the sum by the difference.    *)
LEMMA SumChange ==
  ASSUME NEW S, IsFiniteSet(S), NEW x \in S, NEW f, NEW g,
         \A y \in S : f[y] \in Int /\ g[y] \in Int, \A y \in S \ {x} : g[y] = f[y]
  PROVE  SumOf(g, S) = SumOf(f, S) + g[x] - f[x]
<1>1. PICK R : R = S \ {x}
  OBVIOUS
<1>2. IsFiniteSet(R) /\ x \notin R /\ R \cup {x} = S
  BY <1>1, FS_RemoveElement
<1>3. \A y \in R \cup {x} : f[y] \in Int /\ g[y] \in Int
  BY <1>2
<1>4. SumOf(f, R) \in Int /\ SumOf(f, R \cup {x}) = f[x] + SumOf(f, R)
  BY <1>2, <1>3, SumAdd
<1>5. SumOf(g, R \cup {x}) = g[x] + SumOf(g, R)
  BY <1>2, <1>3, SumAdd
<1>6. SumOf(g, R) = SumOf(f, R)
  BY <1>1, <1>2, <1>3, SumSame
<1>7. SumOf(f, S) = f[x] + SumOf(f, R)
  BY <1>2, <1>4
<1>8. SumOf(g, S) = g[x] + SumOf(f, R)
  BY <1>2, <1>5, <1>6
<1>9. f[x] \in Int /\ g[x] \in Int
  OBVIOUS
<1> QED BY <1>4, <1>7, <1>8, <1>9
-----------------------------------------------------------------------------

(* The fee is a natural number for every integer trade value.              *)
LEMMA CommissionType == \A v \in Int : Commission(v) \in Nat
  BY PaperAssumption DEF Commission

(* The reconciled sum of position costs is a natural number.               *)
LEMMA InvestedType == RedisOK => Invested \in Nat
<1> SUFFICES ASSUME RedisOK PROVE Invested \in Nat
  OBVIOUS
<1>1. \A s \in Symbols : Costs[s] \in Nat
  BY DEF Costs, RedisOK, Position
<1> QED BY <1>1, SumNat, PaperAssumption DEF Invested

(* An option that fits the maximum position value fits at least once.      *)
LEMMA LotsFit ==
  ASSUME NEW lot \in Nat \ {0}, NEW max \in Int, lot <= max
  PROVE  max \div lot \in Nat
  OBVIOUS

(* A handler's step keeps the types of the process when the new locals are *)
(* well typed and hold a symbol.                                           *)
LEMMA StepType ==
  ASSUME ProcessOK, NEW a \in Actors, NEW l \in Labels, NEW w \in Work, Step(a, l, w),
         l \notin {"idle", "done", "watch"} => w.sym \in Symbols
  PROVE  ProcessOK'
  BY DEF ProcessOK, Step

(* A handler under way may keep its locals.                                *)
LEMMA GotoType ==
  ASSUME ProcessOK, NEW a \in Actors, NEW l \in Labels, Goto(a, l),
         pc[a] \notin {"idle", "done", "watch"}
  PROVE  ProcessOK'
  <1>1. work[a] \in Work /\ work[a].sym \in Symbols
    BY DEF ProcessOK
  <1> QED BY <1>1, StepType DEF Goto

(* The constant records have their types.                                  *)
LEMMA OpenTradeType == OpenTrade \in Trade
  BY DEF OpenTrade, Trade

(* A row the data-service is sent holds a trade's record.                  *)
LEMMA RowType ==
  ASSUME NEW i \in 0..MaxDecisions, NEW record \in Trade PROVE Row(i, record) \in Rows
  BY DEF Row, Rows

(* Idle locals and the absent position have their types.                   *)
LEMMA NoWorkType == NoWork \in Work /\ NoPos \in Position
  BY PaperAssumption DEF NoWork, Work, NoPos, Position

(* A handler may end in any state without locals.                          *)
LEMMA FinishType ==
  ASSUME ProcessOK, NEW a \in Actors, NEW l \in {"idle", "done", "watch"}, Finish(a, l)
  PROVE  ProcessOK'
  BY NoWorkType, StepType DEF Finish, Labels

(* Each step of open_position keeps the types.                             *)
LEMMA OpenType == TypeOK /\ Open => TypeOK'
<1> SUFFICES ASSUME TypeOK, Open PROVE TypeOK'
  OBVIOUS
<1>c. Consumer \in Actors /\ RedisOK /\ ProcessOK /\ RestOK /\ HistoryOK
  BY DEF Actors, TypeOK
<1>w. work[Consumer] \in Work /\ budget.cash \in Int /\ budget.invested \in Nat
  BY <1>c DEF ProcessOK, RedisOK
<1>1. ASSUME OpenGate PROVE TypeOK'
  <2>1. ProcessOK'
    BY <1>1, <1>c, GotoType, FinishType DEF OpenGate, Labels
  <2> QED BY <1>1, <2>1, <1>c DEF OpenGate, TypeOK, RedisOK, RestOK, HistoryOK, redis, rest, watcher, history
<1>2. ASSUME NEW lot \in LotCosts, NEW cap \in LotCaps, OpenSize(lot, cap) PROVE TypeOK'
  <2> DEFINE max == MaxValue(budget.cash)
             fit == max \div lot
             lots == IF fit < cap THEN fit ELSE cap
             w == [work[Consumer] EXCEPT !.want.cost = lot * lots]
  <2>1. CASE lot > max
    <3>1. ProcessOK'
      BY <1>2, <1>c, <2>1, FinishType DEF OpenSize
    <3> QED BY <1>2, <3>1, <1>c DEF OpenSize, TypeOK, RedisOK, RestOK, HistoryOK, redis, rest, watcher, history
  <2>2. CASE ~(lot > max)
    <3>1. max \in Int
      BY <1>w, PaperAssumption DEF MaxValue
    <3>2. lot \in Nat \ {0} /\ cap \in Nat /\ lot <= max
      BY <2>2, <3>1, PaperAssumption
    <3>3. fit \in Nat
      BY <3>1, <3>2, LotsFit
    <3>4. lot * lots \in Nat
      BY <3>2, <3>3
    <3>5. w \in Work
      BY <3>4, <1>w DEF Work, Position
    <3>6. Step(Consumer, "fund", w) /\ pc[Consumer] = "size"
      BY <1>2, <2>2 DEF OpenSize
    <3>7. w.sym \in Symbols
      BY <3>6, <1>c, <1>w DEF ProcessOK, Work
    <3>8. ProcessOK'
      BY <3>5, <3>6, <3>7, <1>c, StepType DEF Labels
    <3> QED BY <1>2, <3>8, <1>c DEF OpenSize, TypeOK, RedisOK, RestOK, HistoryOK, redis, rest, watcher, history
  <2> QED BY <2>1, <2>2
<1>3. ASSUME AllocateGet PROVE TypeOK'
  <2> DEFINE w == [work[Consumer] EXCEPT !.cash = budget.cash, !.invested = budget.invested]
  <2>1. w \in Work /\ (pc[Consumer] = "fund" => w.sym \in Symbols)
    BY <1>c, <1>w DEF Work, ProcessOK
  <2>2. ProcessOK'
    BY <1>3, <1>c, <2>1, StepType, FinishType DEF AllocateGet, Labels
  <2> QED BY <1>3, <2>2, <1>c DEF AllocateGet, TypeOK, RedisOK, RestOK, HistoryOK, redis, rest, watcher, history
<1>4. ASSUME AllocateSet PROVE TypeOK'
  <2> DEFINE w == work[Consumer]
  <2>1. ProcessOK'
    BY <1>4, <1>c, GotoType DEF AllocateSet, Labels
  <2>2. w.cash \in Int /\ w.invested \in Nat /\ w.want.cost \in Nat
    BY <1>w DEF Work, Position
  <2>3. Commission(w.want.cost) \in Nat
    BY <2>2, CommissionType
  <2>4. budget' \in [cash : Int, invested : Nat]
    BY <1>4, <2>2, <2>3 DEF AllocateSet
  <2>5. charged' \in [Ids -> Nat]
    BY <1>4, <2>3, <1>c DEF AllocateSet, HistoryOK
  <2> QED BY <1>4, <2>1, <2>4, <2>5, <1>c DEF AllocateSet, TypeOK, RedisOK, RestOK, HistoryOK, redis, rest, watcher, history
<1>5. ASSUME PutPosition PROVE TypeOK'
  <2>1. ProcessOK'
    BY <1>5, <1>c, GotoType DEF PutPosition, Labels
  <2>2. positions' \in [Symbols -> Position]
    BY <1>5, <1>w, <1>c DEF PutPosition, Work, RedisOK
  <2> QED BY <1>5, <2>1, <2>2, <1>c DEF PutPosition, TypeOK, RedisOK, RestOK, HistoryOK, redis, rest, watcher, history
<1>6. ASSUME PutTrade PROVE TypeOK'
  <2>1. ProcessOK'
    BY <1>6, <1>c, GotoType DEF PutTrade, Labels
  <2>2. trades' \in [Ids -> Trade] /\ written' \in [Ids -> Trade]
    BY <1>6, <1>c, OpenTradeType DEF PutTrade, RedisOK, HistoryOK
  <2> QED BY <1>6, <2>1, <2>2, <1>c DEF PutTrade, TypeOK, RedisOK, RestOK, HistoryOK, redis, rest, watcher, history
<1>7. ASSUME PutOpenId PROVE TypeOK'
  <2>1. ProcessOK'
    BY <1>7, <1>c, GotoType DEF PutOpenId, Labels
  <2>3. sent' \subseteq Rows
    BY <1>7, <1>c, <1>w, RowType, OpenTradeType DEF PutOpenId, Post, RedisOK, Work, Position
  <2>2. openId' \in [Symbols -> 0..MaxDecisions]
    BY <1>7, <1>w, <1>c DEF PutOpenId, RedisOK, Work, Position
  <2> QED BY <1>7, <2>1, <2>2, <2>3, <1>c DEF PutOpenId, TypeOK, RedisOK, RestOK, HistoryOK, redis, rest, watcher, history
<1>8. ASSUME SaveOpen PROVE TypeOK'
  <2>1. ProcessOK'
    BY <1>8, <1>c, FinishType DEF SaveOpen
  <2>2. sent' \subseteq Rows
    BY <1>8, <1>c DEF SaveOpen, Return, RedisOK
  <2> QED BY <1>8, <2>1, <2>2, <1>c DEF SaveOpen, TypeOK, RedisOK, RestOK, HistoryOK, redis, rest, watcher, history
<1> QED BY <1>1, <1>2, <1>3, <1>4, <1>5, <1>6, <1>7, <1>8 DEF Open

(* close_position returns into one of its callers with well-typed locals.  *)
LEMMA AfterCloseType ==
  ASSUME ProcessOK, NEW a \in Actors, AfterClose(a), work[a].sym \in Symbols
  PROVE  ProcessOK'
  <1> DEFINE w == work[a]
             gate == [NoWork EXCEPT !.sym = w.sym, !.want = w.want]
             cool == [NoWork EXCEPT !.sym = w.sym]
  <1>1. gate \in Work /\ cool \in Work
    <2>1. w \in Work
      BY DEF ProcessOK
    <2> QED BY <2>1, NoWorkType DEF Work, NoWork
  <1>2. gate.sym \in Symbols /\ cool.sym \in Symbols
    BY DEF NoWork
  <1>3. CASE Step(a, "gate", gate)
    BY <1>1, <1>2, <1>3, StepType DEF Labels
  <1>4. CASE Step(a, "cool", cool)
    BY <1>1, <1>2, <1>4, StepType DEF Labels
  <1>5. CASE Finish(a, "done") \/ Finish(a, "watch")
    BY <1>5, FinishType
  <1> QED BY <1>3, <1>4, <1>5 DEF AfterClose

(* Each step of close_position keeps the types.                            *)
LEMMA CloseType == ASSUME TypeOK, NEW a \in Actors, Close(a) PROVE TypeOK'
<1>c. RedisOK /\ ProcessOK /\ RestOK /\ HistoryOK
  BY DEF TypeOK
<1>w. work[a] \in Work /\ budget.cash \in Int /\ budget.invested \in Nat
  BY <1>c DEF ProcessOK, RedisOK
<1>s. pc[a] \notin {"idle", "done", "watch"} => work[a].sym \in Symbols
  BY <1>c DEF ProcessOK
<1>p. ASSUME NEW x \in Position, NEW g \in Int
      PROVE  BudgetPnl(x, g) \in Int /\ TradePnl(x, g) \in Int
  <2>1. x.cost \in Nat /\ x.cost + g \in Int
    BY DEF Position
  <2>2. Commission(x.cost + g) \in Nat /\ Commission(x.cost) \in Nat
    BY <2>1, CommissionType
  <2> QED BY <2>1, <2>2 DEF BudgetPnl, TradePnl
<1>1. ASSUME NEW g \in Moves, ClosePosition(a, g) PROVE TypeOK'
  <2> DEFINE q == positions[work[a].sym]
             w == [work[a] EXCEPT !.pos = q, !.gross = g]
  <2>1. CASE q = NoPos
    <3>1. ProcessOK'
      BY <1>1, <2>1, <1>c, <1>s, AfterCloseType DEF ClosePosition
    <3> QED BY <1>1, <3>1, <1>c DEF ClosePosition, TypeOK, RedisOK, RestOK, HistoryOK, redis, rest, watcher, history
  <2>2. CASE q # NoPos
    <3>1. pc[a] = "close" /\ Step(a, "find_id", w)
      BY <1>1, <2>2 DEF ClosePosition
    <3>2. work[a].sym \in Symbols /\ q \in Position /\ g \in Int
      BY <3>1, <1>s, <1>c, PaperAssumption DEF RedisOK
    <3>3. w \in Work /\ w.sym \in Symbols
      BY <3>2, <1>w DEF Work
    <3>4. ProcessOK'
      BY <3>1, <3>3, <1>c, StepType DEF Labels
    <3> QED BY <1>1, <3>4, <1>c DEF ClosePosition, TypeOK, RedisOK, RestOK, HistoryOK, redis, rest, watcher, history
  <2> QED BY <2>1, <2>2
<1>2. ASSUME FindId(a) PROVE TypeOK'
  <2> DEFINE w == [work[a] EXCEPT !.tid = openId[work[a].sym]]
  <2>1. work[a].sym \in Symbols
    BY <1>2, <1>s DEF FindId
  <2>2. w \in Work /\ w.sym \in Symbols
    BY <2>1, <1>w, <1>c DEF Work, RedisOK
  <2>3. ProcessOK'
    BY <1>2, <2>2, <1>c, StepType DEF FindId, Labels
  <2> QED BY <1>2, <2>3, <1>c DEF FindId, TypeOK, RedisOK, RestOK, HistoryOK, redis, rest, watcher, history
<1>3. ASSUME FindTrade(a) PROVE TypeOK'
  <2> DEFINE w == [work[a] EXCEPT !.tid = IF trades[@] = NoTrade THEN 0 ELSE @]
  <2>1. work[a].sym \in Symbols
    BY <1>3, <1>s DEF FindTrade
  <2>2. w \in Work /\ w.sym \in Symbols
    BY <2>1, <1>w, PaperAssumption DEF Work
  <2>3. ProcessOK'
    BY <1>3, <2>2, <1>c, StepType DEF FindTrade, Labels
  <2> QED BY <1>3, <2>3, <1>c DEF FindTrade, TypeOK, RedisOK, RestOK, HistoryOK, redis, rest, watcher, history
<1>4. ASSUME DelOpenId(a) PROVE TypeOK'
  <2>1. ProcessOK'
    BY <1>4, <1>c, GotoType DEF DelOpenId, Labels, Untraded
  <2>2. openId' \in [Symbols -> 0..MaxDecisions]
    <3>1. 0 \in 0..MaxDecisions
      BY PaperAssumption
    <3>2. openId' = [openId EXCEPT ![work[a].sym] = 0]
      BY <1>4 DEF DelOpenId, Unindexed
    <3> QED BY <3>1, <3>2, <1>c DEF RedisOK
  <2> QED BY <1>4, <2>1, <2>2, <1>c DEF DelOpenId, TypeOK, RedisOK, RestOK, HistoryOK, redis, rest, watcher, history
<1>t. ClosedTrade(work[a]) \in Trade
  BY <1>w, <1>p DEF ClosedTrade, Trade, Work
<1>5. ASSUME LogClose(a) PROVE TypeOK'
  <2>1. ProcessOK'
    BY <1>5, <1>c, GotoType DEF LogClose, Labels
  <2>2. trades' \in [Ids -> Trade] /\ written' \in [Ids -> Trade]
    BY <1>5, <1>c, <1>t DEF LogClose, RedisOK, HistoryOK
  <2>3. sent' \subseteq Rows
    BY <1>5, <1>c, <1>w, <1>t, RowType DEF LogClose, Post, Payload, RedisOK, Work
  <2> QED BY <1>5, <2>1, <2>2, <2>3, <1>c DEF LogClose, TypeOK, RedisOK, RestOK, HistoryOK, redis, rest, watcher, history
<1>6. ASSUME SaveClose(a) PROVE TypeOK'
  <2>1. ProcessOK'
    BY <1>6, <1>c, GotoType DEF SaveClose, Labels
  <2>2. sent' \subseteq Rows
    BY <1>6, <1>c DEF SaveClose, Return, RedisOK
  <2> QED BY <1>6, <2>1, <2>2, <1>c DEF SaveClose, TypeOK, RedisOK, RestOK, HistoryOK, redis, rest, watcher, history
<1>7. ASSUME ReleaseGet(a) PROVE TypeOK'
  <2> DEFINE w == [work[a] EXCEPT !.cash = budget.cash, !.invested = budget.invested]
  <2>1. w \in Work /\ w.sym \in Symbols
    BY <1>7, <1>s, <1>w DEF Work, ReleaseGet
  <2>2. ProcessOK'
    BY <1>7, <2>1, <1>c, StepType DEF ReleaseGet, Labels
  <2> QED BY <1>7, <2>2, <1>c DEF ReleaseGet, TypeOK, RedisOK, RestOK, HistoryOK, redis, rest, watcher, history
<1>8. ASSUME ReleaseSet(a) PROVE TypeOK'
  <2>1. ProcessOK'
    BY <1>8, <1>c, GotoType DEF ReleaseSet, Labels
  <2>2. /\ work[a].pos \in Position /\ work[a].pos.cost \in Nat
        /\ work[a].cash \in Int /\ work[a].invested \in Nat
        /\ work[a].gross \in Int
    BY <1>w DEF Work, Position
  <2>3. BudgetPnl(work[a].pos, work[a].gross) \in Int
    BY <2>2, <1>p
  <2>4. budget' \in [cash : Int, invested : Nat]
    BY <1>8, <2>2, <2>3 DEF ReleaseSet, Released
  <2>5. settled' \in [Ids -> Nat]
    <3> DEFINE i == work[a].pos.dec
    <3>1. settled' = [settled EXCEPT ![i] = settled[i] + 1] /\ settled \in [Ids -> Nat]
      BY <1>8, <1>c DEF ReleaseSet, HistoryOK
    <3>2. CASE i \in Ids
      BY <3>1, <3>2
    <3>3. CASE i \notin Ids
      BY <3>1, <3>3
    <3> QED BY <3>2, <3>3
  <2> QED BY <1>8, <2>1, <2>4, <2>5, <1>c DEF ReleaseSet, TypeOK, RedisOK, RestOK, HistoryOK, redis, rest, watcher, history
<1>9. ASSUME DelPosition(a) PROVE TypeOK'
  <2>1. ProcessOK'
    BY <1>9, <1>c, GotoType DEF DelPosition, Labels
  <2>2. positions' \in [Symbols -> Position]
    BY <1>9, <1>c, NoWorkType DEF DelPosition, Without, RedisOK
  <2> QED BY <1>9, <2>1, <2>2, <1>c DEF DelPosition, TypeOK, RedisOK, RestOK, HistoryOK, redis, rest, watcher, history
<1>10. ASSUME RealizedGet(a) PROVE TypeOK'
  <2> DEFINE w == [work[a] EXCEPT !.total = realized]
  <2>1. w \in Work /\ w.sym \in Symbols
    BY <1>10, <1>s, <1>w, <1>c DEF Work, RealizedGet, RedisOK
  <2>2. ProcessOK'
    BY <1>10, <2>1, <1>c, StepType DEF RealizedGet, Labels
  <2> QED BY <1>10, <2>2, <1>c DEF RealizedGet, TypeOK, RedisOK, RestOK, HistoryOK, redis, rest, watcher, history
<1>11. ASSUME RealizedSet(a) PROVE TypeOK'
  <2>1. ProcessOK'
    BY <1>11, <1>c, <1>s, AfterCloseType DEF RealizedSet
  <2>2. realized' \in Int
    BY <1>11, <1>w, <1>p DEF RealizedSet, Work
  <2> QED BY <1>11, <2>1, <2>2, <1>c DEF RealizedSet, TypeOK, RedisOK, RestOK, HistoryOK, redis, rest, watcher, history
<1> QED BY <1>1, <1>2, <1>3, <1>4, <1>5, <1>6, <1>7, <1>8, <1>9, <1>10, <1>11 DEF Close

(* Each step of the watcher keeps the types.                               *)
LEMMA WatchType == TypeOK /\ Watch => TypeOK'
<1> SUFFICES ASSUME TypeOK, Watch PROVE TypeOK'
  OBVIOUS
<1>c. Consumer \in Actors /\ RedisOK /\ ProcessOK /\ RestOK /\ HistoryOK
  BY DEF Actors, TypeOK
<1>1. ASSUME WatchStart PROVE TypeOK'
  <2>1. work[Consumer] \in Work
    BY <1>c DEF ProcessOK
  <2>2. ProcessOK'
    BY <1>1, <1>c, <2>1, StepType DEF WatchStart, Goto, Labels
  <2>3. overlap' \in BOOLEAN /\ dirty' \in BOOLEAN
    BY <1>1 DEF WatchStart, Enter
  <2> QED BY <1>1, <2>2, <2>3, <1>c DEF WatchStart, TypeOK, RedisOK, RestOK, HistoryOK, redis, rest, watcher, history
<1>2. ASSUME NEW s \in Symbols, WatchKeep(s) PROVE TypeOK'
  <2>1. todo' \in [Symbols -> Position]
    BY <1>2, <1>c, NoWorkType DEF WatchKeep, RestOK
  <2>2. ProcessOK'
    BY <1>2, <1>c DEF WatchKeep, ProcessOK
  <2> QED BY <1>2, <2>1, <2>2, <1>c DEF WatchKeep, TypeOK, RedisOK, RestOK, HistoryOK, redis, rest, watcher, history
<1>3. ASSUME NEW s \in Symbols, WatchBump(s) PROVE TypeOK'
  <2>1. todo' \in [Symbols -> Position]
    BY <1>3, <1>c, NoWorkType DEF WatchBump, RestOK
  <2>2. [todo[s] EXCEPT !.peak = @ + 1] \in Position
    <3>1. todo[s] \in Position /\ todo[s].peak < PeakMax
      BY <1>3, <1>c DEF WatchBump, RestOK
    <3>2. todo[s].peak \in 0..PeakMax
      BY <3>1 DEF Position
    <3>3. todo[s].peak + 1 \in 0..PeakMax
      BY <3>1, <3>2, PaperAssumption
    <3> QED BY <3>1, <3>3 DEF Position
  <2>3. positions' \in [Symbols -> Position]
    BY <1>3, <1>c, <2>2 DEF WatchBump, RedisOK
  <2>4. ProcessOK'
    BY <1>3, <1>c DEF WatchBump, ProcessOK
  <2> QED BY <1>3, <2>1, <2>3, <2>4, <1>c DEF WatchBump, TypeOK, RedisOK, RestOK, HistoryOK, redis, rest, watcher, history
<1>4. ASSUME NEW s \in Symbols, NEW e \in {"STOP", "OTHER"}, WatchExit(s, e) PROVE TypeOK'
  <2> DEFINE w == [NoWork EXCEPT !.sym = s, !.exit = e]
  <2>1. w \in Work /\ w.sym \in Symbols
    BY NoWorkType DEF Work, NoWork
  <2>2. ProcessOK'
    BY <1>4, <1>c, <2>1, StepType DEF WatchExit, Labels
  <2>3. todo' \in [Symbols -> Position]
    BY <1>4, <1>c, NoWorkType DEF WatchExit, RestOK
  <2>4. stopped' \in SUBSET Symbols
    BY <1>4, <1>c DEF WatchExit, HistoryOK
  <2> QED BY <1>4, <2>2, <2>3, <2>4, <1>c DEF WatchExit, TypeOK, RedisOK, RestOK, HistoryOK, redis, rest, watcher, history
<1>5. ASSUME SetCooldown PROVE TypeOK'
  <2>1. ProcessOK'
    BY <1>5, <1>c, FinishType DEF SetCooldown
  <2>2. work[Consumer].sym \in Symbols
    BY <1>5, <1>c DEF SetCooldown, ProcessOK
  <2>3. cooldown' \in SUBSET Symbols
    <3>1. cooldown' = cooldown \cup {work[Consumer].sym}
      BY <1>5 DEF SetCooldown
    <3>2. cooldown \in SUBSET Symbols
      BY <1>c DEF RedisOK
    <3> QED BY <2>2, <3>1, <3>2
  <2> QED BY <1>5, <2>1, <2>3, <1>c DEF SetCooldown, TypeOK, RedisOK, RestOK, HistoryOK, redis, rest, watcher, history
<1>6. ASSUME WatchEnd PROVE TypeOK'
  <2>1. work[Consumer] \in Work
    BY <1>c DEF ProcessOK
  <2>2. ProcessOK'
    BY <1>6, <1>c, <2>1, StepType DEF WatchEnd, Goto, Labels
  <2> QED BY <1>6, <2>2, <1>c DEF WatchEnd, TypeOK, RedisOK, RestOK, HistoryOK, redis, rest, watcher, history
<1> QED BY <1>1, <1>2, <1>3, <1>4, <1>5, <1>6 DEF Watch

(* Type correctness: whatever runs, fails or restarts, every variable      *)
(* keeps its type and invested stays a natural number.                     *)
THEOREM TypeCorrect == Spec => []TypeOK
<1>1. Init => TypeOK
  <2> SUFFICES ASSUME Init PROVE TypeOK
    OBVIOUS
  <2>s. NoSnapshot \in [Symbols -> Position] /\ 0 \in 0..MaxDecisions
    BY PaperAssumption, NoWorkType DEF NoSnapshot
  <2>t. NoTrade \in Trade
    BY DEF NoTrade, Trade
  <2>1. RedisOK
    <3>1. openId \in [Symbols -> 0..MaxDecisions]
      BY <2>s DEF Init
    <3>2. trades \in [Ids -> Trade]
      BY <2>t DEF Init
    <3>3. budget \in [cash : Int, invested : Nat] /\ realized \in Int /\ cooldown \in SUBSET Symbols
      BY PaperAssumption DEF Init
    <3>4. positions \in [Symbols -> Position]
      BY <2>s DEF Init
    <3>5. sent \subseteq Rows
      BY DEF Init
    <3> QED BY <3>1, <3>2, <3>3, <3>4, <3>5 DEF RedisOK
  <2>2. ProcessOK
    <3>1. pc \in [Actors -> Labels] /\ \A a \in Actors : pc[a] = "idle"
      BY DEF Init, Labels
    <3>2. work \in [Actors -> Work]
      BY NoWorkType DEF Init
    <3> QED BY <3>1, <3>2 DEF ProcessOK
  <2>3. RestOK
    <3>1. todo \in [Symbols -> Position]
      BY <2>s DEF Init
    <3>2. 1 \in 1..(MaxDecisions + 1)
      BY PaperAssumption
    <3> QED BY <3>1, <3>2 DEF Init, RestOK
  <2>4. HistoryOK
    <3>1. 0 \in 0..MaxFaults
      BY PaperAssumption
    <3>2. charged \in [Ids -> Nat] /\ settled \in [Ids -> Nat]
      BY DEF Init
    <3>3. written \in [Ids -> Trade]
      BY <2>1 DEF Init, RedisOK
    <3> QED BY <3>1, <3>2, <3>3 DEF Init, HistoryOK
  <2> QED BY <2>1, <2>2, <2>3, <2>4 DEF TypeOK
<1>2. TypeOK /\ [Next]_vars => TypeOK'
  <2> SUFFICES ASSUME TypeOK, [Next]_vars PROVE TypeOK'
    OBVIOUS
  <2>c. Consumer \in Actors /\ RedisOK /\ ProcessOK /\ RestOK /\ HistoryOK
    BY DEF Actors, TypeOK
  <2>1. ASSUME NEW s \in Symbols, NEW side \in {"BUY", "SELL"}, Decide(s, side) PROVE TypeOK'
    <3> DEFINE want == [NoPos EXCEPT !.dec = nextDec, !.side = side]
               w == [NoWork EXCEPT !.sym = s, !.want = want]
    <3>1. want \in Position
      <4>1. nextDec \in 0..MaxDecisions
        BY <2>1, <2>c, PaperAssumption DEF Decide, RestOK
      <4> QED BY <4>1, NoWorkType DEF Position, NoPos
    <3>2. w \in Work /\ w.sym \in Symbols
      BY <3>1, NoWorkType DEF Work, NoWork
    <3>3. ProcessOK'
      BY <2>1, <2>c, <3>2, StepType DEF Decide, Labels
    <3>4. overlap' \in BOOLEAN /\ dirty' \in BOOLEAN
      BY <2>1 DEF Decide, Enter
    <3>5. nextDec' \in 1..(MaxDecisions + 1)
      BY <2>1, <2>c, PaperAssumption DEF Decide, RestOK
    <3> QED BY <2>1, <3>3, <3>4, <3>5, <2>c DEF Decide, TypeOK, RedisOK, RestOK, HistoryOK, redis, rest, watcher, history
  <2>2. CASE Open
    BY <2>2, OpenType
  <2>3. CASE Watch
    BY <2>3, WatchType
  <2>4. ASSUME NEW a \in Actors, Close(a) PROVE TypeOK'
    BY <2>4, CloseType
  <2>5. ASSUME NEW r \in Requests, NEW s \in Symbols, ManualClose(r, s) PROVE TypeOK'
    <3> DEFINE w == [NoWork EXCEPT !.sym = s, !.exit = "OTHER"]
    <3>1. w \in Work /\ w.sym \in Symbols /\ r \in Actors
      BY NoWorkType DEF Work, NoWork, Actors
    <3>2. ProcessOK'
      BY <2>5, <2>c, <3>1, StepType DEF ManualClose, Labels
    <3>3. overlap' \in BOOLEAN /\ dirty' \in BOOLEAN
      BY <2>5 DEF ManualClose, Enter
    <3> QED BY <2>5, <3>2, <3>3, <2>c DEF ManualClose, TypeOK, RedisOK, RestOK, HistoryOK, redis, rest, watcher, history
  <2>6. ASSUME NEW s \in Symbols, ExpireCooldown(s) PROVE TypeOK'
    <3>1. ProcessOK'
      BY <2>6, <2>c DEF ExpireCooldown, process, ProcessOK
    <3> QED BY <2>6, <3>1, <2>c DEF ExpireCooldown, process, TypeOK, RedisOK, RestOK, HistoryOK, redis, rest, watcher, history
  <2>7. CASE SessionEnd
    <3>1. ProcessOK'
      BY <2>7, <2>c DEF SessionEnd, ProcessOK
    <3> QED BY <2>7, <3>1, <2>c DEF SessionEnd, TypeOK, RedisOK, RestOK, HistoryOK, redis, rest, watcher, history
  <2>8. ASSUME NEW a \in Actors, Abort(a) PROVE TypeOK'
    <3>1. ProcessOK'
      BY <2>8, <2>c, FinishType DEF Abort, Failed
    <3>2. faults' \in 0..MaxFaults
      BY <2>8, <2>c, PaperAssumption DEF Abort, HistoryOK
    <3> QED BY <2>8, <3>1, <3>2, <2>c DEF Abort, TypeOK, RedisOK, RestOK, HistoryOK, redis, rest, watcher, history
  <2>9. CASE Crash
    <3>1. ProcessOK'
      BY <2>9, <2>c, NoWorkType DEF Crash, ProcessOK, Busy, Labels
    <3>2. faults' \in 0..MaxFaults
      BY <2>9, <2>c, PaperAssumption DEF Crash, HistoryOK
    <3>3. todo' \in [Symbols -> Position]
      BY <2>9, NoWorkType DEF Crash, NoSnapshot
    <3> QED BY <2>9, <3>1, <3>2, <3>3, <2>c DEF Crash, TypeOK, RedisOK, RestOK, HistoryOK, redis, rest, watcher, history
  <2>10. CASE Restart
    <3>1. ProcessOK'
      BY <2>10, <2>c DEF Restart, ProcessOK
    <3>2. budget' \in [cash : Int, invested : Nat]
      BY <2>10, <2>c, InvestedType DEF Restart, Reconciled, RedisOK
    <3> QED BY <2>10, <3>1, <3>2, <2>c DEF Restart, TypeOK, RedisOK, RestOK, HistoryOK, redis, rest, watcher, history
  <2>12. ASSUME NEW m \in sent, MirrorTrade(m) PROVE TypeOK'
    <3>1. ProcessOK'
      BY <2>12, <2>c DEF MirrorTrade, process, ProcessOK
    <3>2. trades' \in [Ids -> Trade] /\ sent' \subseteq Rows
      BY <2>12, <2>c DEF MirrorTrade, RedisOK, Rows
    <3> QED BY <2>12, <3>1, <3>2, <2>c DEF MirrorTrade, process, TypeOK, RedisOK, RestOK, HistoryOK, rest, watcher, history
  <2>11. CASE UNCHANGED vars
    <3>1. ProcessOK'
      BY <2>11, <2>c DEF vars, process, ProcessOK
    <3> QED BY <2>11, <3>1, <2>c DEF vars, process, TypeOK, RedisOK, RestOK, HistoryOK, redis, rest, watcher, history
  <2> QED BY <2>1, <2>2, <2>3, <2>4, <2>5, <2>6, <2>7, <2>8, <2>9, <2>10, <2>11, <2>12 DEF Next
<1> QED BY <1>1, <1>2, PTL DEF Spec
-----------------------------------------------------------------------------
(* No re-entry between a stop and the end of its cooldown.                 *)

(* The consumer's close of s after a stop, up to HDEL and up to SETEX.     *)
Deleting == {"close", "find_id", "find_trade", "del_id", "log", "save_close",
             "balance", "release", "del_pos"}
Stopping(s) == /\ pc[Consumer] \in Deleting \cup {"total", "record", "cool"}
               /\ work[Consumer].sym = s
               /\ work[Consumer].want = NoPos
               /\ work[Consumer].exit = "STOP" \/ pc[Consumer] = "cool"
Emptying(s) == Stopping(s) /\ pc[Consumer] \in Deleting
Entering(s) == pc[Consumer] \in {"size", "fund", "debit", "put"} /\ work[Consumer].sym = s

(* A stopped symbol is off the watcher's list, it is cooling down or about *)
(* to be, its position is gone or about to go, and no decision on it is    *)
(* past the gates.                                                         *)
StopKept(s) ==
  /\ todo[s] = NoPos
  /\ s \in cooldown \/ Stopping(s)
  /\ positions[s] = NoPos \/ Emptying(s)
  /\ ~Entering(s)
StopInv == faults = 0 => \A s \in stopped : StopKept(s)

(* Each step of open_position keeps it: past the gate, the symbol was not  *)
(* cooling down and nothing stops a symbol while the consumer is opening.  *)
LEMMA StopOpen ==
  ASSUME TypeOK, StopInv, Open, faults' = 0, NEW s \in stopped'
  PROVE  StopKept(s)'
<1>c. /\ Consumer \in Actors
      /\ pc \in [Actors -> Labels] /\ work \in [Actors -> Work]
      /\ positions \in [Symbols -> Position]
  BY DEF Actors, TypeOK, RedisOK, ProcessOK
<1>1. faults = 0 /\ s \in stopped /\ stopped' = stopped /\ todo' = todo /\ cooldown' = cooldown
  BY DEF Open, OpenGate, OpenSize, AllocateGet, AllocateSet, PutPosition, PutTrade, PutOpenId,
         SaveOpen, redis, rest, watcher, history
<1>2. StopKept(s)
  BY <1>1 DEF StopInv
<1>3. pc[Consumer] \in {"gate", "size", "fund", "debit", "put", "put_trade", "put_id", "save"}
  BY DEF Open, OpenGate, OpenSize, AllocateGet, AllocateSet, PutPosition, PutTrade, PutOpenId, SaveOpen
<1>4. todo[s] = NoPos /\ s \in cooldown /\ positions[s] = NoPos /\ ~Entering(s)
  BY <1>2, <1>3 DEF StopKept, Stopping, Emptying, Deleting
<1>5. positions'[s] = NoPos
  <2>1. CASE PutPosition
    <3>1. work[Consumer].sym # s
      BY <2>1, <1>4 DEF PutPosition, Entering
    <3> QED BY <2>1, <3>1, <1>4, <1>c DEF PutPosition
  <2>2. CASE ~PutPosition
    BY <2>2, <1>4 DEF Open, OpenGate, OpenSize, AllocateGet, AllocateSet, PutTrade, PutOpenId, SaveOpen, redis
  <2> QED BY <2>1, <2>2
<1>6. ~Entering(s)'
  <2>1. CASE OpenGate
    BY <2>1, <1>4, <1>c DEF OpenGate, MayOpen, Goto, Finish, Step, Entering
  <2>2. ASSUME NEW lot \in LotCosts, NEW cap \in LotCaps, OpenSize(lot, cap) PROVE ~Entering(s)'
    <3>1. work[Consumer].sym # s
      BY <2>2, <1>4 DEF OpenSize, Entering
    <3>2. CASE lot > MaxValue(budget.cash)
      BY <2>2, <3>2, <1>c DEF OpenSize, Finish, Step, Entering
    <3>3. CASE ~(lot > MaxValue(budget.cash))
      <4>1. PICK c : work' = [work EXCEPT ![Consumer] = [work[Consumer] EXCEPT !.want.cost = c]]
        BY <2>2, <3>3 DEF OpenSize, Step
      <4>2. work'[Consumer].sym = work[Consumer].sym
        BY <4>1, <1>c DEF Work
      <4> QED BY <4>2, <3>1 DEF Entering
    <3> QED BY <3>2, <3>3
  <2>3. CASE AllocateGet
    <3>1. work[Consumer].sym # s
      BY <2>3, <1>4 DEF AllocateGet, Entering
    <3> QED BY <2>3, <3>1, <1>c DEF AllocateGet, Finish, Step, Entering, Work
  <2>4. CASE AllocateSet
    BY <2>4, <1>4, <1>c DEF AllocateSet, Goto, Step, Entering
  <2>5. CASE PutPosition \/ PutTrade \/ PutOpenId \/ SaveOpen
    BY <2>5, <1>c DEF PutPosition, PutTrade, PutOpenId, SaveOpen, Goto, Finish, Step, Entering
  <2> QED BY <2>1, <2>2, <2>3, <2>4, <2>5 DEF Open
<1> QED BY <1>1, <1>4, <1>5, <1>6 DEF StopKept

(* close_position keeps it, whoever runs it: only a close of the consumer  *)
(* ends in SETEX, and it gets there in every case.                         *)
LEMMA StopClose ==
  ASSUME TypeOK, StopInv, NEW a \in Actors, Close(a), faults' = 0, NEW s \in stopped'
  PROVE  StopKept(s)'
<1>c. /\ Consumer \in Actors
      /\ pc \in [Actors -> Labels] /\ work \in [Actors -> Work]
      /\ positions \in [Symbols -> Position]
  BY DEF Actors, TypeOK, RedisOK, ProcessOK
<1>1. faults = 0 /\ s \in stopped /\ todo' = todo /\ cooldown' = cooldown
  BY DEF Close, ClosePosition, FindId, FindTrade, DelOpenId, LogClose, SaveClose, ReleaseGet,
         ReleaseSet, DelPosition, RealizedGet, RealizedSet, redis, rest, watcher, history
<1>2. StopKept(s)
  BY <1>1 DEF StopInv
<1>s. s \in Symbols
  BY <1>1 DEF TypeOK, HistoryOK
<1>3. positions'[s] \in {positions[s], NoPos}
  <2>1. CASE DelPosition(a)
    BY <2>1, <1>c, <1>s DEF DelPosition, Without
  <2>2. CASE ~DelPosition(a)
    BY <2>2 DEF Close, ClosePosition, FindId, FindTrade, DelOpenId, LogClose, SaveClose,
       ReleaseGet, ReleaseSet, RealizedGet, RealizedSet, redis
  <2> QED BY <2>1, <2>2
<1>4. CASE a # Consumer
  <2>1. pc'[Consumer] = pc[Consumer] /\ work'[Consumer] = work[Consumer]
    BY <1>4, <1>c DEF Close, ClosePosition, FindId, FindTrade, DelOpenId, LogClose, SaveClose,
       ReleaseGet, ReleaseSet, DelPosition, RealizedGet, RealizedSet, AfterClose, Finish, Goto, Step
  <2> QED BY <1>1, <1>2, <1>3, <2>1 DEF StopKept, Stopping, Emptying, Entering
<1>5. CASE a = Consumer
  <2> USE <1>5
  <2>1. pc[Consumer] \in Deleting \cup {"total", "record"}
    BY DEF Close, ClosePosition, FindId, FindTrade, DelOpenId, LogClose, SaveClose, ReleaseGet,
           ReleaseSet, DelPosition, RealizedGet, RealizedSet, Deleting
  <2>2. ASSUME AfterClose(Consumer), positions[s] = NoPos, positions' = positions
        PROVE  StopKept(s)'
    <3>1. pc'[Consumer] \in {"gate", "cool", "watch"}
      BY <2>2, <1>c DEF AfterClose, Finish, Step
    <3>2. Stopping(s) => Stopping(s)'
      BY <2>2, <2>1, <1>c DEF AfterClose, Step, Stopping, Deleting, NoWork
    <3> QED BY <2>2, <3>1, <3>2, <1>1, <1>2 DEF StopKept, Entering
  <2>3. ASSUME /\ pc'[Consumer] \in Deleting \cup {"total", "record"}
               /\ work'[Consumer].sym = work[Consumer].sym
               /\ work'[Consumer].want = work[Consumer].want
               /\ work'[Consumer].exit = work[Consumer].exit
               /\ pc'[Consumer] \in Deleting \/ positions'[s] = NoPos \/ positions[s] = NoPos
                  \/ work[Consumer].sym # s
        PROVE  StopKept(s)'
    <3>1. Stopping(s) => Stopping(s)'
      BY <2>1, <2>3 DEF Stopping, Deleting
    <3>2. ~Entering(s)'
      BY <2>3 DEF Entering, Deleting
    <3>3. positions'[s] = NoPos \/ Emptying(s)'
      BY <2>3, <3>1, <1>2, <1>3 DEF StopKept, Emptying, Stopping
    <3> QED BY <1>1, <1>2, <3>1, <3>2, <3>3 DEF StopKept
  <2>4. ASSUME NEW g \in Moves, ClosePosition(Consumer, g) PROVE StopKept(s)'
    <3>1. CASE positions[work[Consumer].sym] # NoPos
      <4>1. /\ pc' = [pc EXCEPT ![Consumer] = "find_id"]
            /\ work' = [work EXCEPT ![Consumer] =
                 [work[Consumer] EXCEPT !.pos = positions[work[Consumer].sym], !.gross = g]]
        BY <2>4, <3>1 DEF ClosePosition, Step
      <4> QED BY <4>1, <2>3, <1>c DEF Deleting, Work
    <3>2. CASE positions[work[Consumer].sym] = NoPos
      <4>1. AfterClose(Consumer) /\ positions' = positions
        BY <2>4, <3>2 DEF ClosePosition, redis
      <4>2. positions[s] = NoPos
        BY <3>2, <1>2 DEF StopKept, Emptying, Stopping
      <4> QED BY <4>1, <4>2, <2>2
    <3> QED BY <3>1, <3>2
  <2>5. CASE FindId(Consumer) \/ FindTrade(Consumer)
    BY <2>5, <2>3, <1>c DEF FindId, FindTrade, Step, Deleting, Work
  <2>6. CASE DelOpenId(Consumer) \/ LogClose(Consumer) \/ ReleaseSet(Consumer)
    BY <2>6, <2>3, <1>c DEF DelOpenId, LogClose, ReleaseSet, Goto, Step, Untraded, Deleting
  <2>7. ASSUME SaveClose(Consumer) PROVE StopKept(s)'
    BY <2>7, <2>3, <1>c DEF SaveClose, Goto, Step, Deleting
  <2>8. CASE ReleaseGet(Consumer)
    BY <2>8, <2>3, <1>c DEF ReleaseGet, Step, Deleting, Work
  <2>9. CASE DelPosition(Consumer)
    <3>1. positions'[s] = NoPos \/ work[Consumer].sym # s
      BY <2>9, <1>c, <1>s DEF DelPosition, Without
    <3> QED BY <2>9, <3>1, <2>3, <1>c DEF DelPosition, Goto, Step
  <2>10. CASE RealizedGet(Consumer)
    <3>1. work[Consumer].sym # s \/ positions[s] = NoPos
      BY <2>10, <1>2 DEF RealizedGet, StopKept, Emptying, Deleting
    <3> QED BY <2>10, <3>1, <2>3, <1>c DEF RealizedGet, Step, Work
  <2>11. CASE RealizedSet(Consumer)
    <3>1. positions[s] = NoPos
      BY <2>11, <1>2 DEF RealizedSet, StopKept, Emptying, Deleting
    <3> QED BY <2>11, <3>1, <2>2 DEF RealizedSet
  <2> QED BY <2>4, <2>5, <2>6, <2>7, <2>8, <2>9, <2>10, <2>11 DEF Close
<1> QED BY <1>4, <1>5

(* The watcher stops a symbol only from its snapshot, where a stopped      *)
(* symbol is no more, and starts over only when the cooldown is set.       *)
LEMMA StopWatch ==
  ASSUME TypeOK, StopInv, Watch, faults' = 0, NEW s \in stopped'
  PROVE  StopKept(s)'
<1>c. /\ Consumer \in Actors
      /\ pc \in [Actors -> Labels] /\ work \in [Actors -> Work]
      /\ positions \in [Symbols -> Position] /\ todo \in [Symbols -> Position]
      /\ stopped \in SUBSET Symbols
  BY DEF Actors, TypeOK, RedisOK, ProcessOK, RestOK, HistoryOK
<1>f. faults = 0
  BY DEF Watch, WatchStart, WatchKeep, WatchBump, WatchExit, SetCooldown, WatchEnd, history
<1>k. ASSUME s \in stopped PROVE StopKept(s)
  BY <1>k, <1>f DEF StopInv
<1>1. CASE WatchStart
  <2>1. StopKept(s) /\ pc[Consumer] = "idle" /\ pc'[Consumer] = "watch"
    BY <1>1, <1>k, <1>c DEF WatchStart, Goto, Step
  <2>2. positions[s] = NoPos /\ s \in cooldown
    BY <2>1 DEF StopKept, Emptying, Stopping, Deleting
  <2> QED BY <1>1, <2>1, <2>2 DEF WatchStart, StopKept, Entering, redis
<1>2. ASSUME NEW x \in Symbols, WatchKeep(x) PROVE StopKept(s)'
  <2>1. StopKept(s) /\ todo'[s] = NoPos
    BY <1>2, <1>k, <1>c DEF WatchKeep, StopKept, history
  <2> QED BY <1>2, <2>1 DEF WatchKeep, StopKept, Stopping, Emptying, Entering, redis
<1>3. ASSUME NEW x \in Symbols, WatchBump(x) PROVE StopKept(s)'
  <2>1. StopKept(s) /\ s # x
    BY <1>3, <1>k DEF WatchBump, StopKept, history
  <2>2. todo'[s] = todo[s] /\ positions'[s] = positions[s]
    BY <1>3, <2>1, <1>c DEF WatchBump, history
  <2> QED BY <1>3, <2>1, <2>2 DEF WatchBump, StopKept, Stopping, Emptying, Entering
<1>4. ASSUME NEW x \in Symbols, NEW e \in {"STOP", "OTHER"}, WatchExit(x, e) PROVE StopKept(s)'
  <2>1. /\ pc[Consumer] = "watch" /\ pc'[Consumer] = "close"
        /\ work'[Consumer] = [NoWork EXCEPT !.sym = x, !.exit = e]
        /\ todo' = [todo EXCEPT ![x] = NoPos]
        /\ positions' = positions /\ cooldown' = cooldown
    BY <1>4, <1>c DEF WatchExit, Step, redis
  <2>2. ~Entering(s)'
    BY <2>1 DEF Entering
  <2>3. CASE s \in stopped
    <3>1. StopKept(s) /\ s \in cooldown /\ positions[s] = NoPos
      BY <2>1, <2>3, <1>k DEF StopKept, Emptying, Stopping, Deleting
    <3> QED BY <2>1, <2>2, <3>1, <1>c DEF StopKept
  <2>4. CASE s \notin stopped
    <3>1. s = x /\ e = "STOP"
      BY <2>4, <1>4 DEF WatchExit
    <3>2. Stopping(s)' /\ Emptying(s)'
      BY <2>1, <3>1 DEF Stopping, Emptying, Deleting, NoWork
    <3>3. todo'[s] = NoPos
      BY <2>1, <3>1, <1>c
    <3> QED BY <2>2, <3>2, <3>3 DEF StopKept
  <2> QED BY <2>3, <2>4
<1>5. CASE SetCooldown
  <2>1. StopKept(s) /\ pc[Consumer] = "cool" /\ pc'[Consumer] = "watch"
    BY <1>5, <1>k, <1>c DEF SetCooldown, Finish, Step, history
  <2>2. positions[s] = NoPos /\ s \in cooldown'
    BY <1>5, <2>1 DEF SetCooldown, StopKept, Emptying, Stopping, Deleting
  <2> QED BY <1>5, <2>1, <2>2 DEF SetCooldown, StopKept, Entering, rest, watcher
<1>6. CASE WatchEnd
  <2>1. StopKept(s) /\ pc[Consumer] = "watch" /\ pc'[Consumer] = "idle"
    BY <1>6, <1>k, <1>c DEF WatchEnd, Goto, Step, history
  <2>2. positions[s] = NoPos /\ s \in cooldown
    BY <2>1 DEF StopKept, Emptying, Stopping, Deleting
  <2> QED BY <1>6, <2>1, <2>2 DEF WatchEnd, StopKept, Entering, redis
<1> QED BY <1>1, <1>2, <1>3, <1>4, <1>5, <1>6 DEF Watch

(* Every step keeps it while nothing fails.                                *)
LEMMA StopStep == TypeOK /\ StopInv /\ [Next]_vars => StopInv'
<1> SUFFICES ASSUME TypeOK, StopInv, [Next]_vars, faults' = 0, NEW s \in stopped'
             PROVE  StopKept(s)'
  BY DEF StopInv
<1>c. /\ Consumer \in Actors
      /\ pc \in [Actors -> Labels] /\ work \in [Actors -> Work]
      /\ faults \in Nat
  BY DEF Actors, TypeOK, ProcessOK, HistoryOK
<1>k. ASSUME s \in stopped, faults = 0 PROVE StopKept(s)
  BY <1>k DEF StopInv
<1>1. ASSUME NEW x \in Symbols, NEW side \in {"BUY", "SELL"}, Decide(x, side) PROVE StopKept(s)'
  <2>1. StopKept(s) /\ pc[Consumer] = "idle" /\ pc'[Consumer] \in {"gate", "close"}
    BY <1>1, <1>k, <1>c DEF Decide, Step
  <2>2. positions[s] = NoPos /\ s \in cooldown
    BY <2>1 DEF StopKept, Emptying, Stopping, Deleting
  <2> QED BY <1>1, <2>1, <2>2 DEF Decide, StopKept, Entering, redis, watcher
<1>2. CASE Open
  BY <1>2, StopOpen
<1>3. CASE Watch
  BY <1>3, StopWatch
<1>4. ASSUME NEW a \in Actors, Close(a) PROVE StopKept(s)'
  BY <1>4, StopClose
<1>5. ASSUME NEW r \in Requests, NEW x \in Symbols, ManualClose(r, x) PROVE StopKept(s)'
  <2>1. StopKept(s) /\ pc'[Consumer] = pc[Consumer] /\ work'[Consumer] = work[Consumer]
    BY <1>5, <1>k, <1>c, PaperAssumption DEF ManualClose, Step
  <2> QED BY <1>5, <2>1 DEF ManualClose, StopKept, Stopping, Emptying, Entering, redis, rest, watcher
<1>6. ASSUME NEW x \in Symbols, ExpireCooldown(x) PROVE StopKept(s)'
  <2>1. StopKept(s) /\ s # x
    BY <1>6, <1>k DEF ExpireCooldown
  <2> QED BY <1>6, <2>1 DEF ExpireCooldown, StopKept, Stopping, Emptying, Entering, process, rest, watcher
<1>7. CASE SessionEnd
  BY <1>7, <1>k DEF SessionEnd, StopKept, Stopping, Emptying, Entering, redis, watcher, history
<1>8. CASE Crash \/ \E a \in Actors : Abort(a)
  <2>1. faults' = faults + 1
    BY <1>8 DEF Crash, Abort
  <2> QED BY <2>1, <1>c
<1>9. CASE Restart
  BY <1>9, <1>k DEF Restart, StopKept, Stopping, Emptying, Entering, watcher
<1>10. CASE UNCHANGED vars
  BY <1>10, <1>k DEF vars, redis, process, rest, watcher, history,
     StopKept, Stopping, Emptying, Entering
<1>11. ASSUME NEW m \in sent, MirrorTrade(m) PROVE StopKept(s)'
  BY <1>11, <1>k DEF MirrorTrade, process, rest, watcher, history,
     StopKept, Stopping, Emptying, Entering
<1> QED BY <1>1, <1>2, <1>3, <1>4, <1>5, <1>6, <1>7, <1>8, <1>9, <1>10, <1>11 DEF Next

(* A step from a state that satisfies it opens nothing on a stopped symbol *)
(* and, for the one the watcher may write back, leaves its decision alone. *)
LEMMA StopNoEntry ==
  ASSUME TypeOK, StopInv, [Next]_vars, faults = 0, NEW s \in stopped
  PROVE  positions'[s].dec \in {0, positions[s].dec}
<1>c. positions \in [Symbols -> Position] /\ s \in Symbols /\ StopKept(s)
  BY DEF TypeOK, RedisOK, HistoryOK, StopInv
<1>1. CASE PutPosition
  <2>1. work[Consumer].sym # s
    BY <1>1, <1>c DEF PutPosition, StopKept, Entering
  <2> QED BY <1>1, <2>1, <1>c DEF PutPosition
<1>2. ASSUME NEW x \in Symbols, WatchBump(x) PROVE positions'[s] = positions[s]
  <2>1. s # x
    BY <1>2, <1>c DEF WatchBump, StopKept
  <2> QED BY <1>2, <2>1, <1>c DEF WatchBump
<1>3. ASSUME NEW a \in Actors, DelPosition(a) PROVE positions'[s] \in {NoPos, positions[s]}
  BY <1>3, <1>c DEF DelPosition, Without
<1>4. CASE /\ ~PutPosition /\ ~\E x \in Symbols : WatchBump(x)
           /\ ~\E a \in Actors : DelPosition(a)
  <2>1. positions' = positions
    <3>1. Open => positions' = positions
      BY <1>4 DEF Open, OpenGate, OpenSize, AllocateGet, AllocateSet, PutTrade, PutOpenId, SaveOpen, redis
    <3>2. Watch => positions' = positions
      BY <1>4 DEF Watch, WatchStart, WatchKeep, WatchExit, SetCooldown, WatchEnd, redis
    <3>3. (\E a \in Actors : Close(a)) => positions' = positions
      BY <1>4 DEF Close, ClosePosition, FindId, FindTrade, DelOpenId, LogClose, SaveClose,
         ReleaseGet, ReleaseSet, RealizedGet, RealizedSet, redis
    <3> QED BY <3>1, <3>2, <3>3 DEF Next, Decide, ManualClose, ExpireCooldown, MirrorTrade,
               SessionEnd, Abort, Crash, Restart, vars, redis
  <2> QED BY <2>1
<1>5. NoPos.dec = 0
  BY DEF NoPos
<1> QED BY <1>1, <1>2, <1>3, <1>4, <1>5

(* No position is opened on a stopped symbol before its cooldown is over,  *)
(* at whatever moments manual closes, decisions and the watcher interleave *)
(* (main.py:1019-1028), as long as no handler fails half way.              *)
THEOREM NoReentry == Spec => NoReentryAfterStop
<1>1. Init => StopInv
  BY DEF Init, StopInv
<1>2. TypeOK /\ StopInv /\ [Next]_vars
        => [faults = 0 => \A s \in stopped : positions'[s].dec \in {0, positions[s].dec}]_vars
  BY StopNoEntry
<1> QED BY <1>1, <1>2, TypeCorrect, StopStep, PTL DEF Spec, NoReentryAfterStop


-----------------------------------------------------------------------------
(* One handler at a time.                                                  *)

Closing  == {"find_id", "find_trade", "del_id", "log", "save_close", "balance", "release",
             "del_pos"}
Opening  == {"size", "fund", "debit", "put"}
Recorded == {"put_trade", "put_id", "save"}
Decided  == {"idle", "gate"} \cup Opening \cup Recorded

(* No handler has met another, or none since the last restart.             *)
Single  == ~overlap \/ ~dirty

(* What the consumer is about to open, and where it is at work.            *)
Want    == work[Consumer].want
OpenSym == work[Consumer].sym

(* Nothing runs in a stopped service; where the consumer's locals and the  *)
(* watcher's snapshot may be in use; every position stands for a decision. *)
Downed == ~up => todo = NoSnapshot /\ \A a \in Actors : ~Busy(a)
Roles  == /\ \A a \in Actors \ {Consumer} :
               pc[a] \in {"idle", "done", "close", "total", "record"} \cup Closing
          /\ pc[Consumer] # "done"
          /\ pc[Consumer] \in {"idle", "watch"} => Want = NoPos
          /\ pc[Consumer] \in Decided \/ Want # NoPos => todo = NoSnapshot
          /\ pc[Consumer] \in {"gate"} \cup Opening \cup Recorded => Want # NoPos
          /\ pc[Consumer] \in Closing \cup {"close", "total", "record"} => todo[OpenSym] = NoPos
RealPos(p) == p = NoPos \/ p.dec \in Ids
Real == /\ \A s \in Symbols : RealPos(positions[s]) /\ RealPos(todo[s])
        /\ \A a \in Actors : RealPos(work[a].pos) /\ RealPos(work[a].want)

(* One handler is under way; the position it closes, and those the watcher *)
(* has still to visit, are the ones in Redis; it opens on a free symbol.   *)
Sole    == \A a, b \in Actors : Busy(a) /\ Busy(b) => a = b
Held(a) == pc[a] \in Closing => positions[work[a].sym] = work[a].pos /\ work[a].pos # NoPos
Free    == /\ pc[Consumer] \in Opening => positions[OpenSym] = NoPos
           /\ pc[Consumer] \in Recorded => positions[OpenSym] = Want
Seen    == \A s \in Symbols : todo[s] # NoPos => todo[s] = positions[s]

SoleInv == /\ Downed /\ Roles /\ Real
           /\ Single => Sole /\ Free /\ Seen /\ \A a \in Actors : Held(a)

(* A position that stands for a decision is not the absent one.            *)
LEMMA IdNotNone == \A p : p.dec \in Ids => p # NoPos
  BY PaperAssumption DEF Ids, NoPos

(* Each step of open_position keeps SoleInv.                               *)
LEMMA SoleOpen == TypeOK /\ SoleInv /\ Open => SoleInv'
<1> SUFFICES ASSUME TypeOK, SoleInv, Open PROVE SoleInv'
  OBVIOUS
<1> USE DEF SoleInv, Downed, Roles, Real, RealPos, Sole, Held, Free, Seen, Single, Busy,
            Want, OpenSym, Closing, Opening, Recorded, Decided
<1>c. /\ Consumer \in Actors
      /\ pc \in [Actors -> Labels] /\ work \in [Actors -> Work]
      /\ positions \in [Symbols -> Position]
      /\ pc[Consumer] \notin {"idle", "done", "watch"} => work[Consumer].sym \in Symbols
  BY DEF Actors, TypeOK, RedisOK, ProcessOK
<1>1. CASE OpenGate
  BY <1>1, <1>c DEF OpenGate, MayOpen, Goto, Finish, Step, NoWork, NoPos, redis, rest, watcher,
     history
<1>2. ASSUME NEW lot \in LotCosts, NEW cap \in LotCaps, OpenSize(lot, cap) PROVE SoleInv'
  <2>1. CASE lot > MaxValue(budget.cash)
    BY <1>2, <2>1, <1>c DEF OpenSize, Finish, Step, NoWork, NoPos, redis, rest, watcher, history
  <2>2. CASE ~(lot > MaxValue(budget.cash))
    <3>1. PICK c : work' = [work EXCEPT ![Consumer] = [work[Consumer] EXCEPT !.want.cost = c]]
      BY <1>2, <2>2 DEF OpenSize, Step
    <3>2. /\ work'[Consumer].sym = work[Consumer].sym /\ work'[Consumer].pos = work[Consumer].pos
          /\ work'[Consumer].want.dec = work[Consumer].want.dec
          /\ \A a \in Actors \ {Consumer} : work'[a] = work[a]
      BY <3>1, <1>c DEF Work, Position
    <3>3. pc[Consumer] = "size" /\ pc' = [pc EXCEPT ![Consumer] = "fund"]
      BY <1>2, <2>2 DEF OpenSize, Step
    <3>4. work[Consumer].want.dec \in Ids
      BY <3>3, <1>c
    <3>5. work'[Consumer].want # NoPos
      BY <3>2, <3>4, IdNotNone
    <3> QED BY <1>2, <3>2, <3>3, <3>4, <3>5, <1>c DEF OpenSize, redis, rest, watcher, history
  <2> QED BY <2>1, <2>2
<1>3. CASE AllocateGet
  <2>1. UNCHANGED <<redis, rest, history>> /\ pc[Consumer] = "fund"
    BY <1>3 DEF AllocateGet
  <2>2. CASE pc' = [pc EXCEPT ![Consumer] = "idle"] /\ work' = [work EXCEPT ![Consumer] = NoWork]
    BY <2>1, <2>2, <1>c DEF NoWork, NoPos, redis, rest, watcher, history
  <2>3. CASE /\ pc' = [pc EXCEPT ![Consumer] = "debit"]
             /\ work' = [work EXCEPT ![Consumer] = [work[Consumer] EXCEPT
                           !.cash = budget.cash, !.invested = budget.invested]]
    <3>1. /\ work'[Consumer].sym = work[Consumer].sym /\ work'[Consumer].pos = work[Consumer].pos
          /\ work'[Consumer].want = work[Consumer].want
          /\ \A a \in Actors \ {Consumer} : work'[a] = work[a]
      BY <2>3, <1>c DEF Work
    <3> QED BY <2>1, <2>3, <3>1, <1>c DEF redis, rest, watcher, history
  <2> QED BY <1>3, <2>2, <2>3 DEF AllocateGet, Finish, Step
<1>4. CASE AllocateSet
  BY <1>4, <1>c DEF AllocateSet, Goto, Step, rest, watcher
<1>5. CASE PutPosition
  <2>1. work[Consumer].sym \in Symbols /\ pc[Consumer] = "put"
    BY <1>5, <1>c DEF PutPosition
  <2>2. positions' = [positions EXCEPT ![work[Consumer].sym] = work[Consumer].want]
        /\ work' = work /\ pc' = [pc EXCEPT ![Consumer] = "put_trade"]
        /\ UNCHANGED <<rest, history>>
    BY <1>5, <1>c DEF PutPosition, Goto, Step
  <2>3. \A s \in Symbols : RealPos(positions'[s])
    BY <2>1, <2>2, <1>c
  <2>4. todo = NoSnapshot
    BY <2>1
  <2>5. positions'[work[Consumer].sym] = work[Consumer].want
    BY <2>1, <2>2, <1>c
  <2> QED BY <2>1, <2>2, <2>3, <2>4, <2>5, <1>c DEF rest, watcher, history, NoSnapshot
<1>6. CASE PutTrade
  BY <1>6, <1>c DEF PutTrade, Goto, Step, rest, watcher, history
<1>7. CASE PutOpenId
  BY <1>7, <1>c DEF PutOpenId, Goto, Step, rest, watcher, history
<1>8. ASSUME SaveOpen PROVE SoleInv'
  BY <1>8, <1>c DEF SaveOpen, Finish, Step, NoWork, NoPos, redis, rest, watcher, history
<1> QED BY <1>1, <1>2, <1>3, <1>4, <1>5, <1>6, <1>7, <1>8 DEF Open

(* Each step of close_position keeps SoleInv, for the one handler that runs*)
(* it.                                                                     *)
LEMMA SoleClose == ASSUME TypeOK, SoleInv, NEW a \in Actors, Close(a) PROVE SoleInv'
<1> USE DEF SoleInv, Downed, Roles, Real, RealPos, Sole, Held, Free, Seen, Single, Busy,
            Want, OpenSym, Closing, Opening, Recorded, Decided
<1>c. /\ Consumer \in Actors
      /\ pc \in [Actors -> Labels] /\ work \in [Actors -> Work]
      /\ positions \in [Symbols -> Position]
      /\ pc[a] \notin {"idle", "done", "watch"} => work[a].sym \in Symbols
  BY DEF Actors, TypeOK, RedisOK, ProcessOK
<1>a. ASSUME AfterClose(a), pc[a] \in {"close", "record"}, UNCHANGED <<positions, rest, history>>
      PROVE  SoleInv'
  <2> DEFINE w == work[a]
  <2>1. CASE a # Consumer
    <3>1. pc' = [pc EXCEPT ![a] = "done"] /\ work' = [work EXCEPT ![a] = NoWork]
      BY <1>a, <2>1 DEF AfterClose, Finish, Step
    <3> QED BY <1>a, <2>1, <3>1, <1>c DEF NoWork, NoPos, rest, watcher, history
  <2>2. CASE a = Consumer /\ w.want # NoPos
    <3>1. /\ pc' = [pc EXCEPT ![a] = "gate"]
          /\ work' = [work EXCEPT ![a] = [NoWork EXCEPT !.sym = w.sym, !.want = w.want]]
      BY <1>a, <2>2 DEF AfterClose, Step
    <3>2. work'[a].want = w.want /\ work'[a].pos = NoPos
      BY <3>1, <1>c DEF NoWork
    <3> QED BY <1>a, <2>2, <3>1, <3>2, <1>c DEF rest, watcher, history
  <2>3. CASE a = Consumer /\ w.want = NoPos
    <3>1. pc' = [pc EXCEPT ![a] = "cool"] \/ pc' = [pc EXCEPT ![a] = "watch"]
      BY <1>a, <2>3 DEF AfterClose, Finish, Step
    <3>2. work'[a].want = NoPos /\ work'[a].pos = NoPos
          /\ \A b \in Actors \ {a} : work'[b] = work[b]
      BY <1>a, <2>3, <1>c DEF AfterClose, Finish, Step, NoWork
    <3> QED BY <1>a, <2>3, <3>1, <3>2, <1>c DEF rest, watcher, history
  <2> QED BY <2>1, <2>2, <2>3
<1>1. ASSUME NEW g \in Moves, ClosePosition(a, g) PROVE SoleInv'
  <2>1. CASE positions[work[a].sym] = NoPos
    BY <1>1, <2>1, <1>a DEF ClosePosition, redis
  <2>2. CASE positions[work[a].sym] # NoPos
    <3>1. /\ pc' = [pc EXCEPT ![a] = "find_id"] /\ pc[a] = "close"
          /\ work' = [work EXCEPT ![a] = [work[a] EXCEPT
                        !.pos = positions[work[a].sym], !.gross = g]]
      BY <1>1, <2>2 DEF ClosePosition, Step
    <3>2. /\ work'[a].sym = work[a].sym /\ work'[a].pos = positions[work[a].sym]
          /\ work'[a].want = work[a].want
          /\ \A b \in Actors \ {a} : work'[b] = work[b]
      BY <3>1, <1>c DEF Work
    <3> QED BY <1>1, <2>2, <3>1, <3>2, <1>c DEF ClosePosition, redis, rest, watcher, history
  <2> QED BY <2>1, <2>2
<1>2. CASE FindId(a)
  BY <1>2, <1>c DEF FindId, Step, Work, redis, rest, watcher, history
<1>3. CASE FindTrade(a)
  BY <1>3, <1>c DEF FindTrade, Step, Work, redis, rest, watcher, history
<1>4. CASE DelOpenId(a)
  BY <1>4, <1>c DEF DelOpenId, Untraded, Goto, Step, rest, watcher, history
<1>5. CASE LogClose(a)
  BY <1>5, <1>c DEF LogClose, Goto, Step, rest, watcher, history
<1>6. ASSUME SaveClose(a) PROVE SoleInv'
  BY <1>6, <1>c DEF SaveClose, Goto, Step, redis, rest, watcher, history
<1>7. CASE ReleaseGet(a)
  BY <1>7, <1>c DEF ReleaseGet, Step, Work, redis, rest, watcher, history
<1>8. CASE ReleaseSet(a)
  BY <1>8, <1>c DEF ReleaseSet, Goto, Step, rest, watcher
<1>9. CASE DelPosition(a)
  BY <1>9, <1>c DEF DelPosition, Without, Goto, Step, NoSnapshot, rest, watcher, history
<1>10. CASE RealizedGet(a)
  BY <1>10, <1>c DEF RealizedGet, Step, Work, redis, rest, watcher, history
<1>11. CASE RealizedSet(a)
  BY <1>11, <1>a DEF RealizedSet
<1> QED BY <1>1, <1>2, <1>3, <1>4, <1>5, <1>6, <1>7, <1>8, <1>9, <1>10, <1>11 DEF Close

(* Each step of the watcher keeps SoleInv: a peak is written back from a   *)
(* snapshot that is still true.                                            *)
LEMMA SoleWatch == TypeOK /\ SoleInv /\ Watch => SoleInv'
<1> SUFFICES ASSUME TypeOK, SoleInv, Watch PROVE SoleInv'
  OBVIOUS
<1> USE DEF SoleInv, Downed, Roles, Real, RealPos, Sole, Held, Free, Seen, Single, Busy,
            Want, OpenSym, Closing, Opening, Recorded, Decided
<1>c. /\ Consumer \in Actors
      /\ pc \in [Actors -> Labels] /\ work \in [Actors -> Work]
      /\ positions \in [Symbols -> Position] /\ todo \in [Symbols -> Position]
  BY DEF Actors, TypeOK, RedisOK, ProcessOK, RestOK
<1>1. CASE WatchStart
  <2>1. pc[Consumer] = "idle" /\ pc' = [pc EXCEPT ![Consumer] = "watch"] /\ work' = work
        /\ todo' = positions /\ UNCHANGED <<positions, up>> /\ up
    BY <1>1, <1>c DEF WatchStart, Goto, Step, redis
  <2>2. Want = NoPos
    BY <2>1
  <2>3. Single' => \A b \in Actors \ {Consumer} : ~Busy(b)
    BY <1>1 DEF WatchStart, Enter
  <2>4. Downed' /\ Roles' /\ Real'
    BY <2>1, <2>2, <1>c
  <2>5. Single' => Sole' /\ Free' /\ Seen' /\ \A a \in Actors : Held(a)'
    BY <2>1, <2>3, <1>c
  <2> QED BY <2>4, <2>5
<1>2. ASSUME NEW s \in Symbols, WatchKeep(s) PROVE SoleInv'
  BY <1>2, <1>c DEF WatchKeep, NoSnapshot, redis, history
<1>3. ASSUME NEW s \in Symbols, WatchBump(s) PROVE SoleInv'
  <2> DEFINE p == [todo[s] EXCEPT !.peak = @ + 1]
  <2>1. p.dec = todo[s].dec
    BY <1>c DEF Position
  <2>2. todo[s].dec \in Ids
    BY <1>3 DEF WatchBump
  <2>3. \A x \in Symbols : RealPos(positions'[x]) /\ RealPos(todo'[x])
    BY <1>3, <2>1, <2>2, <1>c DEF WatchBump
  <2>4. \A x \in Symbols \ {s} : positions'[x] = positions[x] /\ todo'[x] = todo[x]
    BY <1>3, <1>c DEF WatchBump
  <2>5. todo'[s] = NoPos /\ pc[Consumer] = "watch" /\ UNCHANGED <<pc, work, up, history>> /\ up
    BY <1>3, <1>c DEF WatchBump
  <2>6. \A x \in Symbols : todo'[x] # NoPos => x # s /\ todo[x] # NoPos
    BY <2>4, <2>5
  <2>7. Downed' /\ Real'
    BY <2>3, <2>5
  <2>8. Roles'
    BY <2>5, <2>6, <1>c DEF NoSnapshot
  <2>9. Single => Sole' /\ Free' /\ Seen' /\ \A a \in Actors : Held(a)'
    BY <2>4, <2>5, <2>6, <1>c DEF history
  <2> QED BY <2>5, <2>7, <2>8, <2>9 DEF history
<1>4. ASSUME NEW s \in Symbols, NEW e \in {"STOP", "OTHER"}, WatchExit(s, e) PROVE SoleInv'
  BY <1>4, <1>c DEF WatchExit, Step, NoWork, NoPos, redis
<1>5. CASE SetCooldown
  BY <1>5, <1>c DEF SetCooldown, Finish, Step, NoWork, NoPos, rest, watcher, history
<1>6. CASE WatchEnd
  BY <1>6, <1>c DEF WatchEnd, Goto, Step, redis, history
<1> QED BY <1>1, <1>2, <1>3, <1>4, <1>5, <1>6 DEF Watch

(* Every step keeps SoleInv.                                               *)
LEMMA SoleStep == TypeOK /\ SoleInv /\ [Next]_vars => SoleInv'
<1> SUFFICES ASSUME TypeOK, SoleInv, [Next]_vars PROVE SoleInv'
  OBVIOUS
<1> USE DEF SoleInv, Downed, Roles, Real, RealPos, Sole, Held, Free, Seen, Single, Busy,
            Want, OpenSym, Closing, Opening, Recorded, Decided
<1>c. /\ Consumer \in Actors
      /\ pc \in [Actors -> Labels] /\ work \in [Actors -> Work]
      /\ positions \in [Symbols -> Position] /\ todo \in [Symbols -> Position]
      /\ nextDec \in Nat \ {0} /\ MaxDecisions \in Nat
  BY PaperAssumption DEF Actors, TypeOK, RedisOK, ProcessOK, RestOK
<1>1. ASSUME NEW s \in Symbols, NEW side \in {"BUY", "SELL"}, Decide(s, side) PROVE SoleInv'
  <2> DEFINE want == [NoPos EXCEPT !.dec = nextDec, !.side = side]
  <2>1. want # NoPos /\ want.dec \in Ids
    <3>1. want.dec = nextDec /\ nextDec \in Ids
      BY <1>1, <1>c DEF Decide, NoPos, Ids
    <3> QED BY <3>1, IdNotNone
  <2>2. /\ work' = [work EXCEPT ![Consumer] = [NoWork EXCEPT !.sym = s, !.want = want]]
        /\ pc[Consumer] = "idle" /\ up /\ UNCHANGED <<positions, todo, up>>
        /\ pc' = [pc EXCEPT ![Consumer] = "gate"] \/ pc' = [pc EXCEPT ![Consumer] = "close"]
    BY <1>1 DEF Decide, Step, redis, watcher
  <2>3. work'[Consumer].want = want /\ work'[Consumer].pos = NoPos
        /\ \A b \in Actors \ {Consumer} : work'[b] = work[b]
    BY <2>2, <1>c DEF NoWork
  <2>4. todo = NoSnapshot
    BY <2>2
  <2> HIDE DEF want
  <2>5. Single' => \A b \in Actors \ {Consumer} : ~Busy(b)
    BY <1>1 DEF Decide, Enter
  <2>6. Downed' /\ Roles' /\ Real'
    BY <2>1, <2>2, <2>3, <2>4, <1>c DEF NoSnapshot
  <2>7. Single' => Sole' /\ Free' /\ Seen' /\ \A a \in Actors : Held(a)'
    BY <2>2, <2>5, <2>4, <1>c DEF NoSnapshot
  <2> QED BY <2>6, <2>7
<1>2. CASE Open
  BY <1>2, SoleOpen
<1>3. CASE Watch
  BY <1>3, SoleWatch
<1>4. ASSUME NEW a \in Actors, Close(a) PROVE SoleInv'
  BY <1>4, SoleClose
<1>5. ASSUME NEW r \in Requests, NEW s \in Symbols, ManualClose(r, s) PROVE SoleInv'
  BY <1>5, <1>c, PaperAssumption DEF ManualClose, Step, Enter, Actors, NoWork, NoPos, redis,
     rest, watcher
<1>6. ASSUME NEW s \in Symbols, ExpireCooldown(s) PROVE SoleInv'
  BY <1>6 DEF ExpireCooldown, process, rest, watcher
<1>7. CASE SessionEnd
  BY <1>7 DEF SessionEnd, redis, watcher, history
<1>8. ASSUME NEW a \in Actors, Abort(a) PROVE SoleInv'
  BY <1>8, <1>c DEF Abort, Failed, Finish, Step, NoWork, NoPos, redis, rest, watcher
<1>9. CASE Crash
  BY <1>9, <1>c DEF Crash, NoWork, NoPos, NoSnapshot, redis
<1>10. CASE Restart
  BY <1>10, <1>c DEF Restart, NoSnapshot, watcher
<1>11. CASE UNCHANGED vars
  BY <1>11 DEF vars, redis, process, rest, watcher, history
<1>12. ASSUME NEW m \in sent, MirrorTrade(m) PROVE SoleInv'
  BY <1>12 DEF MirrorTrade, process, rest, watcher, history
<1> QED BY <1>1, <1>2, <1>3, <1>4, <1>5, <1>6, <1>7, <1>8, <1>9, <1>10, <1>11, <1>12 DEF Next

(* SoleInv holds at the start.                                             *)
LEMMA SoleInit == Init => SoleInv
  BY DEF Init, SoleInv, Downed, Roles, Real, RealPos, Sole, Held, Free, Seen, Busy,
         Want, OpenSym, Closing, Opening, Recorded, Decided, NoWork, NoPos, NoSnapshot, Actors
-----------------------------------------------------------------------------
(* A decision's trade.                                                     *)

(* A decision not yet consumed, or not yet a position, has left no trace   *)
(* but the commission allocate() has just taken; a position is of one      *)
(* symbol; an indexed trade is that of the position, as it was opened.      *)
Unput     == Want # NoPos /\ pc[Consumer] \notin Recorded
Unused(i) == /\ \A s \in Symbols : positions[s].dec # i
             /\ settled[i] = 0 /\ written[i] = NoTrade
             /\ charged[i] # 0 => pc[Consumer] = "put" /\ i = Want.dec
Fresh     == /\ \A i \in Ids : i >= nextDec \/ (Unput /\ i = Want.dec) => Unused(i)
             /\ Want # NoPos => Want.dec < nextDec
Distinct  == \A s, t \in Symbols :
               positions[s] # NoPos /\ positions[s].dec = positions[t].dec => s = t
Indexed   == \A s \in Symbols :
               /\ openId[s] \in {0, positions[s].dec}
               /\ openId[s] # 0 => written[openId[s]] = OpenTrade

(* How far a close, and an opening, have got with the trade.               *)
Traded(a) ==
  LET w == work[a]
  IN  /\ pc[a] = "find_trade" => w.tid = openId[w.sym] /\ w.tid # 0
      /\ pc[a] = "del_id" => w.tid \in {0, openId[w.sym]}
      /\ pc[a] \in {"log", "save_close", "balance", "release", "del_pos"} => openId[w.sym] = 0
      /\ pc[a] = "log" => w.tid = w.pos.dec /\ written[w.tid] = OpenTrade
Putting ==
  /\ pc[Consumer] \in {"put_trade", "put_id"} => openId[OpenSym] = 0
  /\ pc[Consumer] = "put_trade" => written[Want.dec] = NoTrade
  /\ pc[Consumer] \in {"put_id", "save"} => written[Want.dec] = OpenTrade

(* Settlements: only a close about to HDEL may have used up the count.     *)
Paying(s) == \E a \in Actors : pc[a] = "del_pos" /\ work[a].sym = s
Paid ==
  /\ \A i \in Ids : settled[i] <= 1 + faults
  /\ \A s \in Symbols : positions[s] # NoPos /\ settled[positions[s].dec] > faults => Paying(s)
  /\ \A a \in Actors : pc[a] = "del_pos" => settled[work[a].pos.dec] >= 1

TradeBody == Fresh /\ Distinct /\ Indexed /\ Putting /\ Paid /\ \A a \in Actors : Traded(a)
TradeInv  == ~overlap => TradeBody

(* An id that is not 0 is a trade.                                         *)
LEMMA IndexIds == \A i \in 0..MaxDecisions : i # 0 => i \in Ids
  BY PaperAssumption DEF Ids

(* Each step of open_position keeps TradeInv: the decision's trade is new  *)
(* until HSET positions:open.                                              *)
LEMMA TradeOpen == TypeOK /\ SoleInv /\ TradeInv /\ Open => TradeInv'
<1> SUFFICES ASSUME TypeOK, SoleInv, TradeInv, Open, ~overlap' PROVE TradeBody'
  BY DEF TradeInv
<1>o. ~overlap
  BY DEF Open, OpenGate, OpenSize, AllocateGet, AllocateSet, PutPosition, PutTrade, PutOpenId,
         SaveOpen, history
<1>b. TradeBody /\ Sole /\ Free /\ (\A a \in Actors : Held(a)) /\ Real /\ Roles
  BY <1>o DEF TradeInv, SoleInv, Single
<1> USE DEF TradeBody, Fresh, Unput, Unused, Distinct, Indexed, Traded, Putting, Paying, Paid,
            Want, OpenSym, Recorded
<1>c. /\ Consumer \in Actors
      /\ pc \in [Actors -> Labels] /\ work \in [Actors -> Work]
      /\ positions \in [Symbols -> Position] /\ openId \in [Symbols -> 0..MaxDecisions]
      /\ written \in [Ids -> Trade] /\ settled \in [Ids -> Nat] /\ charged \in [Ids -> Nat]
      /\ nextDec \in Nat /\ faults \in Nat
      /\ pc[Consumer] \notin {"idle", "done", "watch"} => work[Consumer].sym \in Symbols
  BY DEF Actors, TypeOK, RedisOK, ProcessOK, RestOK, HistoryOK
<1>s. Busy(Consumer) => \A a \in Actors \ {Consumer} : pc[a] \in {"idle", "done"}
  BY <1>b, <1>c DEF Sole, Busy
<1>1. CASE OpenGate
  BY <1>1, <1>b, <1>c, <1>s DEF OpenGate, MayOpen, Goto, Finish, Step, NoWork, Busy, redis,
     rest, watcher, history
<1>2. ASSUME NEW lot \in LotCosts, NEW cap \in LotCaps, OpenSize(lot, cap) PROVE TradeBody'
  <2>1. CASE lot > MaxValue(budget.cash)
    BY <1>2, <2>1, <1>b, <1>c, <1>s DEF OpenSize, Finish, Step, NoWork, Busy, redis, rest,
       watcher, history
  <2>2. CASE ~(lot > MaxValue(budget.cash))
    <3>1. PICK c : work' = [work EXCEPT ![Consumer] = [work[Consumer] EXCEPT !.want.cost = c]]
      BY <1>2, <2>2 DEF OpenSize, Step
    <3>2. /\ work'[Consumer].want.dec = work[Consumer].want.dec
          /\ \A a \in Actors \ {Consumer} : work'[a] = work[a]
      BY <3>1, <1>c DEF Work, Position
    <3>3. pc[Consumer] = "size" /\ pc' = [pc EXCEPT ![Consumer] = "fund"]
          /\ UNCHANGED <<redis, rest, history>>
      BY <1>2, <2>2 DEF OpenSize, Step
    <3>4. Want # NoPos
      BY <3>3, <1>b DEF Roles, Opening
    <3> QED BY <3>2, <3>3, <3>4, <1>b, <1>c, <1>s DEF Busy, redis, rest, watcher, history
  <2> QED BY <2>1, <2>2
<1>3. CASE AllocateGet
  <2>1. UNCHANGED <<redis, rest, history>> /\ pc[Consumer] = "fund"
    BY <1>3 DEF AllocateGet
  <2>2. CASE pc' = [pc EXCEPT ![Consumer] = "idle"] /\ work' = [work EXCEPT ![Consumer] = NoWork]
    BY <2>1, <2>2, <1>b, <1>c, <1>s DEF NoWork, Busy, redis, rest, watcher, history
  <2>3. CASE /\ pc' = [pc EXCEPT ![Consumer] = "debit"]
             /\ work' = [work EXCEPT ![Consumer] = [work[Consumer] EXCEPT
                           !.cash = budget.cash, !.invested = budget.invested]]
    <3>1. /\ work'[Consumer].want = work[Consumer].want
          /\ \A a \in Actors \ {Consumer} : work'[a] = work[a]
      BY <2>3, <1>c DEF Work
    <3> QED BY <2>1, <2>3, <3>1, <1>b, <1>c, <1>s DEF Busy, redis, rest, watcher, history
  <2> QED BY <1>3, <2>2, <2>3 DEF AllocateGet, Finish, Step
<1>4. CASE AllocateSet
  BY <1>4, <1>b, <1>c, <1>s DEF AllocateSet, Goto, Step, Busy, rest, watcher
<1>5. CASE PutPosition
  <2>1. /\ work[Consumer].sym \in Symbols /\ pc[Consumer] = "put"
        /\ positions[OpenSym] = NoPos /\ Want # NoPos /\ Want.dec \in Ids
    BY <1>5, <1>b, <1>c DEF PutPosition, Free, Opening, Roles, Real, RealPos
  <2>2. /\ positions' = [positions EXCEPT ![OpenSym] = Want]
        /\ work' = work /\ pc' = [pc EXCEPT ![Consumer] = "put_trade"]
        /\ UNCHANGED <<openId, written, charged, settled, faults, nextDec>>
    BY <1>5, <1>c DEF PutPosition, Goto, Step, rest, history
  <2>3. positions'[OpenSym] = Want /\ \A s \in Symbols \ {OpenSym} : positions'[s] = positions[s]
    BY <2>1, <2>2, <1>c
  <2>4. Unused(Want.dec) /\ Want.dec < nextDec /\ Want.dec # 0
    BY <2>1, <1>b, PaperAssumption DEF Ids
  <2>5. Fresh'
    <3>1. ASSUME NEW i \in Ids, i >= nextDec PROVE Unused(i)'
      <4>1. Unused(i) /\ i # Want.dec
        <5>1. Unused(i)
          BY <3>1, <1>b
        <5>2. i # Want.dec
          BY <3>1, <2>1, <2>4, <1>c, PaperAssumption DEF Ids
        <5> QED BY <5>1, <5>2
      <4>2. \A s \in Symbols : positions'[s].dec # i
        BY <4>1, <2>3
      <4> QED BY <4>1, <4>2, <2>2
    <3>2. ~Unput' /\ nextDec' = nextDec /\ Want' = Want
      BY <2>2, <1>c
    <3> QED BY <3>1, <3>2, <2>4
  <2>6. Distinct'
    BY <2>1, <2>2, <2>3, <2>4, <1>b, <1>c
  <2>7. openId[OpenSym] = 0
    BY <2>1, <1>b, <1>c DEF NoPos
  <2>8. Indexed' /\ Putting'
    BY <2>1, <2>2, <2>3, <2>4, <2>7, <1>b, <1>c
  <2>9. \A a \in Actors : Traded(a)'
    BY <2>1, <2>2, <1>b, <1>c, <1>s DEF Busy
  <2>10. Paid'
    BY <2>1, <2>2, <2>3, <2>4, <1>b, <1>c, <1>s DEF Busy
  <2> QED BY <2>5, <2>6, <2>8, <2>9, <2>10
<1>6. CASE PutTrade
  <2>1. pc[Consumer] = "put_trade" /\ Want # NoPos /\ Want.dec \in Ids /\ Want.dec < nextDec
    BY <1>6, <1>b, <1>c DEF PutTrade, Roles, Real, RealPos
  <2>2. /\ written' = [written EXCEPT ![Want.dec] = OpenTrade]
        /\ work' = work /\ pc' = [pc EXCEPT ![Consumer] = "put_id"]
        /\ UNCHANGED <<positions, openId, charged, settled, faults, nextDec>>
    BY <1>6, <1>c DEF PutTrade, Goto, Step, rest, history
  <2>3. written'[Want.dec] = OpenTrade /\ \A i \in Ids \ {Want.dec} : written'[i] = written[i]
    BY <2>1, <2>2, <1>c
  <2>4. Fresh'
    <3>1. ASSUME NEW i \in Ids, i >= nextDec PROVE Unused(i)'
      <4>1. Unused(i) /\ i # Want.dec
        <5>1. Unused(i)
          BY <3>1, <1>b
        <5>2. i # Want.dec
          BY <3>1, <2>1, <1>c, PaperAssumption DEF Ids
        <5> QED BY <5>1, <5>2
      <4> QED BY <4>1, <2>1, <2>2, <2>3
    <3>2. ~Unput' /\ nextDec' = nextDec /\ Want' = Want
      BY <2>2, <1>c
    <3> QED BY <3>1, <3>2, <2>1
  <2>7. Distinct' /\ Paid'
    BY <2>1, <2>2, <1>b, <1>c, <1>s DEF Busy
  <2>5. Indexed'
    BY <2>1, <2>2, <2>3, <1>b, <1>c, IndexIds DEF OpenTrade
  <2>6. Putting' /\ \A a \in Actors : Traded(a)'
    BY <2>1, <2>2, <2>3, <1>b, <1>c, <1>s DEF Busy
  <2> QED BY <2>4, <2>5, <2>6, <2>7
<1>7. CASE PutOpenId
  BY <1>7, <1>b, <1>c, <1>s DEF PutOpenId, Goto, Step, Busy, rest, watcher, history, OpenTrade,
     Free, Roles
<1>8. ASSUME SaveOpen PROVE TradeBody'
  BY <1>8, <1>b, <1>c, <1>s DEF SaveOpen, Finish, Step, NoWork, Busy, rest, watcher,
     redis, history, Roles
<1> QED BY <1>1, <1>2, <1>3, <1>4, <1>5, <1>6, <1>7, <1>8 DEF Open

(* Each step of close_position keeps TradeInv: release() pays for the      *)
(* position in hand, at most once more than there have been faults, and    *)
(* HDEL follows it.                                                        *)
LEMMA TradeClose ==
  ASSUME TypeOK, SoleInv, TradeInv, NEW a \in Actors, Close(a)
  PROVE  TradeInv'
<1> SUFFICES ASSUME ~overlap' PROVE TradeBody'
  BY DEF TradeInv
<1>o. ~overlap
  BY DEF Close, ClosePosition, FindId, FindTrade, DelOpenId, LogClose, SaveClose, ReleaseGet,
         ReleaseSet, DelPosition, RealizedGet, RealizedSet, history
<1>b. TradeBody /\ Sole /\ Free /\ (\A b \in Actors : Held(b)) /\ Real /\ Roles
  BY <1>o DEF TradeInv, SoleInv, Single
<1> USE DEF TradeBody, Fresh, Unput, Unused, Distinct, Indexed, Traded, Putting, Paying, Paid,
            Want, OpenSym, Recorded
<1>c. /\ Consumer \in Actors
      /\ pc \in [Actors -> Labels] /\ work \in [Actors -> Work]
      /\ positions \in [Symbols -> Position] /\ openId \in [Symbols -> 0..MaxDecisions]
      /\ written \in [Ids -> Trade] /\ settled \in [Ids -> Nat] /\ charged \in [Ids -> Nat]
      /\ nextDec \in Nat /\ faults \in Nat
      /\ pc[a] \notin {"idle", "done", "watch"} => work[a].sym \in Symbols
  BY DEF Actors, TypeOK, RedisOK, ProcessOK, RestOK, HistoryOK
<1>p. pc[a] \in Closing \cup {"close", "total", "record"}
  BY DEF Close, ClosePosition, FindId, FindTrade, DelOpenId, LogClose, SaveClose, ReleaseGet,
         ReleaseSet, DelPosition, RealizedGet, RealizedSet, Closing
<1>s. /\ \A b \in Actors \ {a} : pc[b] \in {"idle", "done"}
      /\ a # Consumer => pc[Consumer] = "idle" /\ Want = NoPos
      /\ pc[Consumer] \notin Recorded
  <2>1. Busy(a)
    BY <1>p DEF Closing, Busy
  <2> QED BY <2>1, <1>p, <1>b, <1>c DEF Sole, Busy, Roles, Closing
<1>h. pc[a] \in Closing => /\ positions[work[a].sym] = work[a].pos /\ work[a].pos # NoPos
                           /\ work[a].pos.dec \in Ids /\ work[a].pos.dec # 0
  BY <1>b, <1>c, PaperAssumption DEF Held, Real, RealPos, Ids
(* Steps that leave Redis and the history alone and forget the locals.     *)
<1>a. ASSUME AfterClose(a), pc[a] \in {"close", "record"},
             UNCHANGED <<positions, openId, rest, history>>
      PROVE  TradeBody'
  <2>1. pc' = [pc EXCEPT ![a] = pc'[a]] /\ pc'[a] \in {"done", "gate", "cool", "watch"}
        /\ \A b \in Actors \ {a} : work'[b] = work[b]
    BY <1>a, <1>c DEF AfterClose, Finish, Step
  <2>2. Want'.dec = Want.dec /\ (Want' # NoPos => Want # NoPos)
    <3>1. CASE a # Consumer
      BY <2>1, <3>1, <1>c
    <3>2. CASE a = Consumer /\ Want # NoPos
      BY <3>2, <1>a, <1>c DEF AfterClose, Step, NoWork
    <3>3. CASE a = Consumer /\ Want = NoPos
      BY <3>3, <1>a, <1>c DEF AfterClose, Finish, Step, NoWork
    <3> QED BY <3>1, <3>2, <3>3
  <2> QED BY <1>a, <2>1, <2>2, <1>b, <1>c, <1>s DEF rest, history
<1>1. ASSUME NEW g \in Moves, ClosePosition(a, g) PROVE TradeBody'
  <2>1. CASE positions[work[a].sym] = NoPos
    BY <1>1, <2>1, <1>a DEF ClosePosition, redis
  <2>2. CASE positions[work[a].sym] # NoPos
    <3>1. /\ pc' = [pc EXCEPT ![a] = "find_id"] /\ pc[a] = "close"
          /\ UNCHANGED <<redis, rest, history>>
          /\ work' = [work EXCEPT ![a] = [work[a] EXCEPT
                        !.pos = positions[work[a].sym], !.gross = g]]
      BY <1>1, <2>2 DEF ClosePosition, Step
    <3>2. /\ work'[a].want = work[a].want
          /\ \A b \in Actors \ {a} : work'[b] = work[b]
      BY <3>1, <1>c DEF Work
    <3> QED BY <3>1, <3>2, <1>b, <1>c, <1>s DEF redis, rest, history
  <2> QED BY <2>1, <2>2
<1>2. CASE FindId(a)
  <2>1. /\ pc' = [pc EXCEPT ![a] = IF openId[work[a].sym] = 0 THEN "del_id" ELSE "find_trade"]
        /\ work' = [work EXCEPT ![a] = [work[a] EXCEPT !.tid = openId[work[a].sym]]]
        /\ pc[a] = "find_id"
        /\ UNCHANGED <<redis, rest, history>>
    BY <1>2 DEF FindId, Step
  <2>2. /\ work'[a].want = work[a].want /\ work'[a].sym = work[a].sym
        /\ work'[a].tid = openId[work[a].sym]
        /\ \A b \in Actors \ {a} : work'[b] = work[b]
    BY <2>1, <1>c DEF Work
  <2> QED BY <2>1, <2>2, <1>b, <1>c, <1>s DEF redis, rest, history
<1>3. CASE FindTrade(a)
  <2>1. /\ pc' = [pc EXCEPT ![a] = "del_id"] /\ pc[a] = "find_trade"
        /\ \E i \in {0, work[a].tid} :
             work' = [work EXCEPT ![a] = [work[a] EXCEPT !.tid = i]]
        /\ UNCHANGED <<redis, rest, history>>
    BY <1>3 DEF FindTrade, Step
  <2>2. /\ work'[a].want = work[a].want /\ work'[a].sym = work[a].sym
        /\ work'[a].tid \in {0, work[a].tid}
        /\ \A b \in Actors \ {a} : work'[b] = work[b]
    BY <2>1, <1>c DEF Work
  <2> QED BY <2>1, <2>2, <1>b, <1>c, <1>s DEF redis, rest, history
<1>4. CASE DelOpenId(a)
  <2>1. /\ pc' = [pc EXCEPT ![a] = IF work[a].tid = 0 THEN "balance" ELSE "log"]
        /\ work' = work /\ openId' = [openId EXCEPT ![work[a].sym] = 0] /\ pc[a] = "del_id"
        /\ UNCHANGED <<positions, written, rest, history>>
    BY <1>4, <1>c DEF DelOpenId, Goto, Step, Untraded, Unindexed, history
  <2>2. work[a].sym \in Symbols /\ work[a].tid \in {0, openId[work[a].sym]}
    BY <2>1, <1>b, <1>c
  <2>3. work[a].tid # 0 => work[a].tid = work[a].pos.dec /\ written[work[a].tid] = OpenTrade
    BY <2>1, <2>2, <1>b, <1>h DEF Closing
  <2> QED BY <2>1, <2>2, <2>3, <1>b, <1>c, <1>s DEF rest, history
<1>5. CASE LogClose(a)
  <2>1. /\ pc' = [pc EXCEPT ![a] = "save_close"] /\ pc[a] = "log"
        /\ work' = work /\ written' = [written EXCEPT ![work[a].tid] = ClosedTrade(work[a])]
        /\ UNCHANGED <<positions, openId, rest, charged, settled, faults>>
    BY <1>5, <1>c DEF LogClose, Goto, Step
  <2>2. /\ work[a].sym \in Symbols /\ openId[work[a].sym] = 0
        /\ work[a].tid \in Ids /\ work[a].tid # 0 /\ positions[work[a].sym].dec = work[a].tid
        /\ positions[work[a].sym] # NoPos
    BY <2>1, <1>b, <1>c, <1>h DEF Closing
  <2>3. written'[work[a].tid] = ClosedTrade(work[a])
        /\ \A i \in Ids \ {work[a].tid} : written'[i] = written[i]
    BY <2>1, <2>2, <1>c
  <2>4. \A s \in Symbols : openId[s] # 0 => openId[s] # work[a].tid /\ openId[s] \in Ids
    BY <2>2, <1>b, <1>c, IndexIds
  <2>5. Fresh' /\ Distinct' /\ Putting' /\ Paid'
    BY <2>1, <2>2, <2>3, <1>b, <1>c, <1>s DEF rest, history
  <2>6. Indexed' /\ \A b \in Actors : Traded(b)'
    BY <2>1, <2>2, <2>3, <2>4, <1>b, <1>c, <1>s DEF ClosedTrade
  <2> QED BY <2>5, <2>6
<1>6. ASSUME SaveClose(a) PROVE TradeBody'
  <2>1. /\ pc' = [pc EXCEPT ![a] = "balance"] /\ pc[a] = "save_close" /\ work' = work
        /\ UNCHANGED <<redis, rest, history>>
    BY <1>6, <1>c DEF SaveClose, Goto, Step
  <2> QED BY <2>1, <1>b, <1>c, <1>s DEF redis, rest, history
<1>7. CASE ReleaseGet(a)
  <2>1. /\ pc' = [pc EXCEPT ![a] = "release"] /\ pc[a] = "balance"
        /\ work' = [work EXCEPT ![a] = [work[a] EXCEPT
                      !.cash = budget.cash, !.invested = budget.invested]]
        /\ UNCHANGED <<redis, rest, history>>
    BY <1>7 DEF ReleaseGet, Step
  <2>2. /\ work'[a].want = work[a].want /\ work'[a].sym = work[a].sym
        /\ \A b \in Actors \ {a} : work'[b] = work[b]
    BY <2>1, <1>c DEF Work
  <2> QED BY <2>1, <2>2, <1>b, <1>c, <1>s DEF redis, rest, history
<1>8. CASE ReleaseSet(a)
  <2> DEFINE i == work[a].pos.dec
  <2>1. /\ pc' = [pc EXCEPT ![a] = "del_pos"] /\ pc[a] = "release" /\ work' = work
        /\ settled' = [settled EXCEPT ![i] = settled[i] + 1]
        /\ UNCHANGED <<positions, openId, written, rest, charged, faults>>
    BY <1>8, <1>c DEF ReleaseSet, Goto, Step
  <2>2. /\ work[a].sym \in Symbols /\ positions[work[a].sym].dec = i /\ i \in Ids
        /\ positions[work[a].sym] # NoPos
    BY <2>1, <1>c, <1>h DEF Closing
  <2>3. settled'[i] = settled[i] + 1 /\ \A j \in Ids \ {i} : settled'[j] = settled[j]
    BY <2>1, <2>2, <1>c
  <2>4. settled[i] <= faults
    <3>1. ~Paying(work[a].sym)
      BY <2>1, <1>s
    <3>2. ~(settled[i] > faults)
      BY <3>1, <2>2, <1>b
    <3>3. settled[i] \in Nat
      BY <2>2, <1>c
    <3> QED BY <3>2, <3>3, <1>c
  <2>5. Fresh' /\ Distinct' /\ Indexed' /\ Putting' /\ \A b \in Actors : Traded(b)'
    BY <2>1, <2>2, <2>3, <1>b, <1>c, <1>s DEF rest
  <2>6. Paid'
    <3>1. \A j \in Ids : settled'[j] <= 1 + faults
      BY <2>2, <2>3, <2>4, <1>b, <1>c
    <3>2. Paying(work[a].sym)'
      BY <2>1, <1>c
    <3>3. ASSUME NEW s \in Symbols, positions[s] # NoPos, settled'[positions[s].dec] > faults
          PROVE  s = work[a].sym
      <4>1. positions[s].dec \in Ids
        BY <3>3, <1>b DEF Real, RealPos
      <4>2. CASE positions[s].dec = i
        BY <4>2, <3>3, <2>2, <1>b
      <4>3. CASE positions[s].dec # i
        <5>1. settled[positions[s].dec] > faults
          BY <4>1, <4>3, <3>3, <2>3
        <5>2. Paying(s)
          BY <5>1, <3>3, <1>b
        <5> QED BY <5>2, <2>1, <1>s
      <4> QED BY <4>2, <4>3
    <3>4. settled'[i] >= 1
      BY <2>2, <2>3, <1>c
    <3>5. \A b \in Actors : pc'[b] = "del_pos" => b = a
      BY <2>1, <1>c, <1>s
    <3>6. UNCHANGED <<positions, work, faults>>
      BY <2>1
    <3> QED BY <3>1, <3>2, <3>3, <3>4, <3>5, <3>6
  <2> QED BY <2>5, <2>6
<1>9. CASE DelPosition(a)
  <2>1. /\ pc' = [pc EXCEPT ![a] = "total"] /\ pc[a] = "del_pos" /\ work' = work
        /\ positions' = [positions EXCEPT ![work[a].sym] = NoPos]
        /\ UNCHANGED <<openId, written, rest, history>>
    BY <1>9, <1>c DEF DelPosition, Without, Goto, Step, history
  <2>2. work[a].sym \in Symbols /\ openId[work[a].sym] = 0
    BY <2>1, <1>b, <1>c
  <2>3. positions'[work[a].sym] = NoPos /\ NoPos.dec = 0 /\ 0 \notin Ids
        /\ \A s \in Symbols \ {work[a].sym} : positions'[s] = positions[s]
    BY <2>1, <2>2, <1>c, PaperAssumption DEF NoPos, Ids
  <2>4. Fresh'
    BY <2>1, <2>2, <2>3, <1>b, <1>c, <1>s DEF rest, history
  <2>5. Distinct'
    BY <2>2, <2>3, <1>b DEF Real, RealPos
  <2>7. Indexed'
    BY <2>1, <2>2, <2>3, <1>b, <1>c
  <2>8. Putting' /\ \A b \in Actors : Traded(b)'
    BY <2>1, <2>2, <2>3, <1>b, <1>c, <1>s
  <2>6. Paid'
    BY <2>1, <2>2, <2>3, <1>b, <1>c, <1>s DEF history
  <2> QED BY <2>4, <2>5, <2>6, <2>7, <2>8
<1>10. CASE RealizedGet(a)
  <2>1. /\ pc' = [pc EXCEPT ![a] = "record"] /\ pc[a] = "total"
        /\ work' = [work EXCEPT ![a] = [work[a] EXCEPT !.total = realized]]
        /\ UNCHANGED <<redis, rest, history>>
    BY <1>10 DEF RealizedGet, Step
  <2>2. /\ work'[a].want = work[a].want /\ work'[a].sym = work[a].sym
        /\ \A b \in Actors \ {a} : work'[b] = work[b]
    BY <2>1, <1>c DEF Work
  <2> QED BY <2>1, <2>2, <1>b, <1>c, <1>s DEF redis, rest, history
<1>11. CASE RealizedSet(a)
  BY <1>11, <1>a DEF RealizedSet
<1> QED BY <1>1, <1>2, <1>3, <1>4, <1>5, <1>6, <1>7, <1>8, <1>9, <1>10, <1>11 DEF Close

(* Each step of the watcher keeps TradeInv: a peak is no other position.   *)
LEMMA TradeWatch == TypeOK /\ SoleInv /\ TradeInv /\ Watch => TradeInv'
<1> SUFFICES ASSUME TypeOK, SoleInv, TradeInv, Watch, ~overlap' PROVE TradeBody'
  BY DEF TradeInv
<1>o. ~overlap
  BY DEF Watch, WatchStart, WatchKeep, WatchBump, WatchExit, SetCooldown, WatchEnd, Enter, history
<1>b. TradeBody /\ Sole /\ Free /\ Seen /\ Real /\ Roles
  BY <1>o DEF TradeInv, SoleInv, Single
<1> USE DEF TradeBody, Fresh, Unput, Unused, Distinct, Indexed, Traded, Putting, Paying, Paid,
            Want, OpenSym, Recorded
<1>c. /\ Consumer \in Actors
      /\ pc \in [Actors -> Labels] /\ work \in [Actors -> Work]
      /\ positions \in [Symbols -> Position] /\ openId \in [Symbols -> 0..MaxDecisions]
      /\ todo \in [Symbols -> Position]
  BY DEF Actors, TypeOK, RedisOK, ProcessOK, RestOK, HistoryOK
<1>1. CASE WatchStart
  <2>1. /\ pc' = [pc EXCEPT ![Consumer] = "watch"] /\ pc[Consumer] = "idle" /\ work' = work
        /\ UNCHANGED <<positions, openId, written, charged, settled, faults, nextDec>>
    BY <1>1, <1>c DEF WatchStart, Goto, Step, redis
  <2> QED BY <2>1, <1>b, <1>c
<1>2. ASSUME NEW s \in Symbols, WatchKeep(s) PROVE TradeBody'
  BY <1>2, <1>b, <1>c DEF WatchKeep, redis, history
<1>3. ASSUME NEW s \in Symbols, WatchBump(s) PROVE TradeBody'
  <2>1. /\ pc[Consumer] = "watch" /\ todo[s] = positions[s] /\ todo[s] # NoPos
        /\ UNCHANGED <<openId, written, pc, work, nextDec, charged, settled, faults>>
    BY <1>3, <1>b DEF WatchBump, Seen, history
  <2>2. \A x \in Symbols : positions'[x].dec = positions[x].dec
                          /\ (positions'[x] # NoPos => positions[x] # NoPos)
    BY <1>3, <2>1, <1>c DEF WatchBump, Position
  <2>3. \A b \in Actors : pc[b] # "del_pos"
    BY <2>1, <1>b, <1>c DEF Sole, Busy
  <2> QED BY <2>1, <2>2, <2>3, <1>b, <1>c
<1>4. ASSUME NEW s \in Symbols, NEW e \in {"STOP", "OTHER"}, WatchExit(s, e) PROVE TradeBody'
  <2>1. /\ pc' = [pc EXCEPT ![Consumer] = "close"] /\ pc[Consumer] = "watch"
        /\ work' = [work EXCEPT ![Consumer] = [NoWork EXCEPT !.sym = s, !.exit = e]]
        /\ UNCHANGED <<redis, written, nextDec, charged, settled, faults>>
    BY <1>4 DEF WatchExit, Step
  <2>2. Want' = NoPos /\ Want = NoPos /\ \A b \in Actors \ {Consumer} : work'[b] = work[b]
    BY <2>1, <1>b, <1>c DEF NoWork, Roles
  <2> QED BY <2>1, <2>2, <1>b, <1>c DEF redis
<1>5. CASE SetCooldown
  <2>1. /\ pc' = [pc EXCEPT ![Consumer] = "watch"] /\ pc[Consumer] = "cool"
        /\ work' = [work EXCEPT ![Consumer] = NoWork]
        /\ UNCHANGED <<positions, openId, written, nextDec, charged, settled, faults>>
    BY <1>5 DEF SetCooldown, Finish, Step, rest, history
  <2>2. Want' = NoPos /\ \A b \in Actors \ {Consumer} : work'[b] = work[b]
    BY <2>1, <1>c DEF NoWork
  <2> QED BY <2>1, <2>2, <1>b, <1>c
<1>6. CASE WatchEnd
  <2>1. /\ pc' = [pc EXCEPT ![Consumer] = "idle"] /\ pc[Consumer] = "watch" /\ work' = work
        /\ UNCHANGED <<redis, nextDec, history>>
    BY <1>6, <1>c DEF WatchEnd, Goto, Step
  <2> QED BY <2>1, <1>b, <1>c DEF redis, history
<1> QED BY <1>1, <1>2, <1>3, <1>4, <1>5, <1>6 DEF Watch

(* Every step keeps TradeInv: a crash or an exception leaves a settled     *)
(* position behind, and counts as the fault that allows one more           *)
(* settlement.                                                             *)
LEMMA TradeStep == TypeOK /\ SoleInv /\ TradeInv /\ [Next]_vars => TradeInv'
<1> SUFFICES ASSUME TypeOK, SoleInv, TradeInv, [Next]_vars PROVE TradeInv'
  OBVIOUS
<1> USE DEF TradeBody, Fresh, Unput, Unused, Distinct, Indexed, Traded, Putting, Paying, Paid,
            Want, OpenSym, Recorded
<1>c. /\ Consumer \in Actors
      /\ pc \in [Actors -> Labels] /\ work \in [Actors -> Work]
      /\ positions \in [Symbols -> Position] /\ openId \in [Symbols -> 0..MaxDecisions]
      /\ settled \in [Ids -> Nat] /\ nextDec \in Nat /\ faults \in Nat
  BY DEF Actors, TypeOK, RedisOK, ProcessOK, RestOK, HistoryOK

<1>b. ASSUME ~overlap
      PROVE TradeBody /\ Sole /\ Free /\ Roles /\ Real /\ \A a \in Actors : Held(a)
  BY <1>b DEF TradeInv, SoleInv, Single
<1>1. ASSUME NEW s \in Symbols, NEW side \in {"BUY", "SELL"}, Decide(s, side), ~overlap'
      PROVE  TradeBody'
  <2> DEFINE want == [NoPos EXCEPT !.dec = nextDec, !.side = side]
  <2>o. ~overlap
    BY <1>1 DEF Decide, Enter
  <2>1. /\ work' = [work EXCEPT ![Consumer] = [NoWork EXCEPT !.sym = s, !.want = want]]
        /\ pc[Consumer] = "idle" /\ nextDec' = nextDec + 1
        /\ UNCHANGED <<redis, written, charged, settled, faults>>
        /\ pc' = [pc EXCEPT ![Consumer] = "gate"] \/ pc' = [pc EXCEPT ![Consumer] = "close"]
    BY <1>1 DEF Decide, Step
  <2>2. want.dec = nextDec
    BY DEF NoPos
  <2>3. Want' = want /\ \A b \in Actors \ {Consumer} : work'[b] = work[b]
    BY <2>1, <1>c DEF NoWork
  <2>4. Want = NoPos
    BY <2>o, <2>1, <1>b DEF Roles
  <2> HIDE DEF want
  <2>5. Fresh'
    <3>1. ASSUME NEW i \in Ids, i >= nextDec PROVE Unused(i) /\ charged[i] = 0
      BY <3>1, <2>o, <2>1, <1>b
    <3> QED BY <3>1, <2>1, <2>2, <2>3, <1>c, PaperAssumption DEF redis, Ids
  <2>6. Distinct' /\ Indexed' /\ Putting' /\ Paid' /\ \A a \in Actors : Traded(a)'
    BY <2>1, <2>3, <2>o, <1>b, <1>c DEF redis
  <2> QED BY <2>5, <2>6
<1>2. CASE Open
  BY <1>2, TradeOpen
<1>3. CASE Watch
  BY <1>3, TradeWatch
<1>4. ASSUME NEW a \in Actors, Close(a) PROVE TradeInv'
  BY <1>4, TradeClose
<1>5. ASSUME NEW r \in Requests, NEW s \in Symbols, ManualClose(r, s), ~overlap' PROVE TradeBody'
  <2>1. /\ pc' = [pc EXCEPT ![r] = "close"] /\ pc[r] = "idle" /\ r \in Actors /\ r # Consumer
        /\ work' = [work EXCEPT ![r] = [NoWork EXCEPT !.sym = s, !.exit = "OTHER"]]
        /\ UNCHANGED <<redis, rest, written, charged, settled, faults>> /\ ~overlap
    BY <1>5, PaperAssumption DEF ManualClose, Step, Enter, Actors
  <2>2. Want' = Want /\ pc'[Consumer] = pc[Consumer] /\ \A b \in Actors \ {r} : work'[b] = work[b]
    BY <2>1, <1>c
  <2> QED BY <2>1, <2>2, <1>b, <1>c DEF redis, rest
<1>6. ASSUME NEW s \in Symbols, ExpireCooldown(s), ~overlap' PROVE TradeBody'
  BY <1>6, <1>b, <1>c DEF ExpireCooldown, process, rest
<1>7. ASSUME SessionEnd, ~overlap' PROVE TradeBody'
  BY <1>7, <1>b, <1>c DEF SessionEnd, redis, history
<1>e. ASSUME ~overlap, UNCHANGED <<positions, openId, written, charged, settled, nextDec>>,
             faults' = faults + 1,
             \A a \in Actors : \/ pc'[a] \in {"idle", "done", "watch"} /\ work'[a] = NoWork
                               \/ pc'[a] = pc[a] /\ work'[a] = work[a]
      PROVE  TradeBody'
  <2>1. NoWork.want = NoPos
    BY DEF NoWork
  <2>2. Want' # NoPos => Want' = Want /\ pc'[Consumer] = pc[Consumer]
    BY <2>1, <1>e, <1>c
  <2>3. Fresh'
    <3>1. ASSUME NEW i \in Ids, i >= nextDec \/ (Want' # NoPos /\ Unput' /\ i = Want'.dec)
          PROVE  Unused(i)'
      <4>1. Unused(i)
        BY <3>1, <2>2, <1>e, <1>b
      <4>2. charged[i] # 0 => pc'[Consumer] = "put" /\ i = Want'.dec
        BY <4>1, <3>1, <2>2, <1>e, <1>b, <1>c, PaperAssumption DEF Ids, Roles, Opening
      <4> QED BY <4>1, <4>2, <1>e
    <3> QED BY <3>1, <2>2, <1>e, <1>b
  <2>6. Distinct' /\ Indexed'
    BY <1>e, <1>b
  <2>4. Putting' /\ \A a \in Actors : Traded(a)'
    BY <2>1, <2>2, <1>e, <1>b, <1>c
  <2>5. Paid'
    <3>1. \A s \in Symbols : positions[s] # NoPos => settled[positions[s].dec] <= 1 + faults
      BY <1>e, <1>b DEF Real, RealPos
    <3>2. \A s \in Symbols : positions[s] # NoPos => settled[positions[s].dec] \in Nat
      BY <1>e, <1>b, <1>c DEF Real, RealPos
    <3>3. \A i \in Ids : settled[i] \in Nat
      BY <1>c
    <3> QED BY <3>1, <3>2, <3>3, <1>e, <1>b, <1>c
  <2> QED BY <2>3, <2>4, <2>5, <2>6
<1>8. ASSUME NEW a \in Actors, Abort(a), ~overlap' PROVE TradeBody'
  BY <1>8, <1>e, <1>c DEF Abort, Failed, Finish, Step, redis, rest
<1>9. ASSUME Crash, ~overlap' PROVE TradeBody'
  BY <1>9, <1>e, <1>c DEF Crash, Busy, redis
<1>10. ASSUME Restart, ~overlap' PROVE TradeBody'
  BY <1>10, <1>b, <1>c DEF Restart
<1>11. ASSUME UNCHANGED vars, ~overlap' PROVE TradeBody'
  BY <1>11, <1>b, <1>c DEF vars, redis, process, rest, history
<1>12. ASSUME NEW m \in sent, MirrorTrade(m), ~overlap' PROVE TradeBody'
  BY <1>12, <1>b, <1>c DEF MirrorTrade, process, rest, history
<1> QED BY <1>1, <1>2, <1>3, <1>4, <1>5, <1>6, <1>7, <1>8, <1>9, <1>10, <1>11, <1>12
        DEF Next, TradeInv

(* TradeInv holds at the start.                                            *)
LEMMA TradeInit == Init => TradeInv
  BY PaperAssumption DEF Init, TradeInv, TradeBody, Fresh, Unput, Unused, Distinct, Indexed,
     Traded, Putting, Paying,
     Paid, Want, OpenSym, Recorded, NoWork, NoPos, NoSnapshot, Actors, Ids

BrokerInv == TypeOK /\ SoleInv /\ TradeInv

(* The broker's invariants hold in every behaviour.                        *)
LEMMA BrokerSound == Spec => []BrokerInv
<1>1. Init => SoleInv /\ TradeInv
  BY SoleInit, TradeInit
<1> QED BY <1>1, TypeCorrect, SoleStep, TradeStep, PTL DEF Spec, BrokerInv

(* A trade's cost is released at most once, plus once for every crash or   *)
(* exception (mock_broker.py close_position).                              *)
THEOREM SettlesOnce == Spec => []SettledOnce
<1>1. BrokerInv => SettledOnce
  BY DEF BrokerInv, TradeInv, TradeBody, Paid, SettledOnce
<1> QED BY <1>1, BrokerSound, PTL

(* A step that takes a position off positions:open, or replaces it, finds  *)
(* its cost released.                                                      *)
LEMMA RemovalStep ==
  ASSUME BrokerInv, [Next]_vars, NEW s \in Symbols,
         ~overlap, positions[s] # NoPos, positions'[s].dec # positions[s].dec
  PROVE  settled[positions[s].dec] >= 1
<1>b. TradeBody /\ Sole /\ Free /\ Seen /\ \A a \in Actors : Held(a)
  BY DEF BrokerInv, TradeInv, SoleInv, Single
<1>c. /\ positions \in [Symbols -> Position] /\ todo \in [Symbols -> Position]
  BY DEF BrokerInv, TypeOK, RedisOK, RestOK
<1>1. CASE PutPosition
  <2>1. positions[work[Consumer].sym] = NoPos
    BY <1>1, <1>b DEF PutPosition, Free, Opening, OpenSym
  <2> QED BY <1>1, <2>1, <1>c DEF PutPosition
<1>2. ASSUME NEW x \in Symbols, WatchBump(x) PROVE FALSE
  <2>1. todo[x] = positions[x] /\ todo[x] \in Position
    BY <1>2, <1>b, <1>c DEF WatchBump, Seen
  <2>2. positions'[s] = IF s = x THEN [todo[x] EXCEPT !.peak = @ + 1] ELSE positions[s]
    BY <1>2, <1>c DEF WatchBump
  <2> QED BY <2>1, <2>2 DEF Position
<1>3. ASSUME NEW a \in Actors, DelPosition(a) PROVE settled[positions[s].dec] >= 1
  <2>1. s = work[a].sym /\ pc[a] = "del_pos"
    BY <1>3, <1>c DEF DelPosition, Without
  <2>2. positions[s] = work[a].pos
    BY <2>1, <1>b DEF Held, Closing
  <2> QED BY <2>1, <2>2, <1>b DEF TradeBody, Paid
<1>4. CASE /\ ~PutPosition /\ ~\E x \in Symbols : WatchBump(x)
           /\ ~\E a \in Actors : DelPosition(a)
  <2>1. positions' = positions
    <3>1. Open => positions' = positions
      BY <1>4 DEF Open, OpenGate, OpenSize, AllocateGet, AllocateSet, PutTrade, PutOpenId,
         SaveOpen, redis
    <3>2. Watch => positions' = positions
      BY <1>4 DEF Watch, WatchStart, WatchKeep, WatchExit, SetCooldown, WatchEnd, redis
    <3>3. (\E a \in Actors : Close(a)) => positions' = positions
      BY <1>4 DEF Close, ClosePosition, FindId, FindTrade, DelOpenId, LogClose, SaveClose,
         ReleaseGet, ReleaseSet, RealizedGet, RealizedSet, redis
    <3> QED BY <3>1, <3>2, <3>3 DEF Next, Decide, ManualClose, ExpireCooldown, MirrorTrade,
               SessionEnd, Abort, Crash, Restart, vars, redis
  <2> QED BY <2>1
<1> QED BY <1>1, <1>2, <1>3, <1>4

(* A position leaves positions:open only after its cost went back to cash, *)
(* whatever crashes and exceptions came before.                            *)
THEOREM RemovalIsPaid == Spec => RemovalPaid
<1>1. BrokerInv /\ [Next]_vars =>
        [\A s \in Symbols : ~overlap /\ positions[s] # NoPos /\ positions'[s].dec # positions[s].dec
           => settled[positions[s].dec] >= 1]_vars
  BY RemovalStep
<1> QED BY <1>1, BrokerSound, PTL DEF Spec, RemovalPaid

(* Handlers that have met stay noted.                                      *)
LEMMA OverlapStays == overlap /\ [Next]_vars => overlap'
  BY DEF Next, Decide, Enter, Open, OpenGate, OpenSize, AllocateGet, AllocateSet, PutPosition,
     PutTrade, PutOpenId, SaveOpen, Watch, WatchStart, WatchKeep, WatchBump, WatchExit,
     SetCooldown, WatchEnd, Close, ClosePosition, FindId, FindTrade, DelOpenId, LogClose,
     SaveClose, ReleaseGet, ReleaseSet, DelPosition, RealizedGet, RealizedSet, ManualClose,
     ExpireCooldown, MirrorTrade, SessionEnd, Abort, Crash, Restart, vars, history

(* What trades:all holds, and what the data-service has still to put there,*)
(* is the record the engine wrote last or, of a trade it has closed, the   *)
(* one it wrote before.                                                    *)
Echoes(record, i) == \/ record = written[i]
                     \/ record = OpenTrade /\ written[i].status = "CLOSED"
EchoBody == /\ \A i \in Ids : Echoes(trades[i], i)
            /\ \A m \in sent : m.tid \in Ids /\ m.row # NoTrade /\ Echoes(m.row, m.tid)
EchoInv  == ~overlap => EchoBody

(* The three kinds of records differ.                                      *)
LEMMA RecordKinds ==
  /\ NoTrade.status = "NONE" /\ OpenTrade.status = "OPEN" /\ NoTrade # OpenTrade
  /\ \A w : ClosedTrade(w).status = "CLOSED" /\ ClosedTrade(w) # NoTrade
BY DEF NoTrade, OpenTrade, ClosedTrade

(* A step that writes no record and sends no row.                          *)
LEMMA EchoKept ==
  ASSUME EchoBody, UNCHANGED <<trades, written>>, sent' \subseteq sent PROVE EchoBody'
  BY DEF EchoBody, Echoes

(* Every step keeps EchoInv: an entry writes a trade that has left no      *)
(* trace, and sends the record it has written; an exit ends a trade of     *)
(* which only the OPEN record can be under way.                            *)
LEMMA EchoStep == BrokerInv /\ EchoInv /\ [Next]_vars => EchoInv'
<1> SUFFICES ASSUME BrokerInv, EchoInv, [Next]_vars, ~overlap' PROVE EchoBody'
  BY DEF EchoInv
<1>o. ~overlap
  BY OverlapStays
<1>b. EchoBody /\ TradeBody /\ (\A a \in Actors : Held(a)) /\ Real /\ Roles
  BY <1>o DEF EchoInv, BrokerInv, TradeInv, SoleInv, Single
<1>c. /\ Consumer \in Actors /\ trades \in [Ids -> Trade] /\ written \in [Ids -> Trade]
  BY DEF BrokerInv, TypeOK, RedisOK, HistoryOK, Actors
<1>1. CASE PutTrade
  <2>1. Want.dec \in Ids /\ written[Want.dec] = NoTrade
    BY <1>1, <1>b, <1>c DEF PutTrade, TradeBody, Putting, Roles, Recorded, Real, RealPos, Want
  <2>2. \A m \in sent : m.tid # Want.dec
    BY <2>1, <1>b, RecordKinds DEF EchoBody, Echoes
  <2>3. /\ sent' = sent /\ trades'[Want.dec] = OpenTrade /\ written'[Want.dec] = OpenTrade
        /\ \A i \in Ids \ {Want.dec} : trades'[i] = trades[i] /\ written'[i] = written[i]
    BY <1>1, <1>c, <2>1 DEF PutTrade, Want
  <2> QED BY <2>2, <2>3, <1>b DEF EchoBody, Echoes
<1>2. CASE PutOpenId
  <2>1. Want.dec \in Ids /\ written[Want.dec] = OpenTrade
    BY <1>2, <1>b, <1>c DEF PutOpenId, TradeBody, Putting, Roles, Recorded, Real, RealPos, Want
  <2>2. UNCHANGED <<trades, written>> /\ sent' = sent \cup {Row(Want.dec, OpenTrade)}
    BY <1>2 DEF PutOpenId, Post, Want, history
  <2> QED BY <2>1, <2>2, <1>b, RecordKinds DEF EchoBody, Echoes, Row
<1>3. ASSUME NEW a \in Actors, LogClose(a) PROVE EchoBody'
  <2>1. PICK i \in Ids : i = work[a].tid /\ written[i] = OpenTrade
    BY <1>3, <1>b DEF LogClose, TradeBody, Traded, Held, Closing, Real, RealPos
  <2>2. PICK r : r = ClosedTrade(work[a]) /\ r.status = "CLOSED" /\ r # NoTrade
    BY RecordKinds
  <2>3. /\ sent' = sent \cup {Row(i, r)} /\ trades'[i] = r /\ written'[i] = r
        /\ \A j \in Ids \ {i} : trades'[j] = trades[j] /\ written'[j] = written[j]
    BY <1>3, <1>c, <2>1, <2>2 DEF LogClose, Post, Payload
  <2>4. \A m \in sent : m.tid = i => m.row = OpenTrade
    BY <2>1, <1>b, RecordKinds DEF EchoBody, Echoes
  <2> QED BY <2>2, <2>3, <2>4, <1>b DEF EchoBody, Echoes, Row
<1>4. CASE SaveOpen
  BY <1>4, <1>b, EchoKept DEF SaveOpen, Return, redis, history
<1>5. ASSUME NEW a \in Actors, SaveClose(a) PROVE EchoBody'
  BY <1>5, <1>b, EchoKept DEF SaveClose, Return, redis, history
<1>6. ASSUME NEW m \in sent, MirrorTrade(m) PROVE EchoBody'
  <2>1. /\ m.tid \in Ids /\ Echoes(m.row, m.tid) /\ written' = written /\ sent' \subseteq sent
        /\ trades'[m.tid] = m.row /\ \A i \in Ids \ {m.tid} : trades'[i] = trades[i]
    BY <1>6, <1>b, <1>c DEF MirrorTrade, EchoBody, history
  <2> QED BY <2>1, <1>b DEF EchoBody, Echoes
<1>7. CASE /\ ~PutTrade /\ ~PutOpenId /\ ~SaveOpen /\ ~\E m \in sent : MirrorTrade(m)
           /\ ~\E a \in Actors : LogClose(a) \/ SaveClose(a)
  <2>1. UNCHANGED <<trades, written, sent>>
    <3>1. Open => UNCHANGED <<trades, written, sent>>
      BY <1>7 DEF Open, OpenGate, OpenSize, AllocateGet, AllocateSet, PutPosition, redis, history
    <3>2. Watch => UNCHANGED <<trades, written, sent>>
      BY DEF Watch, WatchStart, WatchKeep, WatchBump, WatchExit, SetCooldown, WatchEnd, redis,
         history
    <3>3. (\E a \in Actors : Close(a)) => UNCHANGED <<trades, written, sent>>
      BY <1>7 DEF Close, ClosePosition, FindId, FindTrade, DelOpenId, DelPosition,
         ReleaseGet, ReleaseSet, RealizedGet, RealizedSet, redis, history
    <3> QED BY <1>7, <3>1, <3>2, <3>3 DEF Next, Decide, ManualClose, ExpireCooldown, SessionEnd,
               Abort, Crash, Restart, vars, redis, history
  <2> QED BY <2>1, <1>b, EchoKept
<1> QED BY <1>1, <1>2, <1>3, <1>4, <1>5, <1>6, <1>7

(* EchoInv holds at the start.                                             *)
LEMMA EchoInit == Init => EchoInv
  BY DEF Init, EchoInv, EchoBody, Echoes

(* The record of a closed trade changes only when the data-service mirrors *)
(* the OPEN record it was sent: an entry writes a trade that is new, an    *)
(* exit one that is open, and every other row under way is the engine's    *)
(* last word.                                                              *)
LEMMA KeptStep ==
  ASSUME BrokerInv, EchoInv, [Next]_vars, ~overlap, NEW i \in ClosedIds,
         Row(i, OpenTrade) \notin sent
  PROVE  trades'[i] = trades[i]
<1>b. TradeBody /\ EchoBody
  BY DEF BrokerInv, TradeInv, EchoInv
<1>c. Consumer \in Actors /\ trades \in [Ids -> Trade] /\ sent \subseteq Rows
  BY DEF BrokerInv, TypeOK, RedisOK, Actors
<1>i. i \in Ids /\ trades[i].status = "CLOSED" /\ trades[i] = written[i]
  BY <1>b, RecordKinds DEF ClosedIds, EchoBody, Echoes
<1>1. CASE PutTrade
  <2>1. written[work[Consumer].want.dec] = NoTrade
    BY <1>1, <1>b DEF PutTrade, TradeBody, Putting, Want
  <2> QED BY <1>1, <2>1, <1>i, <1>c, RecordKinds DEF PutTrade
<1>2. ASSUME NEW a \in Actors, LogClose(a) PROVE trades'[i] = trades[i]
  <2>1. written[work[a].tid] = OpenTrade
    BY <1>2, <1>b DEF LogClose, TradeBody, Traded
  <2> QED BY <1>2, <2>1, <1>i, <1>c, RecordKinds DEF LogClose
<1>3. ASSUME NEW m \in sent, MirrorTrade(m) PROVE trades'[i] = trades[i]
  <2>1. trades' = [trades EXCEPT ![m.tid] = m.row]
    BY <1>3 DEF MirrorTrade
  <2>2. CASE m.tid # i
    BY <2>1, <2>2, <1>c, <1>i
  <2>3. CASE m.tid = i
    <3>1. m = Row(i, m.row)
      BY <2>3, <1>c DEF Rows, Row
    <3>2. m.row # OpenTrade
      BY <3>1
    <3>3. m.row = written[i]
      BY <3>2, <2>3, <1>b DEF EchoBody, Echoes
    <3> QED BY <2>1, <2>3, <3>3, <1>c, <1>i
  <2> QED BY <2>2, <2>3
<1>4. CASE /\ ~PutTrade /\ ~\E m \in sent : MirrorTrade(m)
           /\ ~\E a \in Actors : LogClose(a)
  <2>1. trades' = trades
    <3>1. Open => trades' = trades
      BY <1>4 DEF Open, OpenGate, OpenSize, AllocateGet, AllocateSet, PutPosition, PutOpenId,
         SaveOpen, redis
    <3>2. Watch => trades' = trades
      BY DEF Watch, WatchStart, WatchKeep, WatchBump, WatchExit, SetCooldown, WatchEnd, redis
    <3>3. (\E a \in Actors : Close(a)) => trades' = trades
      BY <1>4 DEF Close, ClosePosition, FindId, FindTrade, DelOpenId, DelPosition, SaveClose,
         ReleaseGet, ReleaseSet, RealizedGet, RealizedSet, redis
    <3> QED BY <1>4, <3>1, <3>2, <3>3 DEF Next, Decide, ManualClose, ExpireCooldown, SessionEnd,
               Abort, Crash, Restart, vars, redis
  <2> QED BY <2>1
<1> QED BY <1>1, <1>2, <1>3, <1>4

(* The record of a closed trade is kept, at whatever moment the row of its *)
(* closing is mirrored and whatever crashes, exceptions and retries come   *)
(* before, unless the data-service still owes trades:all the OPEN record.  *)
THEOREM ClosedStays == Spec => ClosedIsKept
<1>1. BrokerInv /\ EchoInv /\ [Next]_vars =>
        [\A i \in ClosedIds : ~overlap /\ Row(i, OpenTrade) \notin sent
           => trades'[i] = trades[i]]_vars
  BY KeptStep
<1> QED BY <1>1, BrokerSound, EchoInit, EchoStep, PTL DEF Spec, ClosedIsKept
-----------------------------------------------------------------------------
(* Invested.                                                               *)

(* What the handler under way has put into the budget and not yet into the *)
(* positions, and the copy it has read.                                    *)
Offset(a) == CASE pc[a] = "put" -> work[a].want.cost
               [] pc[a] = "del_pos" -> - work[a].pos.cost
               [] OTHER -> 0
Copied(a) == pc[a] \in {"debit", "release"} =>
               work[a].invested = budget.invested /\ work[a].cash = budget.cash

Level == /\ \A a \in Actors : Copied(a)
         /\ \A a \in Actors : Busy(a) => budget.invested = Invested + Offset(a)
         /\ (\A a \in Actors : ~Busy(a)) => budget.invested = Invested
InvestedInv == up /\ ~dirty => Level

(* The sum of zeros.                                                       *)
LEMMA SumZero ==
  ASSUME NEW S, IsFiniteSet(S), NEW f, \A x \in S : f[x] = 0
  PROVE  SumOf(f, S) = 0
<1>1. SumOf(f, S) = Weight(f, S)
  BY SumIsWeight
<1>2. Up(f, S) = {} /\ Down(f, S) = {}
  BY DEF Up, Down
<1> QED BY <1>1, <1>2, FS_EmptySet DEF Weight

(* One position changes: the cost of all changes by the difference.        *)
LEMMA InvestedMove ==
  ASSUME RedisOK, RedisOK', NEW s \in Symbols,
         \A x \in Symbols \ {s} : positions'[x].cost = positions[x].cost
  PROVE  Invested' = Invested + positions'[s].cost - positions[s].cost
<1>1. \A x \in Symbols : Costs[x] \in Int /\ Costs'[x] \in Int
  BY DEF Costs, RedisOK, Position
<1>2. \A x \in Symbols \ {s} : Costs'[x] = Costs[x]
  BY DEF Costs
<1>3. Costs[s] = positions[s].cost /\ Costs'[s] = positions'[s].cost
  BY DEF Costs
<1>4. SumOf(Costs', Symbols) = SumOf(Costs, Symbols) + Costs'[s] - Costs[s]
  BY <1>1, <1>2, SumChange, PaperAssumption
<1> QED BY <1>3, <1>4 DEF Invested

(* No position changes its cost.                                           *)
LEMMA InvestedKept ==
  ASSUME RedisOK, RedisOK', \A x \in Symbols : positions'[x].cost = positions[x].cost
  PROVE  Invested' = Invested
<1>1. Costs' = Costs
  BY DEF Costs
<1> QED BY <1>1 DEF Invested

(* No position costs more than all of them.                                *)
LEMMA CostInside ==
  ASSUME RedisOK, NEW s \in Symbols
  PROVE  positions[s].cost <= Invested /\ Invested \in Nat
<1>1. PICK R : R = Symbols \ {s}
  OBVIOUS
<1>2. IsFiniteSet(R) /\ s \notin R /\ R \cup {s} = Symbols
  BY <1>1, FS_RemoveElement, PaperAssumption
<1>3. \A x \in R \cup {s} : Costs[x] \in Int /\ Costs[x] \in Nat
  BY <1>2 DEF Costs, RedisOK, Position
<1>4. SumOf(Costs, R) \in Nat
  BY <1>2, <1>3, SumNat
<1>5. SumOf(Costs, R \cup {s}) = Costs[s] + SumOf(Costs, R)
  BY <1>2, <1>3, SumAdd
<1>6. Costs[s] = positions[s].cost
  BY DEF Costs
<1>7. positions[s].cost \in Nat
  BY DEF RedisOK, Position
<1>8. Invested = positions[s].cost + SumOf(Costs, R)
  BY <1>2, <1>5, <1>6 DEF Invested
<1> HIDE DEF Invested
<1> QED BY <1>4, <1>7, <1>8

(* Level after a step of the one handler under way.                        *)
LEMMA LevelMove ==
  ASSUME TypeOK, TypeOK', Sole, NEW a \in Actors, Busy(a), Level,
         \A b \in Actors \ {a} : pc'[b] = pc[b] /\ work'[b] = work[b],
         Copied(a)',
         Busy(a)' => budget'.invested = Invested' + Offset(a)',
         ~Busy(a)' => budget'.invested = Invested'
  PROVE  Level'
<1>1. \A b \in Actors \ {a} : ~Busy(b) /\ ~Busy(b)'
  BY DEF Sole, Busy
<1>2. \A b \in Actors \ {a} : Copied(b)'
  BY <1>1 DEF Busy, Copied
<1> QED BY <1>1, <1>2 DEF Level

(* Each step of open_position keeps Level: allocate() adds the cost that   *)
(* HSET then brings to the positions.                                      *)
LEMMA LevelOpen ==
  ASSUME TypeOK, TypeOK', SoleInv, ~dirty, Level, Open PROVE Level'
<1>b. Sole /\ Free /\ \A b \in Actors : Held(b)
  BY DEF SoleInv, Single
<1>c. /\ Consumer \in Actors
      /\ pc \in [Actors -> Labels] /\ work \in [Actors -> Work]
      /\ positions \in [Symbols -> Position]
      /\ pc[Consumer] \notin {"idle", "done", "watch"} => work[Consumer].sym \in Symbols
      /\ RedisOK /\ RedisOK' /\ budget \in [cash : Int, invested : Nat]
      /\ Invested \in Nat
  BY InvestedType DEF Actors, TypeOK, RedisOK, ProcessOK
<1>p. Busy(Consumer)
  BY DEF Open, OpenGate, OpenSize, AllocateGet, AllocateSet, PutPosition, PutTrade, PutOpenId,
         SaveOpen, Busy
<1>l. Copied(Consumer) /\ budget.invested = Invested + Offset(Consumer)
  BY <1>p, <1>c DEF Level
<1>k. positions' = positions => Invested' = Invested
  BY <1>c, InvestedKept
<1> USE DEF Copied, Offset, Busy
<1>1. CASE OpenGate
  BY <1>1, <1>b, <1>c, <1>p, <1>l, <1>k, LevelMove DEF OpenGate, Goto, Finish, Step, redis
<1>2. ASSUME NEW lot \in LotCosts, NEW cap \in LotCaps, OpenSize(lot, cap) PROVE Level'
  BY <1>2, <1>b, <1>c, <1>p, <1>l, <1>k, LevelMove DEF OpenSize, Finish, Step, redis
<1>3. CASE AllocateGet
  <2>1. /\ \A b \in Actors \ {Consumer} : pc'[b] = pc[b] /\ work'[b] = work[b]
        /\ pc[Consumer] = "fund" /\ pc'[Consumer] \in {"idle", "debit"}
        /\ UNCHANGED <<budget, positions>>
    BY <1>3, <1>c DEF AllocateGet, Finish, Step, redis
  <2>2. pc'[Consumer] = "debit" => work'[Consumer].invested = budget.invested
                                   /\ work'[Consumer].cash = budget.cash
    BY <1>3, <1>c DEF AllocateGet, Finish, Step, Work
  <2> QED BY <2>1, <2>2, <1>b, <1>c, <1>p, <1>l, <1>k, LevelMove
<1>4. CASE AllocateSet
  <2>1. /\ \A b \in Actors \ {Consumer} : pc'[b] = pc[b] /\ work'[b] = work[b]
        /\ pc[Consumer] = "debit" /\ pc'[Consumer] = "put" /\ work'[Consumer] = work[Consumer]
        /\ UNCHANGED positions
        /\ budget'.invested = work[Consumer].invested + work[Consumer].want.cost
    BY <1>4, <1>c DEF AllocateSet, Goto, Step
  <2> QED BY <2>1, <1>b, <1>c, <1>p, <1>l, <1>k, LevelMove
<1>5. CASE PutPosition
  <2>1. /\ \A b \in Actors \ {Consumer} : pc'[b] = pc[b] /\ work'[b] = work[b]
        /\ pc[Consumer] = "put" /\ pc'[Consumer] = "put_trade"
        /\ UNCHANGED budget
        /\ positions' = [positions EXCEPT ![work[Consumer].sym] = work[Consumer].want]
    BY <1>5, <1>c DEF PutPosition, Goto, Step
  <2>2. work[Consumer].sym \in Symbols /\ positions[work[Consumer].sym].cost = 0
    BY <2>1, <1>b, <1>c DEF Free, Opening, OpenSym, NoPos
  <2>3. Invested' = Invested + work[Consumer].want.cost - 0
    BY <2>1, <2>2, <1>c, InvestedMove
  <2>4. work[Consumer].want.cost \in Nat
    BY <1>c DEF Work, Position
  <2> QED BY <2>1, <2>3, <2>4, <1>b, <1>c, <1>p, <1>l, LevelMove
<1>6. CASE PutTrade \/ PutOpenId \/ SaveOpen
  <2>1. /\ \A b \in Actors \ {Consumer} : pc'[b] = pc[b] /\ work'[b] = work[b]
        /\ pc[Consumer] \in Recorded /\ pc'[Consumer] \in {"put_id", "save", "idle"}
        /\ UNCHANGED <<budget, positions>>
    BY <1>6, <1>c DEF PutTrade, PutOpenId, SaveOpen, Goto, Finish, Step, redis, Recorded
  <2> QED BY <2>1, <1>b, <1>c, <1>p, <1>l, <1>k, LevelMove DEF Recorded
<1> QED BY <1>1, <1>2, <1>3, <1>4, <1>5, <1>6 DEF Open

(* Each step of close_position keeps Level: release() takes off the cost of*)
(* the position that HDEL then removes, and is never cut off at 0.         *)
LEMMA LevelClose ==
  ASSUME TypeOK, TypeOK', SoleInv, ~dirty, Level, NEW a \in Actors, Close(a) PROVE Level'
<1>b. Sole /\ Held(a)
  BY DEF SoleInv, Single
<1>c. /\ pc \in [Actors -> Labels] /\ work \in [Actors -> Work]
      /\ positions \in [Symbols -> Position]
      /\ pc[a] \notin {"idle", "done", "watch"} => work[a].sym \in Symbols
      /\ RedisOK /\ RedisOK' /\ budget \in [cash : Int, invested : Nat]
      /\ Invested \in Nat
  BY InvestedType DEF TypeOK, RedisOK, ProcessOK
<1>p. Busy(a)
  BY DEF Close, ClosePosition, FindId, FindTrade, DelOpenId, LogClose, SaveClose, ReleaseGet,
         ReleaseSet, DelPosition, RealizedGet, RealizedSet, Busy
<1>l. Copied(a) /\ budget.invested = Invested + Offset(a)
  BY <1>p DEF Level
<1>k. positions' = positions => Invested' = Invested
  BY <1>c, InvestedKept
<1> USE DEF Copied, Offset, Busy
(* Steps that touch neither the budget nor the positions.                  *)
<1>s. ASSUME UNCHANGED <<budget, positions>>,
             \A b \in Actors \ {a} : pc'[b] = pc[b] /\ work'[b] = work[b],
             pc[a] \notin {"put", "del_pos"}, pc'[a] \notin {"debit", "release", "put", "del_pos"}
      PROVE  Level'
  BY <1>s, <1>b, <1>c, <1>p, <1>l, <1>k, LevelMove
<1>a. AfterClose(a) => /\ \A b \in Actors \ {a} : pc'[b] = pc[b] /\ work'[b] = work[b]
                       /\ pc'[a] \in {"done", "gate", "cool", "watch"}
  BY <1>c DEF AfterClose, Finish, Step
<1>1. ASSUME NEW g \in Moves, ClosePosition(a, g) PROVE Level'
  <2>1. CASE positions[work[a].sym] = NoPos
    BY <1>1, <2>1, <1>a, <1>s DEF ClosePosition, redis
  <2>2. CASE positions[work[a].sym] # NoPos
    BY <1>1, <2>2, <1>c, <1>s DEF ClosePosition, Step, redis
  <2> QED BY <2>1, <2>2
<1>2. CASE FindId(a) \/ FindTrade(a) \/ RealizedGet(a)
  BY <1>2, <1>c, <1>s DEF FindId, FindTrade, RealizedGet, Step, redis
<1>3. CASE DelOpenId(a) \/ LogClose(a) \/ SaveClose(a)
  BY <1>3, <1>c, <1>s DEF DelOpenId, LogClose, SaveClose, Untraded, Goto, Step, redis
<1>4. CASE ReleaseGet(a)
  <2>1. /\ \A b \in Actors \ {a} : pc'[b] = pc[b] /\ work'[b] = work[b]
        /\ pc[a] = "balance" /\ pc'[a] = "release"
        /\ UNCHANGED <<budget, positions>>
    BY <1>4, <1>c DEF ReleaseGet, Step, redis
  <2>2. work'[a].invested = budget.invested /\ work'[a].cash = budget.cash
    BY <1>4, <1>c DEF ReleaseGet, Step, Work
  <2> QED BY <2>1, <2>2, <1>b, <1>c, <1>p, <1>l, <1>k, LevelMove
<1>5. CASE ReleaseSet(a)
  <2> DEFINE p == work[a].pos
  <2>1. /\ \A b \in Actors \ {a} : pc'[b] = pc[b] /\ work'[b] = work[b]
        /\ pc[a] = "release" /\ pc'[a] = "del_pos" /\ work'[a] = work[a]
        /\ UNCHANGED positions
        /\ budget'.invested = IF work[a].invested > p.cost THEN work[a].invested - p.cost ELSE 0
    BY <1>5, <1>c DEF ReleaseSet, Released, Goto, Step
  <2>2. work[a].sym \in Symbols /\ positions[work[a].sym] = p
    BY <2>1, <1>b, <1>c DEF Held, Closing
  <2>3. p.cost <= Invested /\ p.cost \in Nat
    BY <2>2, <1>c, CostInside DEF Position
  <2>4. budget'.invested = Invested - p.cost
    BY <2>1, <2>3, <1>l, <1>c
  <2> QED BY <2>1, <2>3, <2>4, <1>b, <1>c, <1>p, <1>k, LevelMove
<1>6. CASE DelPosition(a)
  <2>1. /\ \A b \in Actors \ {a} : pc'[b] = pc[b] /\ work'[b] = work[b]
        /\ pc[a] = "del_pos" /\ pc'[a] = "total"
        /\ UNCHANGED budget
        /\ positions' = [positions EXCEPT ![work[a].sym] = NoPos]
    BY <1>6, <1>c DEF DelPosition, Without, Goto, Step
  <2>2. work[a].sym \in Symbols /\ positions[work[a].sym] = work[a].pos
    BY <2>1, <1>b, <1>c DEF Held, Closing
  <2>3. Invested' = Invested + 0 - work[a].pos.cost
    <3>1. positions'[work[a].sym].cost = 0
      BY <2>1, <2>2, <1>c DEF NoPos
    <3> QED BY <2>1, <2>2, <3>1, <1>c, InvestedMove
  <2>4. work[a].pos.cost \in Nat
    BY <1>c DEF Work, Position
  <2> QED BY <2>1, <2>3, <2>4, <1>b, <1>c, <1>p, <1>l, LevelMove
<1>7. CASE RealizedSet(a)
  BY <1>7, <1>a, <1>s DEF RealizedSet
<1> QED BY <1>1, <1>2, <1>3, <1>4, <1>5, <1>6, <1>7 DEF Close

(* Each step of the watcher keeps Level.                                   *)
LEMMA LevelWatch ==
  ASSUME TypeOK, TypeOK', SoleInv, ~dirty, Level, Watch, ~dirty' PROVE Level'
<1>b. Sole /\ Seen
  BY DEF SoleInv, Single
<1>c. /\ Consumer \in Actors
      /\ pc \in [Actors -> Labels] /\ work \in [Actors -> Work]
      /\ positions \in [Symbols -> Position] /\ todo \in [Symbols -> Position]
      /\ RedisOK /\ RedisOK' /\ budget \in [cash : Int, invested : Nat]
      /\ Invested \in Nat
  BY InvestedType DEF Actors, TypeOK, RedisOK, ProcessOK, RestOK
<1> USE DEF Copied, Offset, Busy
<1>k. (\A x \in Symbols : positions'[x].cost = positions[x].cost) => Invested' = Invested
  BY <1>c, InvestedKept
<1>1. CASE WatchStart
  <2>1. \A b \in Actors : ~Busy(b)
    BY <1>1 DEF WatchStart, Enter
  <2>2. /\ \A b \in Actors \ {Consumer} : pc'[b] = pc[b] /\ work'[b] = work[b]
        /\ pc'[Consumer] = "watch" /\ UNCHANGED <<budget, positions>>
    BY <1>1, <1>c DEF WatchStart, Goto, Step, redis
  <2>3. Invested' = Invested /\ budget.invested = Invested
    BY <2>1, <2>2, <1>k DEF Level
  <2> QED BY <2>1, <2>2, <2>3, <1>c DEF Level
<1>2. CASE ~WatchStart
  <2>1. pc[Consumer] \in {"watch", "cool"}
    BY <1>2 DEF Watch, WatchKeep, WatchBump, WatchExit, SetCooldown, WatchEnd
  <2>2. budget.invested = Invested
    BY <2>1, <1>c DEF Level
  <2>3. /\ \A b \in Actors \ {Consumer} : pc'[b] = pc[b] /\ work'[b] = work[b]
        /\ pc'[Consumer] \in {"watch", "close", "idle"} /\ UNCHANGED budget
    BY <1>2, <2>1, <1>c DEF Watch, WatchKeep, WatchBump, WatchExit, SetCooldown, WatchEnd, Goto,
       Finish, Step, redis
  <2>4. \A x \in Symbols : positions'[x].cost = positions[x].cost
    <3>1. ASSUME NEW s \in Symbols, WatchBump(s), NEW x \in Symbols
          PROVE  positions'[x].cost = positions[x].cost
      BY <3>1, <1>b, <1>c DEF WatchBump, Seen, Position
    <3> QED BY <1>2, <3>1 DEF Watch, WatchKeep, WatchExit, SetCooldown, WatchEnd, redis
  <2> QED BY <2>1, <2>2, <2>3, <2>4, <1>b, <1>c, <1>k, LevelMove
<1> QED BY <1>1, <1>2

(* Every step keeps InvestedInv; reconcile_invested() restores it at a     *)
(* restart.                                                                *)
LEMMA LevelStep == TypeOK /\ TypeOK' /\ SoleInv /\ InvestedInv /\ [Next]_vars => InvestedInv'
<1> SUFFICES ASSUME TypeOK, TypeOK', SoleInv, InvestedInv, [Next]_vars, up', ~dirty'
             PROVE  Level'
  BY DEF InvestedInv
<1>c. /\ Consumer \in Actors /\ Requests \subseteq Actors
      /\ pc \in [Actors -> Labels] /\ work \in [Actors -> Work]
      /\ RedisOK /\ RedisOK' /\ budget \in [cash : Int, invested : Nat]
      /\ Invested \in Nat
  BY InvestedType DEF Actors, TypeOK, RedisOK, ProcessOK, RestOK
<1>l. ASSUME up, ~dirty PROVE Level
  BY <1>l DEF InvestedInv
<1>k. positions' = positions => Invested' = Invested
  BY <1>c, InvestedKept
<1>e. ASSUME NEW a \in Actors, Enter(a), up, pc[a] = "idle", pc'[a] \in {"gate", "close"},
             \A b \in Actors \ {a} : pc'[b] = pc[b] /\ work'[b] = work[b],
             UNCHANGED <<budget, positions>>
      PROVE  Level'
  <2>1. ~dirty /\ \A b \in Actors : ~Busy(b)
    BY <1>e DEF Enter, Busy
  <2>2. Invested' = Invested /\ budget.invested = Invested
    BY <2>1, <1>e, <1>k, <1>l DEF Level
  <2> QED BY <2>1, <2>2, <1>e, <1>c DEF Level, Copied, Offset, Busy
<1>u. ASSUME UNCHANGED <<budget, positions, pc, work>>, up, ~dirty PROVE Level'
  <2>1. Invested' = Invested
    BY <1>u, <1>k
  <2> QED BY <2>1, <1>u, <1>l DEF Level, Copied, Offset, Busy
<1>1. ASSUME NEW s \in Symbols, NEW side \in {"BUY", "SELL"}, Decide(s, side) PROVE Level'
  BY <1>1, <1>e, <1>c DEF Decide, Step, redis
<1>2. CASE Open
  <2>1. UNCHANGED <<up, dirty>>
    BY <1>2 DEF Open, OpenGate, OpenSize, AllocateGet, AllocateSet, PutPosition, PutTrade,
       PutOpenId, SaveOpen, rest, history
  <2> QED BY <1>2, <2>1, <1>l, LevelOpen
<1>3. CASE Watch
  <2>1. UNCHANGED up
    BY <1>3 DEF Watch, WatchStart, WatchKeep, WatchBump, WatchExit, SetCooldown, WatchEnd, rest
  <2>3. ~dirty
    BY <1>3 DEF Watch, WatchStart, WatchKeep, WatchBump, WatchExit, SetCooldown, WatchEnd, Enter,
       history
  <2> QED BY <1>3, <2>1, <2>3, <1>l, LevelWatch
<1>4. ASSUME NEW a \in Actors, Close(a) PROVE Level'
  <2>1. UNCHANGED <<up, dirty>>
    BY <1>4 DEF Close, ClosePosition, FindId, FindTrade, DelOpenId, LogClose, SaveClose,
       ReleaseGet, ReleaseSet, DelPosition, RealizedGet, RealizedSet, rest, history
  <2> QED BY <1>4, <2>1, <1>l, LevelClose
<1>5. ASSUME NEW r \in Requests, NEW s \in Symbols, ManualClose(r, s) PROVE Level'
  BY <1>5, <1>e, <1>c DEF ManualClose, Step, redis
<1>6. ASSUME NEW s \in Symbols, ExpireCooldown(s) PROVE Level'
  BY <1>6, <1>u DEF ExpireCooldown, process, rest
<1>7. CASE SessionEnd
  BY <1>7, <1>u DEF SessionEnd, redis, history
<1>8. CASE Crash \/ \E a \in Actors : Abort(a)
  BY <1>8 DEF Crash, Abort
<1>9. CASE Restart
  <2>1. \A a \in Actors : ~Busy(a)
    BY <1>9 DEF Restart, SoleInv, Downed
  <2>2. UNCHANGED <<positions, pc, work>> /\ budget'.invested = Invested
    BY <1>9 DEF Restart, Reconciled
  <2> QED BY <2>1, <2>2, <1>k DEF Level, Copied, Busy
<1>10. CASE UNCHANGED vars
  BY <1>10, <1>u DEF vars, redis, process, rest, history
<1>11. ASSUME NEW m \in sent, MirrorTrade(m) PROVE Level'
  BY <1>11, <1>u DEF MirrorTrade, process, rest, history
<1> QED BY <1>1, <1>2, <1>3, <1>4, <1>5, <1>6, <1>7, <1>8, <1>9, <1>10, <1>11 DEF Next

(* InvestedInv holds at the start.                                         *)
LEMMA LevelInit == Init => InvestedInv
<1> SUFFICES ASSUME Init PROVE Level
  BY DEF InvestedInv
<1>1. \A s \in Symbols : Costs[s] = 0
  BY DEF Init, Costs, NoSnapshot, NoPos
<1>2. Invested = 0
  BY <1>1, PaperAssumption, SumZero DEF Invested
<1> QED BY <1>2 DEF Init, Level, Copied, Busy

(* Between handlers, budget:state says the cost of the open positions is   *)
(* invested (budget.py, reconcile_invested), unless handlers have          *)
(* overlapped or failed since the last restart.                            *)
THEOREM InvestedSound == Spec => []InvestedMatches
<1>1. InvestedInv => InvestedMatches
  BY DEF InvestedInv, Level, InvestedMatches, Quiet
<1> QED BY <1>1, BrokerSound, LevelInit, LevelStep, PTL DEF Spec, BrokerInv
-----------------------------------------------------------------------------
(* The three views of an open position.                                    *)

(* An opening has yet to write the index or the trade; a close has deleted *)
(* the index or ended the trade, and not yet removed the position.         *)
Ending == {"save_close", "balance", "release", "del_pos"}
Unlisted(s) == \/ pc[Consumer] \in {"put_trade", "put_id"} /\ work[Consumer].sym = s
               \/ \E a \in Actors : work[a].sym = s /\ pc[a] \in {"log"} \cup Ending
Ended(s)    == \/ pc[Consumer] = "put_trade" /\ work[Consumer].sym = s
               \/ \E a \in Actors : work[a].sym = s /\ pc[a] \in Ending

Listed(s) == /\ Unlisted(s) \/ openId[s] = positions[s].dec
             /\ positions[s] # NoPos =>
                  (written[positions[s].dec].status = "OPEN" <=> ~Ended(s))
Backed(i) == written[i].status = "OPEN" => \E s \in Symbols : positions[s].dec = i

IndexBody == /\ \A s \in Symbols : Listed(s)
             /\ \A i \in Ids : Backed(i)
             /\ \A a \in Actors : pc[a] = "del_id" => work[a].tid # 0
IndexInv  == Clean => IndexBody

(* A step that leaves the three views and their exceptions alone.          *)
LEMMA IndexKept ==
  ASSUME TypeOK, IndexBody, UNCHANGED <<openId, written>>,
         \A s \in Symbols : positions'[s].dec = positions[s].dec
                            /\ (positions'[s] # NoPos => positions[s] # NoPos),
         \A s \in Symbols : (Unlisted(s)' <=> Unlisted(s)) /\ (Ended(s)' <=> Ended(s)),
         \A a \in Actors : pc'[a] = "del_id" => work'[a].tid # 0
  PROVE  IndexBody'
  BY DEF IndexBody, Listed, Backed

(* A step of one handler that writes none of the three views.              *)
LEMMA IndexMove ==
  ASSUME TypeOK, IndexBody, NEW a \in Actors, UNCHANGED <<openId, written, positions>>,
         \A b \in Actors \ {a} : pc'[b] = pc[b] /\ work'[b] = work[b],
         \/ /\ pc[a] \notin {"put_trade", "put_id", "log"} \cup Ending
            /\ pc'[a] \notin {"put_trade", "put_id", "log"} \cup Ending
         \/ /\ work'[a].sym = work[a].sym /\ pc[a] \in Ending /\ pc'[a] \in Ending,
         pc'[a] = "del_id" => work'[a].tid # 0
  PROVE  IndexBody'
<1>0. Consumer \in Actors
  BY DEF Actors
<1>1. \A s \in Symbols : (Unlisted(s)' <=> Unlisted(s)) /\ (Ended(s)' <=> Ended(s))
  BY <1>0 DEF Unlisted, Ended, Ending
<1>2. \A b \in Actors : pc'[b] = "del_id" => work'[b].tid # 0
  BY DEF IndexBody
<1> QED BY <1>1, <1>2, IndexKept

(* Each step of open_position keeps the views in step.                     *)
LEMMA IndexOpen ==
  ASSUME TypeOK, SoleInv, TradeInv, Clean, IndexBody, Open PROVE IndexBody'
<1>b. TradeBody /\ Sole /\ Free /\ Roles /\ Real
  BY DEF Clean, TradeInv, SoleInv, Single
<1>c. /\ Consumer \in Actors
      /\ pc \in [Actors -> Labels] /\ work \in [Actors -> Work]
      /\ positions \in [Symbols -> Position] /\ openId \in [Symbols -> 0..MaxDecisions]
      /\ written \in [Ids -> Trade]
      /\ pc[Consumer] \notin {"idle", "done", "watch"} => work[Consumer].sym \in Symbols
  BY DEF Actors, TypeOK, RedisOK, ProcessOK, HistoryOK
<1>p. /\ \A b \in Actors \ {Consumer} : pc[b] \in {"idle", "done"}
      /\ Want # NoPos /\ Want.dec \in Ids /\ Want.dec # 0
  <2>1. pc[Consumer] \in {"gate"} \cup Opening \cup Recorded
    BY DEF Open, OpenGate, OpenSize, AllocateGet, AllocateSet, PutPosition, PutTrade, PutOpenId,
         SaveOpen, Opening, Recorded
  <2>2. Busy(Consumer)
    BY <2>1 DEF Busy, Opening, Recorded
  <2> QED BY <2>1, <2>2, <1>b, <1>c, PaperAssumption DEF Sole, Busy, Roles, Real, RealPos, Want,
             Ids
<1>n. NoPos.dec = 0 /\ NoTrade.status = "NONE" /\ OpenTrade.status = "OPEN"
  BY DEF NoPos, NoTrade, OpenTrade
<1>1. CASE OpenGate
  BY <1>1, <1>c, IndexMove DEF OpenGate, Goto, Finish, Step, Ending, redis, history
<1>2. ASSUME NEW lot \in LotCosts, NEW cap \in LotCaps, OpenSize(lot, cap) PROVE IndexBody'
  BY <1>2, <1>c, IndexMove DEF OpenSize, Finish, Step, Ending, redis, history
<1>3. CASE AllocateGet
  BY <1>3, <1>c, IndexMove DEF AllocateGet, Finish, Step, Ending, redis, history
<1>4. CASE AllocateSet
  BY <1>4, <1>c, IndexMove DEF AllocateSet, Goto, Step, Ending
<1>5. CASE PutPosition
  <2>1. /\ pc' = [pc EXCEPT ![Consumer] = "put_trade"] /\ pc[Consumer] = "put" /\ work' = work
        /\ positions' = [positions EXCEPT ![OpenSym] = Want]
        /\ UNCHANGED <<openId, written>>
    BY <1>5, <1>c DEF PutPosition, Goto, Step, OpenSym, Want, history
  <2>2. OpenSym \in Symbols /\ positions[OpenSym] = NoPos /\ written[Want.dec] = NoTrade
    BY <2>1, <1>b, <1>c, <1>p DEF Free, Opening, OpenSym, TradeBody, Fresh, Unput, Unused,
       Recorded
  <2>3. positions'[OpenSym] = Want /\ \A s \in Symbols \ {OpenSym} : positions'[s] = positions[s]
    BY <2>1, <2>2, <1>c
  <2>4. Unlisted(OpenSym)' /\ Ended(OpenSym)'
    BY <2>1, <1>c DEF Unlisted, Ended, OpenSym
  <2>5. \A s \in Symbols \ {OpenSym} : (Unlisted(s)' <=> Unlisted(s)) /\ (Ended(s)' <=> Ended(s))
    BY <2>1, <1>c, <1>p DEF Unlisted, Ended, OpenSym, Ending
  <2>0. OpenSym' = OpenSym
    BY <2>1 DEF OpenSym
  <2>9. Listed(OpenSym)'
    BY <2>0, <2>1, <2>2, <2>3, <2>4, <1>n DEF Listed
  <2>6. ASSUME NEW s \in Symbols PROVE Listed(s)'
    BY <2>0, <2>1, <2>3, <2>5, <2>9 DEF IndexBody, Listed
  <2>7. ASSUME NEW i \in Ids, written[i].status = "OPEN"
        PROVE \E s \in Symbols : positions'[s].dec = i
    <3>1. PICK s \in Symbols : positions[s].dec = i
      BY <2>7 DEF IndexBody, Backed
    <3>2. s # OpenSym
      BY <3>1, <2>2, <1>n, PaperAssumption DEF Ids
    <3> QED BY <3>1, <3>2, <2>3
  <2>8. \A i \in Ids : Backed(i)'
    BY <2>1, <2>7 DEF Backed
  <2> QED BY <2>1, <2>6, <2>8, <1>c DEF IndexBody
<1>6. CASE PutTrade
  <2>1. /\ pc' = [pc EXCEPT ![Consumer] = "put_id"] /\ pc[Consumer] = "put_trade" /\ work' = work
        /\ written' = [written EXCEPT ![Want.dec] = OpenTrade]
        /\ UNCHANGED <<openId, positions>>
    BY <1>6, <1>c DEF PutTrade, Goto, Step, Want
  <2>2. OpenSym \in Symbols /\ positions[OpenSym] = Want
    BY <2>1, <1>b, <1>c DEF Free, Recorded, OpenSym
  <2>3. written'[Want.dec] = OpenTrade /\ \A i \in Ids \ {Want.dec} : written'[i] = written[i]
    BY <2>1, <1>p, <1>c
  <2>4. \A s \in Symbols : Unlisted(s)' <=> Unlisted(s)
    BY <2>1, <1>c, <1>p DEF Unlisted, Ending
  <2>5. ~Ended(OpenSym)' /\ \A s \in Symbols \ {OpenSym} : (Ended(s)' <=> Ended(s))
    BY <2>1, <1>c, <1>p DEF Ended, OpenSym, Ending
  <2>6. ASSUME NEW s \in Symbols \ {OpenSym}, positions[s] # NoPos
        PROVE  positions[s].dec \in Ids \ {Want.dec}
    BY <2>6, <2>2, <1>p, <1>b DEF TradeBody, Distinct, Real, RealPos
  <2>0. OpenSym' = OpenSym
    BY <2>1 DEF OpenSym
  <2>9. Listed(OpenSym)'
    <3>1. positions'[OpenSym] = Want /\ written'[Want.dec].status = "OPEN" /\ ~Ended(OpenSym)'
      BY <2>1, <2>2, <2>3, <2>5, <1>n
    <3>2. Unlisted(OpenSym)'
      BY <2>0, <2>1, <1>c DEF Unlisted, OpenSym
    <3> QED BY <2>0, <3>1, <3>2 DEF Listed
  <2>7. ASSUME NEW s \in Symbols PROVE Listed(s)'
    <3>1. CASE s # OpenSym /\ positions[s] # NoPos
      <4>1. written'[positions[s].dec] = written[positions[s].dec]
        BY <3>1, <2>3, <2>6
      <4> QED BY <3>1, <4>1, <2>1, <2>4, <2>5 DEF IndexBody, Listed
    <3>2. CASE s # OpenSym /\ positions[s] = NoPos
      BY <3>2, <2>1, <2>4 DEF IndexBody, Listed
    <3> QED BY <3>1, <3>2, <2>9, <2>0
  <2>8. \A i \in Ids : Backed(i)'
    BY <2>1, <2>2, <2>3 DEF Backed, IndexBody
  <2> QED BY <2>1, <2>7, <2>8, <1>c DEF IndexBody
<1>7. CASE PutOpenId
  <2>1. /\ pc' = [pc EXCEPT ![Consumer] = "save"] /\ pc[Consumer] = "put_id" /\ work' = work
        /\ openId' = [openId EXCEPT ![OpenSym] = Want.dec]
        /\ UNCHANGED <<written, positions>>
    BY <1>7, <1>c DEF PutOpenId, Goto, Step, Want, OpenSym, history
  <2>2. OpenSym \in Symbols /\ positions[OpenSym] = Want
    BY <2>1, <1>b, <1>c DEF Free, Recorded, OpenSym
  <2>3. openId'[OpenSym] = Want.dec /\ \A s \in Symbols \ {OpenSym} : openId'[s] = openId[s]
    BY <2>1, <2>2, <1>c
  <2>4. \A s \in Symbols \ {OpenSym} : Unlisted(s)' <=> Unlisted(s)
    BY <2>1, <1>c, <1>p DEF Unlisted, OpenSym, Ending
  <2>5. \A s \in Symbols : Ended(s)' <=> Ended(s)
    BY <2>1, <1>c, <1>p DEF Ended, Ending
  <2>6. \A s \in Symbols : Listed(s)'
    BY <2>1, <2>2, <2>3, <2>4, <2>5 DEF IndexBody, Listed
  <2> QED BY <2>1, <2>6, <1>c DEF IndexBody, Backed
<1>8. CASE SaveOpen
  BY <1>8, <1>c, IndexMove DEF SaveOpen, Finish, Step, Ending, redis, history
<1> QED BY <1>1, <1>2, <1>3, <1>4, <1>5, <1>6, <1>7, <1>8 DEF Open

(* Each step of close_position keeps the views in step: it finds the trade *)
(* of the position it closes.                                              *)
LEMMA IndexClose ==
  ASSUME TypeOK, SoleInv, TradeInv, EchoBody, Clean, IndexBody, NEW a \in Actors, Close(a)
  PROVE  IndexBody'
<1>b. TradeBody /\ Sole /\ Held(a) /\ Roles /\ Real
  BY DEF Clean, TradeInv, SoleInv, Single
<1>c. /\ Consumer \in Actors
      /\ pc \in [Actors -> Labels] /\ work \in [Actors -> Work]
      /\ positions \in [Symbols -> Position] /\ openId \in [Symbols -> 0..MaxDecisions]
      /\ written \in [Ids -> Trade]
      /\ pc[a] \notin {"idle", "done", "watch"} => work[a].sym \in Symbols
  BY DEF Actors, TypeOK, RedisOK, ProcessOK, HistoryOK
<1>p. pc[a] \in Closing \cup {"close", "total", "record"}
  BY DEF Close, ClosePosition, FindId, FindTrade, DelOpenId, LogClose, SaveClose, ReleaseGet,
         ReleaseSet, DelPosition, RealizedGet, RealizedSet, Closing
<1>s. \A b \in Actors \ {a} : pc[b] \in {"idle", "done"}
  <2>1. Busy(a)
    BY <1>p DEF Closing, Busy
  <2> QED BY <2>1, <1>b DEF Sole, Busy
<1>h. pc[a] \in Closing => /\ positions[work[a].sym] = work[a].pos /\ work[a].pos # NoPos
                           /\ work[a].pos.dec \in Ids /\ work[a].pos.dec # 0
  BY <1>b, <1>c, PaperAssumption DEF Held, Real, RealPos, Ids
<1>n. NoPos.dec = 0 /\ NoTrade.status = "NONE" /\ \A w : ClosedTrade(w).status = "CLOSED"
  BY DEF NoPos, NoTrade, ClosedTrade
<1>i. pc[a] \in {"find_id", "find_trade", "del_id"} =>
        openId[work[a].sym] = positions[work[a].sym].dec
        /\ written[positions[work[a].sym].dec].status = "OPEN"
  <2> SUFFICES ASSUME pc[a] \in {"find_id", "find_trade", "del_id"}
               PROVE  openId[work[a].sym] = positions[work[a].sym].dec
                      /\ written[positions[work[a].sym].dec].status = "OPEN"
    OBVIOUS
  <2>1. work[a].sym \in Symbols /\ positions[work[a].sym] # NoPos
    BY <1>c, <1>h DEF Closing
  <2>2. \A b \in Actors : pc[b] \notin {"put_trade", "put_id", "log"} \cup Ending
    BY <1>s DEF Ending
  <2>3. ~Unlisted(work[a].sym) /\ ~Ended(work[a].sym)
    BY <2>2, <1>c DEF Unlisted, Ended
  <2> QED BY <2>1, <2>3 DEF IndexBody, Listed
<1>a. AfterClose(a) => /\ \A b \in Actors \ {a} : pc'[b] = pc[b] /\ work'[b] = work[b]
                       /\ pc'[a] \in {"done", "gate", "cool", "watch"}
  BY <1>c DEF AfterClose, Finish, Step
<1>1. ASSUME NEW g \in Moves, ClosePosition(a, g) PROVE IndexBody'
  <2>1. CASE positions[work[a].sym] = NoPos
    BY <1>1, <2>1, <1>a, IndexMove DEF ClosePosition, Ending, redis, history
  <2>2. CASE positions[work[a].sym] # NoPos
    BY <1>1, <2>2, <1>c, IndexMove DEF ClosePosition, Step, Ending, redis, history
  <2> QED BY <2>1, <2>2
<1>2. CASE FindId(a)
  <2>1. openId[work[a].sym] # 0
    BY <1>2, <1>i, <1>h DEF FindId, Closing
  <2> QED BY <1>2, <2>1, <1>c, IndexMove DEF FindId, Step, Ending, redis, history
<1>3. CASE FindTrade(a)
  <2>1. work[a].tid = work[a].pos.dec /\ work[a].tid \in Ids /\ work[a].tid # 0
        /\ written[work[a].tid].status = "OPEN"
    BY <1>3, <1>i, <1>h, <1>b, <1>n DEF FindTrade, Closing, TradeBody, Traded
  <2>3. trades[work[a].tid] # NoTrade
    BY <2>1, <1>n DEF EchoBody, Echoes
  <2>2. work'[a].tid = work[a].tid
    BY <1>3, <2>3, <1>c DEF FindTrade, Step, Work
  <2> QED BY <1>3, <2>1, <2>2, <1>c, IndexMove DEF FindTrade, Step, Ending, redis, history
<1>4. CASE DelOpenId(a)
  <2>1. /\ pc' = [pc EXCEPT ![a] = "log"] /\ pc[a] = "del_id"
        /\ work' = work /\ openId' = [openId EXCEPT ![work[a].sym] = 0]
        /\ UNCHANGED <<positions, written>>
    <3>1. pc[a] = "del_id" /\ work[a].tid # 0
      BY <1>4 DEF DelOpenId, IndexBody
    <3> QED BY <1>4, <3>1, <1>c DEF DelOpenId, Goto, Step, Unindexed, history
  <2>2. Unlisted(work[a].sym)'
    BY <2>1, <1>c DEF Unlisted
  <2>3. \A s \in Symbols \ {work[a].sym} : Unlisted(s)' <=> Unlisted(s)
    BY <2>1, <1>s, <1>c DEF Unlisted, Ending
  <2>4. \A s \in Symbols : Ended(s)' <=> Ended(s)
    BY <2>1, <1>s, <1>c DEF Ended, Ending
  <2>5. \A s \in Symbols \ {work[a].sym} : openId'[s] = openId[s]
    BY <2>1, <1>c
  <2>6. \A s \in Symbols : Listed(s)'
    BY <2>1, <2>2, <2>3, <2>4, <2>5 DEF IndexBody, Listed
  <2> QED BY <2>1, <2>6, <1>c DEF IndexBody, Backed
<1>5. CASE LogClose(a)
  <2>1. /\ pc' = [pc EXCEPT ![a] = "save_close"] /\ pc[a] = "log"
        /\ work' = work /\ written' = [written EXCEPT ![work[a].tid] = ClosedTrade(work[a])]
        /\ UNCHANGED <<positions, openId>>
    BY <1>5, <1>c DEF LogClose, Goto, Step
  <2>2. /\ work[a].sym \in Symbols /\ positions[work[a].sym].dec = work[a].tid
        /\ positions[work[a].sym] # NoPos /\ work[a].tid \in Ids
    BY <2>1, <1>b, <1>c, <1>h DEF Closing, TradeBody, Traded
  <2>3. written'[work[a].tid].status = "CLOSED"
        /\ \A i \in Ids \ {work[a].tid} : written'[i] = written[i]
    BY <2>1, <2>2, <1>c, <1>n
  <2>4. Ended(work[a].sym)'
    BY <2>1, <1>c DEF Ended, Ending
  <2>5. \A s \in Symbols : Unlisted(s)' <=> Unlisted(s)
    BY <2>1, <1>s, <1>c DEF Unlisted, Ending
  <2>6. \A s \in Symbols \ {work[a].sym} : Ended(s)' <=> Ended(s)
    BY <2>1, <1>s, <1>c DEF Ended, Ending
  <2>7. ASSUME NEW s \in Symbols \ {work[a].sym}, positions[s] # NoPos
        PROVE  positions[s].dec \in Ids \ {work[a].tid}
    BY <2>7, <2>2, <1>b DEF TradeBody, Distinct, Real, RealPos
  <2>8. \A s \in Symbols : Listed(s)'
    BY <2>1, <2>2, <2>3, <2>4, <2>5, <2>6, <2>7 DEF IndexBody, Listed
  <2>9. \A i \in Ids : Backed(i)'
    BY <2>1, <2>2, <2>3 DEF Backed, IndexBody
  <2> QED BY <2>1, <2>8, <2>9, <1>c DEF IndexBody
<1>6. CASE SaveClose(a)
  BY <1>6, <1>c, IndexMove DEF SaveClose, Goto, Step, Ending, redis, history
<1>7. CASE ReleaseGet(a)
  BY <1>7, <1>c, IndexMove DEF ReleaseGet, Step, Ending, Work, redis, history
<1>8. CASE ReleaseSet(a)
  BY <1>8, <1>c, IndexMove DEF ReleaseSet, Goto, Step, Ending
<1>9. CASE DelPosition(a)
  <2>1. /\ pc' = [pc EXCEPT ![a] = "total"] /\ pc[a] = "del_pos" /\ work' = work
        /\ positions' = [positions EXCEPT ![work[a].sym] = NoPos]
        /\ UNCHANGED <<openId, written>>
    BY <1>9, <1>c DEF DelPosition, Without, Goto, Step, history
  <2>2. work[a].sym \in Symbols /\ openId[work[a].sym] = 0
    BY <2>1, <1>b, <1>c DEF TradeBody, Traded
  <2>3. positions'[work[a].sym] = NoPos
        /\ \A s \in Symbols \ {work[a].sym} : positions'[s] = positions[s]
    BY <2>1, <2>2, <1>c
  <2>4. \A s \in Symbols \ {work[a].sym} :
          (Unlisted(s)' <=> Unlisted(s)) /\ (Ended(s)' <=> Ended(s))
    BY <2>1, <1>s, <1>c DEF Unlisted, Ended, Ending
  <2>5. \A s \in Symbols : Listed(s)'
    BY <2>1, <2>2, <2>3, <2>4, <1>n DEF IndexBody, Listed
  <2>6. ASSUME NEW i \in Ids, written[i].status = "OPEN"
        PROVE \E s \in Symbols : positions'[s].dec = i
    <3>1. PICK s \in Symbols : positions[s].dec = i
      BY <2>6 DEF IndexBody, Backed
    <3>2. Ended(work[a].sym)
      BY <2>1 DEF Ended, Ending
    <3>3. positions[work[a].sym] # NoPos
      BY <2>1, <1>h DEF Closing
    <3>4. s # work[a].sym
      BY <3>1, <3>2, <3>3, <2>2, <2>6 DEF IndexBody, Listed
    <3> QED BY <3>1, <3>4, <2>3
  <2>7. \A i \in Ids : Backed(i)'
    BY <2>1, <2>6 DEF Backed
  <2> QED BY <2>1, <2>5, <2>7, <1>c DEF IndexBody
<1>10. CASE RealizedGet(a)
  BY <1>10, <1>c, IndexMove DEF RealizedGet, Step, Ending, redis, history
<1>11. CASE RealizedSet(a)
  BY <1>11, <1>a, IndexMove DEF RealizedSet, Ending, history
<1> QED BY <1>1, <1>2, <1>3, <1>4, <1>5, <1>6, <1>7, <1>8, <1>9, <1>10, <1>11 DEF Close

(* Every step keeps IndexInv.                                              *)
LEMMA IndexStep ==
  TypeOK /\ SoleInv /\ TradeInv /\ EchoInv /\ IndexInv /\ [Next]_vars => IndexInv'
<1> SUFFICES ASSUME TypeOK, SoleInv, TradeInv, EchoInv, IndexInv, [Next]_vars, Clean'
             PROVE  IndexBody'
  BY DEF IndexInv
<1>c. /\ Consumer \in Actors /\ Requests \subseteq Actors /\ Consumer \notin Requests
      /\ pc \in [Actors -> Labels] /\ work \in [Actors -> Work]
      /\ positions \in [Symbols -> Position] /\ todo \in [Symbols -> Position]
      /\ faults \in Nat
  BY PaperAssumption DEF Actors, TypeOK, RedisOK, ProcessOK, RestOK, HistoryOK
<1>l. ASSUME Clean PROVE IndexBody /\ EchoBody /\ Sole /\ Seen
  BY <1>l DEF IndexInv, EchoInv, SoleInv, Single, Clean
<1>u. ASSUME UNCHANGED <<openId, written, positions, pc, work>>, Clean PROVE IndexBody'
  BY <1>u, <1>l DEF IndexBody, Listed, Backed, Unlisted, Ended
<1>1. ASSUME NEW s \in Symbols, NEW side \in {"BUY", "SELL"}, Decide(s, side) PROVE IndexBody'
  <2>1. Clean
    BY <1>1 DEF Decide, Enter, Clean
  <2> QED BY <1>1, <2>1, <1>l, <1>c, IndexMove DEF Decide, Step, Ending, redis, history
<1>2. CASE Open
  <2>1. overlap' = overlap /\ faults' = faults
    BY <1>2 DEF Open, OpenGate, OpenSize, AllocateGet, AllocateSet, PutPosition, PutTrade,
       PutOpenId, SaveOpen, history
  <2> QED BY <1>2, <2>1, <1>l, IndexOpen DEF Clean
<1>3. CASE Watch
  <2>1. Clean
    <3>1. faults' = faults
      BY <1>3 DEF Watch, WatchStart, WatchKeep, WatchBump, WatchExit, SetCooldown, WatchEnd,
         history
    <3>2. overlap => overlap'
      BY <1>3 DEF Watch, WatchStart, WatchKeep, WatchBump, WatchExit, SetCooldown, WatchEnd,
         Enter,
         history
    <3> QED BY <3>1, <3>2 DEF Clean
  <2>2. CASE \E s \in Symbols : WatchBump(s)
    <3>1. PICK s \in Symbols : WatchBump(s)
      BY <2>2
    <3>2. todo[s] = positions[s] /\ todo[s] # NoPos /\ UNCHANGED <<pc, work, openId, written>>
      BY <3>1, <2>1, <1>l DEF WatchBump, Seen, history
    <3>3. \A x \in Symbols : positions'[x].dec = positions[x].dec
                             /\ (positions'[x] # NoPos => positions[x] # NoPos)
      BY <3>1, <3>2, <1>c DEF WatchBump, Position
    <3>4. \A x \in Symbols : (Unlisted(x)' <=> Unlisted(x)) /\ (Ended(x)' <=> Ended(x))
      BY <3>2 DEF Unlisted, Ended
    <3> QED BY <2>1, <3>2, <3>3, <3>4, <1>l, IndexKept DEF IndexBody
  <2>3. CASE ~\E s \in Symbols : WatchBump(s)
    BY <1>3, <2>1, <2>3, <1>l, <1>c, IndexMove DEF Watch, WatchStart, WatchKeep, WatchExit,
       SetCooldown, WatchEnd, Goto, Finish, Step, Ending, redis, history
  <2> QED BY <2>2, <2>3
<1>4. ASSUME NEW a \in Actors, Close(a) PROVE IndexBody'
  <2>1. overlap' = overlap /\ faults' = faults
    BY <1>4 DEF Close, ClosePosition, FindId, FindTrade, DelOpenId, LogClose, SaveClose,
       ReleaseGet, ReleaseSet, DelPosition, RealizedGet, RealizedSet, history
  <2> QED BY <1>4, <2>1, <1>l, IndexClose DEF Clean
<1>5. ASSUME NEW r \in Requests, NEW s \in Symbols, ManualClose(r, s) PROVE IndexBody'
  <2>1. Clean
    BY <1>5 DEF ManualClose, Enter, Clean
  <2> QED BY <1>5, <2>1, <1>l, <1>c, IndexMove DEF ManualClose, Step, Ending, redis, history
<1>6. ASSUME NEW s \in Symbols, ExpireCooldown(s) PROVE IndexBody'
  BY <1>6, <1>u DEF ExpireCooldown, process, rest, Clean
<1>7. CASE SessionEnd
  BY <1>7, <1>u DEF SessionEnd, redis, history, Clean
<1>8. CASE Crash \/ \E a \in Actors : Abort(a)
  BY <1>8, <1>c DEF Crash, Abort, Clean
<1>9. CASE Restart
  BY <1>9, <1>u DEF Restart, Clean
<1>10. CASE UNCHANGED vars
  BY <1>10, <1>u DEF vars, redis, process, rest, history, Clean
<1>11. ASSUME NEW m \in sent, MirrorTrade(m) PROVE IndexBody'
  BY <1>11, <1>u DEF MirrorTrade, process, rest, history, Clean
<1> QED BY <1>1, <1>2, <1>3, <1>4, <1>5, <1>6, <1>7, <1>8, <1>9, <1>10, <1>11 DEF Next

(* IndexInv holds at the start.                                            *)
LEMMA IndexInit == Init => IndexInv
  BY DEF Init, IndexInv, IndexBody, Listed, Backed, Unlisted, NoSnapshot, NoPos, NoTrade, Actors

(* positions:open, trades:open_id and the OPEN trades of trades:all are    *)
(* three views of the same positions, but for trades the data-service      *)
(* re-opened, as long as handlers neither overlap nor fail.                *)
THEOREM IndexSound == Spec => []IndexAgrees
<1>1. TypeOK /\ SoleInv /\ EchoInv /\ IndexInv => IndexAgrees
  <2> SUFFICES ASSUME TypeOK, SoleInv, EchoInv, IndexInv, Quiet, Clean
               PROVE  /\ \A s \in Symbols : openId[s] = positions[s].dec
                      /\ OpenIds \ Reopened
                            = {positions[s].dec : s \in {x \in Symbols : positions[x] # NoPos}}
    BY DEF IndexAgrees
  <2>1. \A s \in Symbols : ~Unlisted(s) /\ ~Ended(s)
    BY DEF Quiet, Busy, Unlisted, Ended, Ending, Actors
  <2>2. IndexBody /\ \A s \in Symbols : positions[s] = NoPos \/ positions[s].dec \in Ids
    BY DEF IndexInv, SoleInv, Real, RealPos
  <2>3. NoPos.dec \notin Ids
    BY PaperAssumption DEF NoPos, Ids
  <2>4. \A i \in Ids : i \in OpenIds \ Reopened <=> written[i].status = "OPEN"
    BY RecordKinds DEF EchoInv, EchoBody, Echoes, Clean, OpenIds, Reopened
  <2>5. OpenIds \ Reopened = {i \in Ids : written[i].status = "OPEN"}
    BY <2>4 DEF OpenIds
  <2> QED BY <2>1, <2>2, <2>3, <2>5 DEF IndexBody, Listed, Backed
<1>2. Init => EchoInv /\ IndexInv
  BY EchoInit, IndexInit
<1> QED BY <1>1, <1>2, BrokerSound, EchoStep, IndexStep, PTL DEF Spec, BrokerInv
-----------------------------------------------------------------------------
(* The books.                                                              *)

(* What the account holds beyond what the realized total explains, and the *)
(* profit beyond it of the trades the engine has closed.                   *)
DoneIds == {i \in Ids : written[i].status = "CLOSED"}
Pnls    == [i \in Ids |-> written[i].pnl]
Credit  == budget.cash + budget.invested + SumOf(charged, Ids) - realized - InitialBudget
Backlog == SumOf(Pnls, DoneIds) + SumOf(charged, DoneIds) - realized

(* Both are the profit of the close under way: from release() on it is in  *)
(* the account, from the record on in the closed trades.                   *)
Due(a)     == BudgetPnl(work[a].pos, work[a].gross)
Unrecorded == {"del_pos", "total", "record"}
Logged     == {"save_close", "balance", "release"} \cup Unrecorded
Owed(a)    == IF pc[a] \in Unrecorded THEN Due(a) ELSE 0
Booked(a)  == IF pc[a] \in Logged THEN Due(a) ELSE 0
Fees       == \A s \in Symbols : positions[s] # NoPos =>
                charged[positions[s].dec] = Commission(positions[s].cost)

BooksBody ==
  /\ up /\ ~dirty
  /\ Fees
  /\ pc[Consumer] = "put" => charged[Want.dec] = Commission(Want.cost)
  /\ \A a \in Actors : pc[a] = "record" => work[a].total = realized
  /\ \A a \in Actors : Busy(a) => Credit = Owed(a) /\ Backlog = Booked(a)
  /\ (\A a \in Actors : ~Busy(a)) => Credit = 0 /\ Backlog = 0
BooksInv == Clean => BooksBody

(* The sums of the books are integers over finite sets.                    *)
LEMMA SumsType ==
  TypeOK => /\ SumOf(charged, Ids) \in Int /\ SumOf(charged, DoneIds) \in Int
            /\ SumOf(Pnls, DoneIds) \in Int
            /\ IsFiniteSet(Ids) /\ IsFiniteSet(DoneIds)
            /\ Credit \in Int /\ Backlog \in Int
<1> SUFFICES ASSUME TypeOK
             PROVE  /\ SumOf(charged, Ids) \in Int /\ SumOf(charged, DoneIds) \in Int
                    /\ SumOf(Pnls, DoneIds) \in Int
                    /\ IsFiniteSet(Ids) /\ IsFiniteSet(DoneIds)
                    /\ Credit \in Int /\ Backlog \in Int
  OBVIOUS
<1>1. IsFiniteSet(Ids)
  BY FS_Interval, PaperAssumption DEF Ids
<1>2. DoneIds \subseteq Ids
  BY DEF DoneIds
<1>3. IsFiniteSet(DoneIds)
  BY <1>1, <1>2, FS_Subset
<1>4. \A i \in Ids : charged[i] \in Int /\ Pnls[i] \in Int
  BY DEF TypeOK, HistoryOK, RedisOK, Trade, Pnls
<1>5. SumOf(charged, Ids) \in Int
  BY <1>1, <1>4, SumType
<1>6. SumOf(charged, DoneIds) \in Int /\ SumOf(Pnls, DoneIds) \in Int
  BY <1>2, <1>3, <1>4, SumType
<1>7. budget.cash \in Int /\ budget.invested \in Int /\ realized \in Int /\ InitialBudget \in Int
  BY PaperAssumption DEF TypeOK, RedisOK
<1> QED BY <1>1, <1>3, <1>5, <1>6, <1>7 DEF Credit, Backlog

(* What is due for a position is an integer, and so are its fees.          *)
LEMMA DueType == ASSUME TypeOK, NEW a \in Actors
                 PROVE Due(a) \in Int /\ Commission(work[a].pos.cost) \in Int
                       /\ Commission(work[a].want.cost) \in Int
<1>1. /\ work[a].pos.cost \in Nat /\ work[a].gross \in Int
      /\ work[a].pos.cost + work[a].gross \in Int
      /\ work[a].want.cost \in Nat
  BY DEF TypeOK, ProcessOK, Work, Position
<1>2. \A v \in Int : Commission(v) \in Int
  BY CommissionType
<1> QED BY <1>1, <1>2 DEF Due, BudgetPnl

(* The books after a step of the one handler under way.                    *)
LEMMA BooksMove ==
  ASSUME Sole, NEW a \in Actors, Busy(a), up', ~dirty', Fees',
         \A b \in Actors \ {a} : pc'[b] = pc[b] /\ work'[b] = work[b],
         pc'[Consumer] = "put" => charged'[Want'.dec] = Commission(Want'.cost),
         pc'[a] = "record" => work'[a].total = realized',
         Credit' = Owed(a)', Backlog' = Booked(a)'
  PROVE  BooksBody'
<1>1. \A b \in Actors \ {a} : ~Busy(b) /\ ~Busy(b)'
  BY DEF Sole, Busy
<1>2. ~Busy(a)' => Owed(a)' = 0 /\ Booked(a)' = 0
  BY DEF Busy, Owed, Booked, Logged, Unrecorded
<1>3. \A b \in Actors : pc'[b] = "record" => work'[b].total = realized'
  BY <1>1 DEF Busy
<1> QED BY <1>1, <1>2, <1>3 DEF BooksBody

(* The books after a step of that handler which moves no money.            *)
LEMMA BooksKept ==
  ASSUME TypeOK, Sole, BooksBody, NEW a \in Actors, Busy(a), UNCHANGED <<up, dirty, charged>>,
         UNCHANGED <<budget, realized, written>>,
         \A b \in Actors \ {a} : pc'[b] = pc[b] /\ work'[b] = work[b],
         \A s \in Symbols : positions'[s] # NoPos =>
            /\ positions[s] # NoPos /\ positions'[s].dec = positions[s].dec
            /\ positions'[s].cost = positions[s].cost,
         \/ pc[a] \notin Logged /\ pc'[a] \notin Logged \cup {"put"}
         \/ /\ work'[a].pos = work[a].pos /\ work'[a].gross = work[a].gross
            /\ pc'[a] = "record" => work'[a].total = realized
            /\ \/ pc[a] \in Logged \ Unrecorded /\ pc'[a] \in Logged \ Unrecorded
               \/ pc[a] \in Unrecorded /\ pc'[a] \in Unrecorded
  PROVE  BooksBody'
<1>1. Credit' = Credit /\ Backlog' = Backlog
  BY DEF Credit, Backlog, Pnls, DoneIds
<1>2. Owed(a)' = Owed(a) /\ Booked(a)' = Booked(a)
  BY DEF Owed, Booked, Due, Logged, Unrecorded
<1>3. Fees'
  BY DEF BooksBody, Fees
<1>4. pc'[Consumer] # "put"
  <2>1. a # Consumer => pc'[Consumer] = pc[Consumer] /\ pc[Consumer] \in {"idle", "done"}
    BY DEF Sole, Busy, Actors
  <2> QED BY <2>1 DEF Logged, Unrecorded
<1>5. pc'[a] = "record" => work'[a].total = realized'
  BY DEF Logged, Unrecorded
<1> QED BY <1>1, <1>2, <1>3, <1>4, <1>5, BooksMove DEF BooksBody

(* Each step of open_position keeps the books: allocate() takes the entry  *)
(* commission it records, on a trade that had paid none.                   *)
LEMMA BooksOpen ==
  ASSUME TypeOK, SoleInv, TradeInv, InvestedInv, Clean, BooksBody, Open PROVE BooksBody'
<1>b. TradeBody /\ Sole /\ Free /\ Roles /\ Real /\ Level
  BY DEF Clean, TradeInv, SoleInv, Single, InvestedInv, BooksBody
<1>c. /\ Consumer \in Actors
      /\ pc \in [Actors -> Labels] /\ work \in [Actors -> Work]
      /\ positions \in [Symbols -> Position] /\ budget \in [cash : Int, invested : Nat]
      /\ written \in [Ids -> Trade] /\ charged \in [Ids -> Nat]
      /\ pc[Consumer] \notin {"idle", "done", "watch"} => work[Consumer].sym \in Symbols
  BY DEF Actors, TypeOK, RedisOK, ProcessOK, HistoryOK
<1>p. Busy(Consumer) /\ Want # NoPos /\ Want.dec \in Ids
      /\ pc[Consumer] \notin Logged /\ UNCHANGED <<up, dirty, realized>>
  <2>1. pc[Consumer] \in {"gate"} \cup Opening \cup Recorded
    BY DEF Open, OpenGate, OpenSize, AllocateGet, AllocateSet, PutPosition, PutTrade, PutOpenId,
         SaveOpen, Opening, Recorded
  <2>2. Busy(Consumer) /\ pc[Consumer] \notin Logged
    BY <2>1 DEF Busy, Opening, Recorded, Logged, Unrecorded
  <2>3. UNCHANGED <<up, dirty>>
    BY DEF Open, OpenGate, OpenSize, AllocateGet, AllocateSet, PutPosition, PutTrade, PutOpenId,
         SaveOpen, rest, history
  <2>4. UNCHANGED realized
    BY DEF Open, OpenGate, OpenSize, AllocateGet, AllocateSet, PutPosition, PutTrade, PutOpenId,
         SaveOpen, redis, history
  <2> QED BY <2>1, <2>2, <2>3, <2>4, <1>b, <1>c DEF Roles, Real, RealPos, Want
<1>l. Credit = 0 /\ Backlog = 0
  BY <1>p, <1>c DEF BooksBody, Owed, Booked, Logged
<1> USE DEF Logged, Unrecorded
<1>1. CASE OpenGate
  BY <1>1, <1>b, <1>c, <1>p, BooksKept DEF OpenGate, Goto, Finish, Step, redis, history
<1>2. ASSUME NEW lot \in LotCosts, NEW cap \in LotCaps, OpenSize(lot, cap) PROVE BooksBody'
  BY <1>2, <1>b, <1>c, <1>p, BooksKept DEF OpenSize, Finish, Step, redis, history
<1>3. CASE AllocateGet
  BY <1>3, <1>b, <1>c, <1>p, BooksKept DEF AllocateGet, Finish, Step, redis, history
<1>4. CASE AllocateSet
  <2> DEFINE fee == Commission(Want.cost)
  <2>1. /\ \A b \in Actors \ {Consumer} : pc'[b] = pc[b] /\ work'[b] = work[b]
        /\ pc[Consumer] = "debit" /\ pc'[Consumer] = "put" /\ work' = work
        /\ UNCHANGED <<positions, written>>
        /\ charged' = [charged EXCEPT ![Want.dec] = fee]
        /\ budget'.invested = budget.invested + Want.cost
        /\ budget'.cash = budget.cash - Want.cost - fee
    <3>1. Copied(Consumer) /\ pc[Consumer] = "debit"
      BY <1>4, <1>b, <1>c DEF AllocateSet, Level
    <3> QED BY <1>4, <3>1, <1>c DEF AllocateSet, Goto, Step, Copied, Want
  <2>2. charged[Want.dec] = 0 /\ written[Want.dec] = NoTrade
        /\ \A s \in Symbols : positions[s].dec # Want.dec
    <3>1. Unused(Want.dec)
      BY <2>1, <1>b, <1>p DEF TradeBody, Fresh, Unput, Recorded
    <3> QED BY <3>1, <2>1 DEF Unused
  <2>3. fee \in Int /\ Want.cost \in Int
    BY <1>c, DueType DEF Want, Work, Position
  <2>4. charged'[Want.dec] = fee /\ \A i \in Ids \ {Want.dec} : charged'[i] = charged[i]
    BY <2>1, <1>p, <1>c
  <2>5. SumOf(charged', Ids) = SumOf(charged, Ids) + fee - 0
    <3>1. \A i \in Ids : charged[i] \in Int /\ charged'[i] \in Int
      BY <2>3, <2>4, <1>c
    <3> HIDE DEF fee
    <3>2. SumOf(charged', Ids) = SumOf(charged, Ids) + charged'[Want.dec] - charged[Want.dec]
      BY <3>1, <2>4, <1>p, SumsType, SumChange
    <3> QED BY <3>2, <2>2, <2>4
  <2>6. SumOf(charged', DoneIds) = SumOf(charged, DoneIds) /\ Pnls' = Pnls
        /\ DoneIds' = DoneIds
    <3>1. \A i \in DoneIds : charged[i] \in Int /\ charged'[i] = charged[i]
      BY <2>2, <2>4, <1>c DEF DoneIds, NoTrade
    <3> QED BY <2>1, <3>1, SumsType, SumSame DEF Pnls, DoneIds
  <2> HIDE DEF fee
  <2>7. Credit' = 0
    <3>1. budget.cash \in Int /\ budget.invested \in Int /\ realized \in Int
          /\ InitialBudget \in Int
          /\ SumOf(charged, Ids) \in Int
      BY SumsType, PaperAssumption DEF TypeOK, RedisOK
    <3> QED BY <3>1, <2>1, <2>3, <2>5, <1>l, <1>p DEF Credit
  <2>8. Backlog' = 0
    BY <2>6, <1>l, <1>p DEF Backlog
  <2>9. Fees'
    <3>1. ASSUME NEW s \in Symbols, positions[s] # NoPos
          PROVE charged'[positions[s].dec] = charged[positions[s].dec]
      BY <3>1, <2>2, <2>4, <1>b DEF Real, RealPos
    <3> QED BY <3>1, <2>1 DEF Fees, BooksBody
  <2>10. charged'[Want'.dec] = Commission(Want'.cost)
    BY <2>1, <2>4 DEF Want, fee
  <2>11. Owed(Consumer)' = 0 /\ Booked(Consumer)' = 0
    BY <2>1 DEF Owed, Booked
  <2> QED BY <2>1, <2>7, <2>8, <2>9, <2>10, <2>11, <1>b, <1>c, <1>p, BooksMove DEF BooksBody
<1>5. CASE PutPosition
  <2>1. /\ \A b \in Actors \ {Consumer} : pc'[b] = pc[b] /\ work'[b] = work[b]
        /\ pc[Consumer] = "put" /\ pc'[Consumer] = "put_trade"
        /\ UNCHANGED <<budget, charged, written>>
        /\ positions' = [positions EXCEPT ![work[Consumer].sym] = Want]
    BY <1>5, <1>c DEF PutPosition, Goto, Step, Want, history
  <2>2. Fees'
    BY <2>1, <1>c DEF Fees, BooksBody
  <2>3. Credit' = 0 /\ Backlog' = 0
    BY <2>1, <1>l, <1>p DEF Credit, Backlog, Pnls, DoneIds
  <2>4. Owed(Consumer)' = 0 /\ Booked(Consumer)' = 0
    BY <2>1 DEF Owed, Booked
  <2> QED BY <2>1, <2>2, <2>3, <2>4, <1>b, <1>c, <1>p, BooksMove DEF BooksBody
<1>6. CASE PutTrade
  <2>1. /\ \A b \in Actors \ {Consumer} : pc'[b] = pc[b] /\ work'[b] = work[b]
        /\ pc[Consumer] = "put_trade" /\ pc'[Consumer] = "put_id"
        /\ UNCHANGED <<budget, charged, positions>>
        /\ written' = [written EXCEPT ![Want.dec] = OpenTrade]
    BY <1>6, <1>c DEF PutTrade, Goto, Step, Want, history
  <2>2. written[Want.dec] = NoTrade
    BY <2>1, <1>b DEF TradeBody, Putting
  <2>3. DoneIds' = DoneIds /\ \A i \in DoneIds : Pnls[i] \in Int /\ Pnls'[i] = Pnls[i]
    BY <2>1, <2>2, <1>p, <1>c DEF DoneIds, Pnls, NoTrade, OpenTrade, Trade
  <2>4. SumOf(Pnls', DoneIds) = SumOf(Pnls, DoneIds)
    BY <2>3, SumsType, SumSame
  <2>5. Credit' = 0 /\ Backlog' = 0
    BY <2>1, <2>3, <2>4, <1>l, <1>p DEF Credit, Backlog
  <2>6. Owed(Consumer)' = 0 /\ Booked(Consumer)' = 0
    BY <2>1 DEF Owed, Booked
  <2>7. Fees'
    BY <2>1 DEF Fees, BooksBody
  <2> QED BY <2>1, <2>5, <2>6, <2>7, <1>b, <1>c, <1>p, BooksMove DEF BooksBody
<1>7. CASE PutOpenId
  BY <1>7, <1>b, <1>c, <1>p, BooksKept DEF PutOpenId, Goto, Step, history
<1>8. CASE SaveOpen
  BY <1>8, <1>b, <1>c, <1>p, BooksKept DEF SaveOpen, Finish, Step, redis, history
<1> QED BY <1>1, <1>2, <1>3, <1>4, <1>5, <1>6, <1>7, <1>8 DEF Open

(* Each step of close_position keeps the books: the record, release() and  *)
(* the realized total are given the same profit in turn.                   *)
LEMMA BooksClose ==
  ASSUME TypeOK, SoleInv, TradeInv, InvestedInv, IndexInv, Clean, BooksBody,
         NEW a \in Actors, Close(a)
  PROVE  BooksBody'
<1>b. TradeBody /\ Sole /\ Held(a) /\ Roles /\ Real /\ Level /\ IndexBody
  BY DEF Clean, TradeInv, SoleInv, Single, InvestedInv, IndexInv, BooksBody
<1>c. /\ Consumer \in Actors
      /\ pc \in [Actors -> Labels] /\ work \in [Actors -> Work]
      /\ positions \in [Symbols -> Position] /\ budget \in [cash : Int, invested : Nat]
      /\ written \in [Ids -> Trade] /\ charged \in [Ids -> Nat] /\ realized \in Int
      /\ pc[a] \notin {"idle", "done", "watch"} => work[a].sym \in Symbols
      /\ RedisOK
  BY DEF Actors, TypeOK, RedisOK, ProcessOK, HistoryOK
<1>p. Busy(a) /\ UNCHANGED <<up, dirty, charged>>
      /\ pc[a] \in Closing \cup {"close", "total", "record"}
  <2>1. Busy(a) /\ pc[a] \in Closing \cup {"close", "total", "record"}
    BY DEF Close, ClosePosition, FindId, FindTrade, DelOpenId, LogClose, SaveClose, ReleaseGet,
         ReleaseSet, DelPosition, RealizedGet, RealizedSet, Closing, Busy
  <2>2. UNCHANGED <<up, dirty>>
    BY DEF Close, ClosePosition, FindId, FindTrade, DelOpenId, LogClose, SaveClose, ReleaseGet,
         ReleaseSet, DelPosition, RealizedGet, RealizedSet, rest, history
  <2>3. UNCHANGED charged
    BY DEF Close, ClosePosition, FindId, FindTrade, DelOpenId, LogClose, SaveClose, ReleaseGet,
         ReleaseSet, DelPosition, RealizedGet, RealizedSet, history
  <2> QED BY <2>1, <2>2, <2>3
<1>l. Credit = Owed(a) /\ Backlog = Booked(a)
  BY <1>p DEF BooksBody
<1>u. pc'[Consumer] # "put"
  <2>1. a # Consumer => pc'[Consumer] = pc[Consumer] /\ pc[Consumer] \in {"idle", "done"}
    BY <1>p, <1>b, <1>c DEF Sole, Busy, Close, ClosePosition, FindId, FindTrade, DelOpenId,
       LogClose,
       SaveClose, ReleaseGet, ReleaseSet, DelPosition, RealizedGet, RealizedSet, AfterClose, Goto,
       Finish, Step
  <2>2. a = Consumer => pc'[Consumer] # "put"
    BY <1>c DEF Close, ClosePosition, FindId, FindTrade, DelOpenId, LogClose,
       SaveClose, ReleaseGet, ReleaseSet, DelPosition, RealizedGet, RealizedSet, AfterClose, Goto,
       Finish, Step, Untraded
  <2> QED BY <2>1, <2>2
<1>h. pc[a] \in Closing => /\ positions[work[a].sym] = work[a].pos /\ work[a].pos # NoPos
                           /\ work[a].sym \in Symbols
  BY <1>b, <1>c DEF Held, Closing
<1> USE DEF Logged, Unrecorded
<1>a. AfterClose(a) => /\ \A b \in Actors \ {a} : pc'[b] = pc[b] /\ work'[b] = work[b]
                       /\ pc'[a] \in {"done", "gate", "cool", "watch"}
  BY <1>c DEF AfterClose, Finish, Step
<1>1. ASSUME NEW g \in Moves, ClosePosition(a, g) PROVE BooksBody'
  <2>1. CASE positions[work[a].sym] = NoPos
    BY <1>1, <2>1, <1>a, <1>b, <1>p, BooksKept DEF ClosePosition, redis, history
  <2>2. CASE positions[work[a].sym] # NoPos
    BY <1>1, <2>2, <1>b, <1>c, <1>p, BooksKept DEF ClosePosition, Step, redis, history
  <2> QED BY <2>1, <2>2
<1>2. CASE FindId(a) \/ FindTrade(a)
  BY <1>2, <1>b, <1>c, <1>p, BooksKept DEF FindId, FindTrade, Step, redis, history
<1>3. CASE DelOpenId(a)
  <2>1. work[a].tid # 0
    BY <1>3, <1>b DEF DelOpenId, IndexBody
  <2> QED BY <1>3, <2>1, <1>b, <1>c, <1>p, BooksKept DEF DelOpenId, Goto, Step, history
<1>4. CASE LogClose(a)
  <2> DEFINE i == work[a].tid
             p == work[a].pos
             q == TradePnl(p, work[a].gross)
  <2>1. /\ \A b \in Actors \ {a} : pc'[b] = pc[b] /\ work'[b] = work[b]
        /\ pc[a] = "log" /\ pc'[a] = "save_close" /\ work' = work
        /\ UNCHANGED <<positions, budget, realized>>
        /\ written' = [written EXCEPT ![i] = ClosedTrade(work[a])]
    BY <1>4, <1>c DEF LogClose, Goto, Step
  <2>2. i = p.dec /\ i \in Ids /\ written[i].status # "CLOSED" /\ charged[i] = Commission(p.cost)
    BY <2>1, <1>h, <1>b, RecordKinds DEF Closing, TradeBody, Traded, Real, RealPos, BooksBody, Fees
  <2>3. /\ Due(a) \in Int /\ Commission(p.cost) \in Int /\ q = Due(a) - Commission(p.cost)
    BY DueType DEF TradePnl, Due
  <2>4. written'[i].pnl = q /\ written'[i].status = "CLOSED"
        /\ \A j \in Ids \ {i} : written'[j] = written[j]
    BY <2>1, <2>2, <1>c DEF ClosedTrade
  <2>5. DoneIds' = DoneIds \cup {i} /\ i \notin DoneIds
    BY <2>2, <2>4 DEF DoneIds
  <2> HIDE DEF i, p, q
  <2>6. \A j \in DoneIds \cup {i} : Pnls'[j] \in Int /\ charged[j] \in Int
    BY <2>2, <2>3, <2>4, <1>c DEF DoneIds, Pnls, Trade
  <2>7. \A j \in DoneIds : Pnls[j] \in Int /\ Pnls'[j] = Pnls[j]
    BY <2>4, <2>5, <1>c DEF DoneIds, Pnls, Trade
  <2>8. /\ IsFiniteSet(DoneIds)
        /\ SumOf(Pnls, DoneIds) \in Int /\ SumOf(charged, DoneIds) \in Int
    BY SumsType
  <2>9. SumOf(Pnls', DoneIds \cup {i}) = q + SumOf(Pnls, DoneIds)
    <3>1. SumOf(Pnls', DoneIds \cup {i}) = Pnls'[i] + SumOf(Pnls', DoneIds)
      BY <2>5, <2>6, <2>8, SumAdd
    <3>2. SumOf(Pnls', DoneIds) = SumOf(Pnls, DoneIds)
      BY <2>7, <2>8, SumSame
    <3>3. Pnls'[i] = q
      BY <2>2, <2>4 DEF Pnls
    <3> QED BY <3>1, <3>2, <3>3
  <2>10. SumOf(charged, DoneIds \cup {i}) = charged[i] + SumOf(charged, DoneIds)
    BY <2>5, <2>6, <2>8, SumAdd
  <2>11. Backlog' = Due(a)
    <3>1. Backlog' = SumOf(Pnls', DoneIds \cup {i}) + SumOf(charged, DoneIds \cup {i}) - realized
      BY <2>1, <2>5, <1>p DEF Backlog
    <3>2. SumOf(Pnls, DoneIds) + SumOf(charged, DoneIds) - realized = 0
      BY <2>1, <1>l DEF Backlog, Booked
    <3> QED BY <3>1, <3>2, <2>2, <2>3, <2>8, <2>9, <2>10, <1>c
  <2>12. Credit' = 0
    BY <2>1, <1>l, <1>p DEF Credit, Owed
  <2>13. Owed(a)' = 0 /\ Booked(a)' = Due(a)
    BY <2>1 DEF Owed, Booked, Due
  <2>14. Fees'
    BY <2>1, <1>p DEF Fees, BooksBody
  <2> QED BY <2>1, <2>11, <2>12, <2>13, <2>14, <1>b, <1>p, <1>u, BooksMove DEF BooksBody
<1>5. CASE SaveClose(a)
  BY <1>5, <1>b, <1>c, <1>p, BooksKept DEF SaveClose, Goto, Step, redis, history
<1>6. CASE ReleaseGet(a)
  <2>1. /\ \A b \in Actors \ {a} : pc'[b] = pc[b] /\ work'[b] = work[b]
        /\ pc[a] = "balance" /\ pc'[a] = "release" /\ UNCHANGED <<redis, written>>
    BY <1>6, <1>c DEF ReleaseGet, Step, history
  <2>2. work'[a].pos = work[a].pos /\ work'[a].gross = work[a].gross
    BY <1>6, <1>c DEF ReleaseGet, Step, Work
  <2> QED BY <2>1, <2>2, <1>b, <1>c, <1>p, BooksKept DEF redis, history
<1>7. CASE ReleaseSet(a)
  <2> DEFINE p == work[a].pos
  <2>1. /\ \A b \in Actors \ {a} : pc'[b] = pc[b] /\ work'[b] = work[b]
        /\ pc[a] = "release" /\ pc'[a] = "del_pos" /\ work' = work
        /\ UNCHANGED <<positions, written, realized>>
        /\ budget'.invested = IF work[a].invested > p.cost THEN work[a].invested - p.cost ELSE 0
        /\ budget'.cash = work[a].cash + p.cost + Due(a)
    BY <1>7, <1>c DEF ReleaseSet, Released, Goto, Step, Due
  <2>2. work[a].invested = budget.invested /\ work[a].cash = budget.cash
        /\ budget.invested = Invested
    <3>1. Copied(a) /\ budget.invested = Invested + Offset(a) /\ Offset(a) = 0 /\ Invested \in Int
      BY <2>1, <1>b, <1>p, <1>c, InvestedType DEF Level, Offset
    <3> QED BY <3>1, <2>1 DEF Copied
  <2>3. p.cost <= Invested /\ p.cost \in Nat /\ Invested \in Nat
    BY <2>1, <1>h, <1>c, CostInside DEF Position, Closing
  <2>4. Due(a) \in Int /\ budget.cash \in Int /\ budget.invested \in Nat
    BY DueType, <1>c
  <2>5. budget'.invested = budget.invested - p.cost
        /\ budget'.cash = budget.cash + p.cost + Due(a)
    BY <2>1, <2>2, <2>3, <2>4
  <2>6. Credit' = Due(a)
    <3>1. SumOf(charged, Ids) \in Int /\ InitialBudget \in Int /\ realized \in Int
      BY SumsType, <1>c, PaperAssumption
    <3>2. Credit = 0
      BY <2>1, <1>l DEF Owed
    <3>3. Credit' = budget'.cash + budget'.invested + SumOf(charged, Ids) - realized - InitialBudget
      BY <2>1, <1>p DEF Credit
    <3>4. budget.cash + budget.invested + SumOf(charged, Ids) - realized - InitialBudget = 0
      BY <3>2 DEF Credit
    <3> HIDE DEF p
    <3> QED BY <3>1, <3>3, <3>4, <2>3, <2>4, <2>5
  <2>7. Backlog' = Backlog
    BY <2>1, <1>p DEF Backlog, Pnls, DoneIds
  <2>8. Owed(a)' = Due(a) /\ Booked(a)' = Booked(a)
    BY <2>1 DEF Owed, Booked, Due
  <2>9. Fees'
    BY <2>1, <1>p DEF Fees, BooksBody
  <2> QED BY <2>1, <2>6, <2>7, <2>8, <2>9, <1>b, <1>l, <1>p, <1>u, BooksMove DEF BooksBody
<1>8. CASE DelPosition(a)
  <2>1. /\ \A b \in Actors \ {a} : pc'[b] = pc[b] /\ work'[b] = work[b]
        /\ pc[a] = "del_pos" /\ pc'[a] = "total" /\ work' = work
        /\ UNCHANGED <<budget, written, realized>>
        /\ positions' = [positions EXCEPT ![work[a].sym] = NoPos]
    BY <1>8, <1>c DEF DelPosition, Without, Goto, Step, history
  <2>2. \A s \in Symbols : positions'[s] # NoPos => positions'[s] = positions[s]
    BY <2>1, <1>c
  <2> QED BY <2>1, <2>2, <1>b, <1>c, <1>p, BooksKept
<1>9. CASE RealizedGet(a)
  <2>1. /\ \A b \in Actors \ {a} : pc'[b] = pc[b] /\ work'[b] = work[b]
        /\ pc[a] = "total" /\ pc'[a] = "record" /\ UNCHANGED <<redis, written>>
    BY <1>9, <1>c DEF RealizedGet, Step, history
  <2>2. work'[a].pos = work[a].pos /\ work'[a].gross = work[a].gross /\ work'[a].total = realized
    BY <1>9, <1>c DEF RealizedGet, Step, Work
  <2> QED BY <2>1, <2>2, <1>b, <1>c, <1>p, BooksKept DEF redis, history
<1>10. CASE RealizedSet(a)
  <2>1. /\ pc[a] = "record" /\ realized' = realized + Due(a) /\ AfterClose(a)
        /\ UNCHANGED <<positions, written, budget>>
    BY <1>10 DEF RealizedSet, Due, BooksBody, history
  <2>2. /\ \A b \in Actors \ {a} : pc'[b] = pc[b] /\ work'[b] = work[b]
        /\ pc'[a] \in {"done", "gate", "cool", "watch"}
    BY <2>1, <1>a
  <2>3. Credit = Due(a) /\ Backlog = Due(a) /\ Due(a) \in Int
    BY <2>1, <1>l, DueType DEF Owed, Booked
  <2>4. Credit' = 0 /\ Backlog' = 0
    <3>1. /\ SumOf(charged, Ids) \in Int /\ SumOf(charged, DoneIds) \in Int
          /\ SumOf(Pnls, DoneIds) \in Int /\ InitialBudget \in Int
          /\ budget.cash \in Int /\ budget.invested \in Int
      BY SumsType, <1>c, PaperAssumption
    <3>2. Credit' = budget.cash + budget.invested + SumOf(charged, Ids) - realized' - InitialBudget
      BY <2>1, <1>p DEF Credit
    <3>3. Backlog' = SumOf(Pnls, DoneIds) + SumOf(charged, DoneIds) - realized'
      BY <2>1, <1>p DEF Backlog, Pnls, DoneIds
    <3>4. Credit' = 0
      BY <3>1, <3>2, <2>1, <2>3, <1>c DEF Credit
    <3>5. Backlog' = 0
      BY <3>1, <3>3, <2>1, <2>3, <1>c DEF Backlog
    <3> QED BY <3>4, <3>5
  <2>5. Owed(a)' = 0 /\ Booked(a)' = 0
    BY <2>2 DEF Owed, Booked
  <2>6. Fees'
    BY <2>1, <1>p DEF Fees, BooksBody
  <2> QED BY <2>2, <2>4, <2>5, <2>6, <1>b, <1>p, <1>u, BooksMove DEF BooksBody
<1> QED BY <1>1, <1>2, <1>3, <1>4, <1>5, <1>6, <1>7, <1>8, <1>9, <1>10 DEF Close

(* Every step keeps BooksInv.                                              *)
LEMMA BooksStep ==
  TypeOK /\ SoleInv /\ TradeInv /\ InvestedInv /\ IndexInv /\ BooksInv /\ [Next]_vars => BooksInv'
<1> SUFFICES ASSUME TypeOK, SoleInv, TradeInv, InvestedInv, IndexInv, BooksInv, [Next]_vars, Clean'
             PROVE  BooksBody'
  BY DEF BooksInv
<1>c. /\ Consumer \in Actors /\ Requests \subseteq Actors /\ Consumer \notin Requests
      /\ pc \in [Actors -> Labels] /\ work \in [Actors -> Work]
      /\ positions \in [Symbols -> Position] /\ todo \in [Symbols -> Position]
      /\ faults \in Nat
  BY PaperAssumption DEF Actors, TypeOK, RedisOK, ProcessOK, RestOK, HistoryOK
<1>l. ASSUME Clean PROVE BooksBody /\ Sole /\ Seen
  BY <1>l DEF BooksInv, SoleInv, Single, Clean
<1>u. ASSUME Clean,
             UNCHANGED <<budget, realized, written, positions, pc, work, charged, up, dirty>>
      PROVE  BooksBody'
  BY <1>u, <1>l DEF BooksBody, Fees, Credit, Backlog, Pnls, DoneIds, Owed, Booked, Due, Busy,
     Want
<1>e. ASSUME NEW a \in Actors, Enter(a), pc[a] = "idle", pc'[a] \in {"gate", "close", "watch"},
             \A b \in Actors \ {a} : pc'[b] = pc[b] /\ work'[b] = work[b],
             UNCHANGED <<redis, written, charged, up, faults>>
      PROVE  BooksBody'
  <2>1. /\ Clean /\ ~\E b \in Actors \ {a} : Busy(b)
    BY <1>e DEF Enter, Clean
  <2>2. ~dirty /\ ~dirty' /\ up'
    BY <2>1, <1>e, <1>l DEF Enter, BooksBody
  <2>3. \A b \in Actors : ~Busy(b)
    BY <2>1, <1>e DEF Busy
  <2>4. Credit' = 0 /\ Backlog' = 0
    BY <2>1, <2>3, <1>e, <1>l DEF BooksBody, Credit, Backlog, Pnls, DoneIds, redis, history
  <2>5. Fees'
    BY <2>1, <1>e, <1>l DEF BooksBody, Fees, redis, history
  <2>6. \A b \in Actors : /\ pc'[b] \in {"idle", "done", "gate", "close", "watch"}
    BY <2>3, <1>e DEF Busy
  <2>7. \A b \in Actors : Owed(b)' = 0 /\ Booked(b)' = 0
    BY <2>6 DEF Owed, Booked, Logged, Unrecorded
  <2> QED BY <2>2, <2>4, <2>5, <2>6, <2>7, <1>c DEF BooksBody
<1>1. ASSUME NEW s \in Symbols, NEW side \in {"BUY", "SELL"}, Decide(s, side) PROVE BooksBody'
  BY <1>1, <1>e, <1>c DEF Decide, Step
<1>2. CASE Open
  <2>1. overlap' = overlap /\ faults' = faults
    BY <1>2 DEF Open, OpenGate, OpenSize, AllocateGet, AllocateSet, PutPosition, PutTrade,
       PutOpenId, SaveOpen, history
  <2> QED BY <1>2, <2>1, <1>l, BooksOpen DEF Clean
<1>3. CASE Watch
  <2>1. CASE WatchStart
    BY <2>1, <1>e, <1>c DEF WatchStart, Goto, Step
  <2>2. CASE ~WatchStart
    <3>1. UNCHANGED <<overlap, faults, dirty, charged>>
      BY <1>3, <2>2 DEF Watch, WatchKeep, WatchBump, WatchExit, SetCooldown, WatchEnd, history
    <3>2. UNCHANGED <<up, budget, realized, written>>
      BY <1>3, <2>2 DEF Watch, WatchKeep, WatchBump, WatchExit, SetCooldown, WatchEnd, redis, history, rest
    <3>3. /\ \A b \in Actors \ {Consumer} : pc'[b] = pc[b] /\ work'[b] = work[b]
          /\ pc[Consumer] \in {"watch", "cool"} /\ pc'[Consumer] \in {"watch", "close", "idle"}
      BY <1>3, <2>2, <1>c DEF Watch, WatchKeep, WatchBump, WatchExit, SetCooldown, WatchEnd, Goto,
         Finish, Step, redis, history
    <3>4. BooksBody /\ Sole /\ Seen
      BY <3>1, <1>l DEF Clean
    <3>5. ASSUME NEW s \in Symbols, positions'[s] # NoPos
          PROVE  /\ positions[s] # NoPos /\ positions'[s].dec = positions[s].dec
                 /\ positions'[s].cost = positions[s].cost
      <4>1. CASE \E x \in Symbols : WatchBump(x)
        BY <4>1, <3>4, <3>5, <1>c DEF WatchBump, Seen, Position
      <4>2. CASE ~\E x \in Symbols : WatchBump(x)
        <5>1. positions' = positions
          BY <1>3, <2>2, <4>2 DEF Watch, WatchKeep, WatchExit, SetCooldown, WatchEnd, redis, history
        <5> QED BY <5>1, <3>5
      <4> QED BY <4>1, <4>2
    <3> QED BY <3>1, <3>2, <3>3, <3>4, <3>5, <1>c, BooksKept DEF Busy, Logged, Unrecorded
  <2> QED BY <2>1, <2>2
<1>4. ASSUME NEW a \in Actors, Close(a) PROVE BooksBody'
  <2>1. overlap' = overlap /\ faults' = faults
    BY <1>4 DEF Close, ClosePosition, FindId, FindTrade, DelOpenId, LogClose, SaveClose,
       ReleaseGet, ReleaseSet, DelPosition, RealizedGet, RealizedSet, history
  <2> QED BY <1>4, <2>1, <1>l, BooksClose DEF Clean
<1>5. ASSUME NEW r \in Requests, NEW s \in Symbols, ManualClose(r, s) PROVE BooksBody'
  BY <1>5, <1>e, <1>c DEF ManualClose, Step, rest
<1>6. ASSUME NEW s \in Symbols, ExpireCooldown(s) PROVE BooksBody'
  BY <1>6, <1>u DEF ExpireCooldown, process, rest, Clean
<1>7. CASE SessionEnd
  BY <1>7, <1>u DEF SessionEnd, redis, history, Clean
<1>8. CASE Crash \/ \E a \in Actors : Abort(a)
  BY <1>8, <1>c DEF Crash, Abort, Clean
<1>9. CASE Restart
  BY <1>9, <1>l DEF Restart, Clean, BooksBody
<1>10. CASE UNCHANGED vars
  BY <1>10, <1>u DEF vars, redis, process, rest, history, Clean
<1>11. ASSUME NEW m \in sent, MirrorTrade(m) PROVE BooksBody'
  BY <1>11, <1>u DEF MirrorTrade, process, rest, history, Clean
<1> QED BY <1>1, <1>2, <1>3, <1>4, <1>5, <1>6, <1>7, <1>8, <1>9, <1>10, <1>11 DEF Next

(* BooksInv holds at the start.                                            *)
LEMMA BooksInit == Init => BooksInv
<1> SUFFICES ASSUME Init PROVE BooksBody
  BY DEF BooksInv
<1>1. DoneIds = {}
  BY DEF Init, DoneIds, NoTrade
<1>2. SumOf(charged, Ids) = 0
  <2>1. IsFiniteSet(Ids)
    BY FS_Interval, PaperAssumption DEF Ids
  <2>2. \A i \in Ids : charged[i] = 0
    BY DEF Init
  <2> QED BY <2>1, <2>2, SumZero
<1>3. SumOf(charged, {}) = 0 /\ SumOf(Pnls, {}) = 0
  BY SumNone
<1>4. Credit = 0 /\ Backlog = 0
  BY <1>1, <1>2, <1>3, PaperAssumption DEF Init, Credit, Backlog
<1> QED BY <1>4 DEF Init, BooksBody, Fees, NoSnapshot, Busy, Actors

(* Between handlers that neither overlap nor fail, the account explains    *)
(* itself: cash and invested from the realized total and the commissions,  *)
(* the realized total from the closed trades, while the data-service has   *)
(* re-opened none (budget.py, mock_broker.py).                             *)
THEOREM BooksSound == Spec => []BooksAgree
<1>1. TypeOK /\ EchoInv /\ BooksInv => BooksAgree
  <2> SUFFICES ASSUME TypeOK, EchoInv, BooksInv, Quiet, Clean
      PROVE /\ budget.cash + budget.invested = InitialBudget + realized - SumOf(charged, Ids)
            /\ Reopened = {} =>
                 realized = SumOf([i \in Ids |-> trades[i].pnl], ClosedIds)
                            + SumOf(charged, ClosedIds)
    BY DEF BooksAgree
  <2>1. Credit = 0 /\ Backlog = 0
    BY DEF BooksInv, BooksBody, Quiet
  <2>2. /\ SumOf(charged, Ids) \in Int /\ SumOf(charged, DoneIds) \in Int
        /\ SumOf(Pnls, DoneIds) \in Int
    BY SumsType
  <2>3. budget.cash \in Int /\ budget.invested \in Int /\ realized \in Int
        /\ InitialBudget \in Int
    BY PaperAssumption DEF TypeOK, RedisOK
  <2>4. budget.cash + budget.invested = InitialBudget + realized - SumOf(charged, Ids)
    <3>1. budget.cash + budget.invested + SumOf(charged, Ids) - realized - InitialBudget = 0
      BY <2>1 DEF Credit
    <3>3. PICK c \in Int, i \in Int, r \in Int, x \in Int :
            c = budget.cash /\ i = budget.invested /\ r = realized /\ x = SumOf(charged, Ids)
      BY <2>2, <2>3
    <3>4. c + i + x - r - InitialBudget = 0
      BY <3>1, <3>3
    <3>5. c + i = InitialBudget + r - x
      BY <3>4, <2>3
    <3> QED BY <3>3, <3>5
  <2>5. realized = SumOf(Pnls, DoneIds) + SumOf(charged, DoneIds)
    BY <2>1, <2>2, <2>3 DEF Backlog
  <2>6. ASSUME Reopened = {} PROVE Pnls = [i \in Ids |-> trades[i].pnl] /\ ClosedIds = DoneIds
    <3>1. \A i \in Ids : trades[i] = written[i]
      BY <2>6, RecordKinds DEF EchoInv, EchoBody, Echoes, Clean, OpenIds, Reopened
    <3> QED BY <3>1 DEF Pnls, ClosedIds, DoneIds
  <2> QED BY <2>4, <2>5, <2>6
<1>2. Init => EchoInv /\ InvestedInv /\ IndexInv /\ BooksInv
  BY EchoInit, LevelInit, IndexInit, BooksInit
<1> QED BY <1>1, <1>2, BrokerSound, EchoStep, LevelStep, IndexStep, BooksStep, PTL
        DEF Spec, BrokerInv

-----------------------------------------------------------------------------
(* The ledger.                                                             *)

(* What allocate() and release() are about to write is still right: the    *)
(* copy they have read is the budget, the cost and the fee are covered, and*)
(* the proceeds are not negative.                                          *)
Ready(a) ==
  LET w == work[a]
  IN  /\ Copied(a)
      /\ pc[a] = "debit" => w.want.cost + Commission(w.want.cost) <= w.cash
      /\ pc[a] \in Closing => w.gross \in Moves /\ w.pos.cost + w.gross >= 0
LedgerInv == /\ up \/ faults > 0
             /\ ~overlap => \A a \in Actors : Ready(a)

(* Ready after a step of the one handler under way.                        *)
LEMMA ReadyMove ==
  ASSUME Sole, NEW a \in Actors, Busy(a), LedgerInv, UNCHANGED <<up, faults, overlap>>,
         \A b \in Actors \ {a} : pc'[b] = pc[b], ~overlap => Ready(a)'
  PROVE  LedgerInv'
<1>1. \A b \in Actors \ {a} : ~Busy(b) /\ pc'[b] \notin Closing \cup {"debit"}
  BY DEF Sole, Busy, Closing
<1> QED BY <1>1 DEF LedgerInv, Ready, Copied, Closing

(* Each step of open_position keeps LedgerInv.                             *)
LEMMA ReadyOpen == TypeOK /\ SoleInv /\ LedgerInv /\ ~overlap /\ Open => LedgerInv'
<1> SUFFICES ASSUME TypeOK, SoleInv, LedgerInv, ~overlap, Open PROVE LedgerInv'
  OBVIOUS
<1>c. /\ Consumer \in Actors /\ pc \in [Actors -> Labels] /\ work \in [Actors -> Work]
      /\ work[Consumer] \in Work /\ Sole /\ Busy(Consumer) /\ UNCHANGED <<up, faults, overlap>>
      /\ \A b \in Actors \ {Consumer} : pc'[b] = pc[b]
      /\ budget \in [cash : Int, invested : Nat]
  BY DEF Actors, TypeOK, RedisOK, ProcessOK, SoleInv, Single, Open, OpenGate, OpenSize,
         AllocateGet, AllocateSet, PutPosition, PutTrade, PutOpenId, SaveOpen, Busy, Goto, Finish,
         Step, rest, history
<1>1. CASE AllocateGet
  <2>1. pc'[Consumer] = "debit" =>
          /\ work'[Consumer].cash = budget.cash /\ work'[Consumer].invested = budget.invested
          /\ work'[Consumer].want = work[Consumer].want
          /\ work[Consumer].want.cost + Commission(work[Consumer].want.cost) <= budget.cash
    <3> DEFINE cost == work[Consumer].want.cost
               w    == [work[Consumer] EXCEPT !.cash = budget.cash, !.invested = budget.invested]
    <3>1. cost + Commission(cost) \in Int
      BY <1>c, CommissionType DEF Work, Position
    <3>2. /\ w.cash = budget.cash /\ w.invested = budget.invested
          /\ w.want = work[Consumer].want
      BY <1>c DEF Work
    <3>3. ASSUME pc'[Consumer] = "debit"
          PROVE  ~(budget.cash < cost + Commission(cost)) /\ work'[Consumer] = w
      BY <1>1, <1>c, <3>3 DEF AllocateGet, Finish, Step
    <3> HIDE DEF w
    <3>4. budget.cash \in Int
      BY <1>c
    <3> QED BY <3>1, <3>2, <3>3, <3>4
  <2>2. UNCHANGED budget /\ pc'[Consumer] \in {"idle", "debit"}
    BY <1>1, <1>c DEF AllocateGet, Finish, Step, redis
  <2>3. Ready(Consumer)'
    BY <2>1, <2>2 DEF Ready, Copied, Closing
  <2> QED BY <1>c, <2>3, ReadyMove
<1>2. CASE ~AllocateGet
  <2>1. pc'[Consumer] \in {"idle", "size", "fund", "put", "put_trade", "put_id", "save"}
    BY <1>2, <1>c DEF Open, OpenGate, OpenSize, AllocateSet, PutPosition, PutTrade, PutOpenId,
       SaveOpen, Goto, Finish, Step
  <2>2. Ready(Consumer)'
    BY <2>1 DEF Ready, Copied, Closing
  <2> QED BY <1>c, <2>2, ReadyMove
<1> QED BY <1>1, <1>2

(* Each step of close_position keeps LedgerInv.                            *)
LEMMA ReadyClose ==
  ASSUME TypeOK, SoleInv, LedgerInv, ~overlap, NEW a \in Actors, Close(a) PROVE LedgerInv'
<1>c. /\ pc \in [Actors -> Labels] /\ work \in [Actors -> Work]
      /\ work[a] \in Work /\ Sole /\ Busy(a) /\ UNCHANGED <<up, faults, overlap>>
      /\ \A b \in Actors \ {a} : pc'[b] = pc[b]
      /\ positions \in [Symbols -> Position]
  BY DEF TypeOK, RedisOK, ProcessOK, SoleInv, Single, Close, ClosePosition, FindId, FindTrade,
         DelOpenId, LogClose, SaveClose, ReleaseGet, ReleaseSet, DelPosition, RealizedGet,
         RealizedSet, AfterClose, Busy, Goto, Finish, Step, rest, history
<1> SUFFICES Ready(a)'
  BY <1>c, ReadyMove
<1>r. Ready(a)
  BY <1>c DEF LedgerInv
<1>a. AfterClose(a) => Ready(a)'
  BY <1>c DEF AfterClose, Finish, Step, Ready, Copied, Closing
(* A later step of the close leaves the position and the gross P&L alone.  *)
<1>k. ASSUME pc[a] \in Closing, pc'[a] \notin {"debit", "release"},
             work'[a].pos = work[a].pos, work'[a].gross = work[a].gross
      PROVE  Ready(a)'
  BY <1>k, <1>r DEF Ready, Copied
<1>1. ASSUME NEW g \in Moves, ClosePosition(a, g) PROVE Ready(a)'
  <2>1. CASE positions[work[a].sym] = NoPos
    BY <1>1, <2>1, <1>a DEF ClosePosition
  <2>2. CASE positions[work[a].sym] # NoPos
    <3>1. /\ pc'[a] = "find_id" /\ work'[a].pos = positions[work[a].sym] /\ work'[a].gross = g
          /\ positions[work[a].sym].cost + g >= 0
      BY <1>1, <2>2, <1>c DEF ClosePosition, Step, Work
    <3> QED BY <3>1 DEF Ready, Copied
  <2> QED BY <2>1, <2>2
<1>2. CASE FindId(a) \/ FindTrade(a)
  BY <1>2, <1>c, <1>k DEF FindId, FindTrade, Step, Work, Closing
<1>3. CASE DelOpenId(a) \/ LogClose(a) \/ SaveClose(a)
  BY <1>3, <1>c, <1>k DEF DelOpenId, LogClose, SaveClose, Untraded, Goto, Step, Closing
<1>4. CASE ReleaseGet(a)
  <2>1. /\ pc[a] = "balance" /\ pc'[a] = "release" /\ UNCHANGED budget
        /\ work'[a].pos = work[a].pos /\ work'[a].gross = work[a].gross
        /\ work'[a].cash = budget.cash /\ work'[a].invested = budget.invested
    BY <1>4, <1>c DEF ReleaseGet, Step, Work, redis
  <2> QED BY <2>1, <1>r DEF Ready, Copied, Closing
<1>5. CASE ReleaseSet(a)
  BY <1>5, <1>c, <1>k DEF ReleaseSet, Goto, Step, Closing
<1>6. CASE DelPosition(a) \/ RealizedGet(a)
  BY <1>6, <1>c DEF DelPosition, RealizedGet, Goto, Step, Ready, Copied, Closing
<1>7. CASE RealizedSet(a)
  BY <1>7, <1>a DEF RealizedSet
<1> QED BY <1>1, <1>2, <1>3, <1>4, <1>5, <1>6, <1>7 DEF Close

(* Every step keeps LedgerInv.                                             *)
LEMMA ReadyStep == TypeOK /\ SoleInv /\ LedgerInv /\ [Next]_vars => LedgerInv'
<1> SUFFICES ASSUME TypeOK, SoleInv, LedgerInv, [Next]_vars PROVE LedgerInv'
  OBVIOUS
<1>c. /\ Consumer \in Actors /\ Requests \subseteq Actors
      /\ pc \in [Actors -> Labels] /\ work \in [Actors -> Work] /\ faults \in Nat
  BY PaperAssumption DEF Actors, TypeOK, ProcessOK, HistoryOK
<1>o. CASE overlap
  <2>1. overlap'
    BY <1>o, OverlapStays
  <2>2. up' \/ faults' > 0
    <3>1. CASE Crash \/ (\E a \in Actors : Abort(a)) \/ Restart
      BY <3>1, <1>c DEF Crash, Abort, Restart
    <3>2. CASE ~Crash /\ ~(\E a \in Actors : Abort(a)) /\ ~Restart
      <4>1. UNCHANGED <<up, faults>>
        BY <3>2 DEF Next, Decide, Open, OpenGate, OpenSize, AllocateGet, AllocateSet,
           PutPosition, PutTrade, PutOpenId, SaveOpen, Watch, WatchStart, WatchKeep, WatchBump,
           WatchExit, SetCooldown, WatchEnd, Close, ClosePosition, FindId, FindTrade, DelOpenId,
           LogClose, SaveClose, ReleaseGet, ReleaseSet, DelPosition, RealizedGet, RealizedSet,
           ManualClose, ExpireCooldown, MirrorTrade, SessionEnd, vars, history, rest, process
      <4> QED BY <4>1 DEF LedgerInv
    <3> QED BY <3>1, <3>2
  <2> QED BY <2>1, <2>2 DEF LedgerInv
<1>n. CASE ~overlap
  <2>b. Sole /\ \A a \in Actors : Ready(a)
    BY <1>n DEF SoleInv, Single, LedgerInv
  <2>e. ASSUME NEW a \in Actors, pc'[a] \in {"gate", "close", "watch"}, pc[a] = "idle", Enter(a),
               UNCHANGED <<up, faults>>, \A b \in Actors \ {a} : pc'[b] = pc[b]
        PROVE  LedgerInv'
    <3>1. ~overlap' => \A b \in Actors \ {a} : ~Busy(b)
      BY <2>e DEF Enter
    <3> QED BY <2>e, <3>1 DEF LedgerInv, Ready, Copied, Busy, Closing
  <2>i. ASSUME \A a \in Actors : pc'[a] \notin Closing \cup {"debit"}, up' \/ faults' > 0
        PROVE  LedgerInv'
    BY <2>i DEF LedgerInv, Ready, Copied, Closing
  <2>1. ASSUME NEW s \in Symbols, NEW side \in {"BUY", "SELL"}, Decide(s, side) PROVE LedgerInv'
    BY <2>1, <2>e, <1>c DEF Decide, Step
  <2>2. CASE Open
    BY <2>2, <1>n, ReadyOpen
  <2>3. CASE WatchStart
    BY <2>3, <2>e, <1>c DEF WatchStart, Goto, Step
  <2>4. CASE Watch /\ ~WatchStart
    <3>1. /\ pc[Consumer] \in {"watch", "cool"} /\ pc'[Consumer] \in {"watch", "close", "idle"}
          /\ UNCHANGED <<up, faults, overlap>> /\ \A b \in Actors \ {Consumer} : pc'[b] = pc[b]
      BY <2>4, <1>c DEF Watch, WatchKeep, WatchBump, WatchExit, SetCooldown, WatchEnd, Goto,
         Finish, Step, rest, history
    <3> QED BY <3>1, <2>b, <1>c, ReadyMove DEF Ready, Copied, Closing, Busy
  <2>5. ASSUME NEW a \in Actors, Close(a) PROVE LedgerInv'
    BY <2>5, <1>n, ReadyClose
  <2>6. ASSUME NEW r \in Requests, NEW s \in Symbols, ManualClose(r, s) PROVE LedgerInv'
    BY <2>6, <2>e, <1>c DEF ManualClose, Step, rest
  <2>7. CASE \/ SessionEnd \/ (\E s \in Symbols : ExpireCooldown(s))
             \/ (\E m \in sent : MirrorTrade(m)) \/ UNCHANGED vars
    <3>1. UNCHANGED <<up, faults, overlap, pc, work, budget>>
      BY <2>7 DEF SessionEnd, ExpireCooldown, MirrorTrade, vars, redis, process, rest, history
    <3> QED BY <3>1 DEF LedgerInv, Ready, Copied
  <2>8. ASSUME NEW a \in Actors, Abort(a) PROVE LedgerInv'
    <3>1. /\ Busy(a) /\ pc'[a] \in {"done", "watch", "idle"} /\ faults' > 0
          /\ \A b \in Actors \ {a} : pc'[b] = pc[b]
      BY <2>8, <1>c DEF Abort, Finish, Step, Failed
    <3>2. \A b \in Actors \ {a} : ~Busy(b)
      BY <2>b, <3>1 DEF Sole
    <3> QED BY <3>1, <3>2, <2>i DEF Busy, Closing
  <2>9. CASE Crash
    <3>1. \A a \in Actors : ~Busy(a)'
      BY <2>9, <1>c DEF Crash, Busy
    <3> QED BY <2>9, <3>1, <2>i, <1>c DEF Crash, Busy, Closing
  <2>10. CASE Restart
    <3>1. \A a \in Actors : ~Busy(a) /\ pc'[a] = pc[a]
      BY <2>10 DEF Restart, SoleInv, Downed
    <3> QED BY <2>10, <3>1, <2>i DEF Restart, Busy, Closing
  <2> QED BY <2>1, <2>2, <2>3, <2>4, <2>5, <2>6, <2>7, <2>8, <2>9, <2>10 DEF Next
<1> QED BY <1>o, <1>n

(* LedgerInv holds at the start.                                           *)
LEMMA ReadyInit == Init => LedgerInv
  BY DEF Init, LedgerInv, Ready, Copied, Closing

(* The ledger's state does not change with the entries and the budget.     *)
LEMMA LedgerStutter ==
  ASSUME UNCHANGED <<budget, faults, overlap>>, \A s \in Symbols : EntryOf(s)' = EntryOf(s)
  PROVE  UNCHANGED L!vars
  BY DEF L!vars

(* The entries stay as they are when one handler takes a step that neither *)
(* enters nor leaves a place between the two writes.                       *)
LEMMA EntriesStay ==
  ASSUME NEW a \in Actors, \A b \in Actors \ {a} : pc'[b] = pc[b] /\ work'[b] = work[b],
         pc[a] \notin {"put", "del_pos"}, pc'[a] \notin {"put", "del_pos"},
         \A s \in Symbols : /\ positions'[s].cost = positions[s].cost
                            /\ positions'[s] = NoPos <=> positions[s] = NoPos
  PROVE  \A s \in Symbols : EntryOf(s)' = EntryOf(s)
<1> TAKE s \in Symbols
<1>1. Bought(s)' = Bought(s) /\ (Bought(s) => work'[Consumer] = work[Consumer])
  BY DEF Bought, Actors
<1>2. Sold(s)' = Sold(s)
  BY DEF Sold
<1> QED BY <1>1, <1>2 DEF EntryOf

(* Each step of open_position is a step of the ledger: the write of        *)
(* allocate() buys, the others change nothing.                             *)
LEMMA LedgerOpen ==
  ASSUME TypeOK, SoleInv, LedgerInv, ~overlap, Open PROVE L!Next \/ UNCHANGED L!vars
<1>c. /\ Consumer \in Actors /\ pc \in [Actors -> Labels] /\ work \in [Actors -> Work]
      /\ positions \in [Symbols -> Position] /\ budget \in [cash : Int, invested : Nat]
      /\ pc[Consumer] \notin {"idle", "done", "watch"} => work[Consumer].sym \in Symbols
      /\ Sole /\ Free /\ Ready(Consumer)
  BY DEF Actors, TypeOK, RedisOK, ProcessOK, SoleInv, Single, LedgerInv
<1>w. /\ Busy(Consumer) /\ UNCHANGED <<faults, overlap>>
      /\ \A b \in Actors \ {Consumer} : pc'[b] = pc[b] /\ work'[b] = work[b]
      /\ pc[Consumer] \notin {"idle", "done", "watch"}
  BY <1>c DEF Open, OpenGate, OpenSize, AllocateGet, AllocateSet, PutPosition, PutTrade, PutOpenId,
         SaveOpen, Busy, Goto, Finish, Step, history
<1>b. \A b \in Actors \ {Consumer} : ~Busy(b)
  BY <1>c, <1>w DEF Sole
<1>n. \A s \in Symbols : ~Sold(s) /\ ~Sold(s)'
  <2>1. pc[Consumer] # "del_pos" /\ pc'[Consumer] # "del_pos"
    BY <1>c DEF Open, OpenGate, OpenSize, AllocateGet, AllocateSet, PutPosition, PutTrade,
       PutOpenId, SaveOpen, Goto, Finish, Step
  <2> QED BY <2>1, <1>w, <1>b DEF Sold, Busy
<1>1. CASE AllocateSet
  <2>0. work[Consumer].sym \in Symbols /\ work[Consumer].want.cost \in Nat
    BY <1>1, <1>c DEF AllocateSet, Work, Position
  <2> PICK s \in Symbols, cost \in Nat :
         s = work[Consumer].sym /\ cost = work[Consumer].want.cost
    BY <2>0
  <2>1. /\ pc[Consumer] = "debit" /\ pc'[Consumer] = "put" /\ work'[Consumer] = work[Consumer]
        /\ UNCHANGED positions
        /\ budget' = [cash |-> work[Consumer].cash - cost - Commission(cost),
                      invested |-> work[Consumer].invested + cost]
    BY <1>1, <1>c DEF AllocateSet, Goto, Step
  <2>2. positions[s] = NoPos /\ Commission(cost) \in Nat
    BY <2>1, <1>c, CommissionType DEF Free, Opening, OpenSym
  <2>3. /\ work[Consumer].cash = budget.cash /\ work[Consumer].invested = budget.invested
        /\ cost + Commission(cost) <= budget.cash /\ budget.cash \in Int
    BY <2>1, <1>c DEF Ready, Copied
  <2>4. EntryOf(s) = L!Flat /\ EntryOf(s)' = L!Entry(cost)
    BY <2>1, <2>2, <1>n DEF EntryOf, Bought, L!Flat, L!Entry
  <2>5. \A x \in Symbols \ {s} : EntryOf(x)' = EntryOf(x)
    BY <2>1, <1>n DEF EntryOf, Bought
  <2>6. [x \in Symbols |-> EntryOf(x)]'
          = [[x \in Symbols |-> EntryOf(x)] EXCEPT ![s] = L!Entry(cost)]
    BY <2>2, <2>4, <2>5
  <2>7. cost \in 0..budget.cash
    BY <2>2, <2>3
  <2>8. /\ budget'.cash = budget.cash - cost - Commission(cost)
        /\ budget'.invested = budget.invested + cost
    BY <2>1, <2>3
  <2>9. L!Buy(s, cost)
    <3>1. [x \in Symbols |-> EntryOf(x)][s] = L!Flat
      BY <2>4
    <3> QED BY <2>3, <3>1, <2>6, <2>8, <1>w DEF L!Buy
  <2> QED BY <2>2, <2>7, <2>9 DEF L!Next
<1>2. CASE PutPosition
  <2>1. /\ pc[Consumer] = "put" /\ pc'[Consumer] = "put_trade" /\ UNCHANGED budget
        /\ positions' = [positions EXCEPT ![work[Consumer].sym] = work[Consumer].want]
    BY <1>2, <1>c DEF PutPosition, Goto, Step
  <2>2. work[Consumer].want # NoPos
    BY <2>1 DEF SoleInv, Roles, Opening, Want
  <2>3. ASSUME NEW x \in Symbols PROVE EntryOf(x)' = EntryOf(x)
    BY <2>1, <2>2, <1>n, <1>c DEF EntryOf, Bought
  <2> QED BY <2>1, <2>3, <1>w, LedgerStutter
<1>3. CASE ~AllocateSet /\ ~PutPosition
  <2>1. /\ pc[Consumer] # "put" /\ UNCHANGED <<budget, positions>>
        /\ pc'[Consumer] \in {"idle", "size", "fund", "debit", "put_id", "save"}
    BY <1>3, <1>c DEF Open, OpenGate, OpenSize, AllocateGet, PutTrade, PutOpenId, SaveOpen, Goto,
       Finish, Step, redis
  <2>2. pc[Consumer] # "del_pos"
    BY <1>3, <1>c DEF Open, OpenGate, OpenSize, AllocateGet, PutTrade, PutOpenId, SaveOpen
  <2> QED BY <2>1, <2>2, <1>w, <1>c, EntriesStay, LedgerStutter
<1> QED BY <1>1, <1>2, <1>3

(* Each step of close_position is a step of the ledger: the write of       *)
(* release() sells, the others change nothing.                             *)
LEMMA LedgerClose ==
  ASSUME TypeOK, SoleInv, LedgerInv, ~overlap, NEW a \in Actors, Close(a)
  PROVE  L!Next \/ UNCHANGED L!vars
<1>c. /\ Consumer \in Actors /\ pc \in [Actors -> Labels] /\ work \in [Actors -> Work]
      /\ positions \in [Symbols -> Position] /\ budget \in [cash : Int, invested : Nat]
      /\ pc[a] \notin {"idle", "done", "watch"} => work[a].sym \in Symbols
      /\ Sole /\ Held(a) /\ Ready(a)
  BY DEF Actors, TypeOK, RedisOK, ProcessOK, SoleInv, Single, LedgerInv
<1>w. /\ Busy(a) /\ UNCHANGED <<faults, overlap>>
      /\ \A b \in Actors \ {a} : pc'[b] = pc[b] /\ work'[b] = work[b]
      /\ pc[a] # "put" /\ pc'[a] # "put"
  BY <1>c DEF Close, ClosePosition, FindId, FindTrade, DelOpenId, LogClose, SaveClose, ReleaseGet,
     ReleaseSet, DelPosition, RealizedGet, RealizedSet, AfterClose, Untraded, Busy, Goto, Finish,
     Step, history
<1>b. \A b \in Actors \ {a} : ~Busy(b) /\ ~Busy(b)'
  BY <1>c, <1>w DEF Sole, Busy
<1>n. \A s \in Symbols : ~Bought(s) /\ ~Bought(s)'
  BY <1>w, <1>b, <1>c DEF Bought, Busy
<1>1. CASE ReleaseSet(a)
  <2>0. work[a].sym \in Symbols /\ work[a].pos.cost \in Nat /\ work[a].gross \in Int
    BY <1>1, <1>c DEF ReleaseSet, Work, Position
  <2> PICK s \in Symbols, cost \in Nat, g \in Int :
         s = work[a].sym /\ cost = work[a].pos.cost /\ g = work[a].gross
    BY <2>0
  <2>1. /\ pc[a] = "release" /\ pc'[a] = "del_pos" /\ work'[a] = work[a]
        /\ UNCHANGED positions /\ budget' = Released(work[a])
    BY <1>1, <1>c DEF ReleaseSet, Goto, Step
  <2>2. /\ positions[s] = work[a].pos /\ positions[s] # NoPos
        /\ g \in Moves /\ cost + g >= 0
    BY <2>1, <1>c DEF Held, Closing, Ready
  <2>3. /\ work[a].cash = budget.cash /\ work[a].invested = budget.invested
        /\ budget.cash \in Int /\ Commission(cost + g) \in Nat
    BY <2>1, <2>2, <1>c, CommissionType DEF Ready, Copied
  <2>4. EntryOf(s) = L!Entry(cost) /\ EntryOf(s)' = L!Flat
    <3>1. ~Sold(s) /\ Sold(s)'
      BY <2>1, <1>b DEF Sold, Busy
    <3> QED BY <3>1, <2>1, <2>2, <1>n DEF EntryOf, L!Flat, L!Entry
  <2>5. \A x \in Symbols \ {s} : EntryOf(x)' = EntryOf(x)
    <3>1. \A x \in Symbols \ {s} : ~Sold(x) /\ ~Sold(x)'
      BY <2>1, <1>b DEF Sold, Busy
    <3> QED BY <3>1, <2>1, <1>n DEF EntryOf
  <2>6. [x \in Symbols |-> EntryOf(x)]'
          = [[x \in Symbols |-> EntryOf(x)] EXCEPT ![s] = L!Flat]
    BY <2>2, <2>4, <2>5
  <2>7. /\ budget'.cash = budget.cash + cost + g - Commission(cost + g)
        /\ budget'.invested = IF budget.invested > cost THEN budget.invested - cost ELSE 0
    BY <2>1, <2>2, <2>3 DEF Released, BudgetPnl
  <2>8. L!Sell(s, g)
    <3>1. [x \in Symbols |-> EntryOf(x)][s] = L!Entry(cost)
      BY <2>2, <2>4
    <3> QED BY <2>2, <3>1, <2>6, <2>7, <1>w DEF L!Sell, L!Entry
  <2> QED BY <2>2, <2>8 DEF L!Next
<1>2. CASE DelPosition(a)
  <2>1. /\ pc[a] = "del_pos" /\ pc'[a] = "total" /\ UNCHANGED budget
        /\ positions' = [positions EXCEPT ![work[a].sym] = NoPos]
    BY <1>2, <1>c DEF DelPosition, Without, Goto, Step
  <2>2. \A x \in Symbols : ~Sold(x)'
    BY <2>1, <1>b DEF Sold, Busy
  <2>3. ASSUME NEW x \in Symbols PROVE EntryOf(x)' = EntryOf(x)
    <3>1. Sold(x) <=> x = work[a].sym
      BY <2>1, <1>b DEF Sold, Busy
    <3> QED BY <3>1, <2>1, <2>2, <1>n, <1>c DEF EntryOf
  <2> QED BY <2>1, <2>3, <1>w, LedgerStutter
<1>3. CASE ~ReleaseSet(a) /\ ~DelPosition(a)
  <2>1. /\ pc[a] # "del_pos" /\ UNCHANGED <<budget, positions>> /\ pc'[a] # "del_pos"
    BY <1>3, <1>c DEF Close, ClosePosition, FindId, FindTrade, DelOpenId, LogClose, SaveClose,
       ReleaseGet, RealizedGet, RealizedSet, AfterClose, Untraded, Goto, Finish, Step, redis
  <2> QED BY <2>1, <1>w, <1>c, EntriesStay, LedgerStutter
<1> QED BY <1>1, <1>2, <1>3

(* No step of the watcher itself changes the ledger: it writes back a      *)
(* position at the cost it has in Redis.                                   *)
LEMMA LedgerWatch ==
  ASSUME TypeOK, SoleInv, ~overlap, ~overlap', Watch PROVE UNCHANGED L!vars
<1>c. /\ Consumer \in Actors /\ pc \in [Actors -> Labels] /\ work \in [Actors -> Work]
      /\ positions \in [Symbols -> Position] /\ todo \in [Symbols -> Position]
      /\ Seen /\ Real
  BY DEF Actors, TypeOK, RedisOK, ProcessOK, RestOK, SoleInv, Single
<1>o. UNCHANGED overlap
  <2>1. Enter(Consumer) => UNCHANGED overlap
    BY DEF Enter, TypeOK, HistoryOK
  <2> QED BY <2>1 DEF Watch, WatchStart, WatchKeep, WatchBump, WatchExit, SetCooldown, WatchEnd,
             history
<1>1. /\ UNCHANGED <<budget, faults>>
      /\ \A b \in Actors \ {Consumer} : pc'[b] = pc[b] /\ work'[b] = work[b]
      /\ pc[Consumer] \in {"idle", "watch", "cool"} /\ pc'[Consumer] \in {"idle", "watch", "close"}
  BY <1>c DEF Watch, WatchStart, WatchKeep, WatchBump, WatchExit, SetCooldown, WatchEnd, Goto,
     Finish, Step, redis, history
<1>2. \A s \in Symbols : /\ positions'[s].cost = positions[s].cost
                         /\ positions'[s] = NoPos <=> positions[s] = NoPos
  <2>1. ASSUME NEW x \in Symbols, WatchBump(x), NEW s \in Symbols
        PROVE  /\ positions'[s].cost = positions[s].cost
               /\ positions'[s] = NoPos <=> positions[s] = NoPos
    <3>1. todo[x] = positions[x] /\ todo[x] # NoPos /\ todo[x].dec \in Ids
      BY <2>1, <1>c DEF WatchBump, Seen, Real, RealPos
    <3>2. /\ positions'[x].cost = positions[x].cost /\ positions'[x].dec = positions[x].dec
          /\ s # x => positions'[s] = positions[s]
      BY <2>1, <3>1, <1>c DEF WatchBump, Position
    <3> QED BY <3>1, <3>2, IdNotNone
  <2> QED BY <2>1 DEF Watch, WatchStart, WatchKeep, WatchExit, SetCooldown, WatchEnd, redis
<1> QED BY <1>o, <1>1, <1>2, <1>c, EntriesStay, LedgerStutter

(* Cutting the one handler under way short is a slip: what allocate() has  *)
(* paid for is lost, or what release() has paid out is back.               *)
LEMMA LedgerSlip ==
  ASSUME TypeOK, SoleInv, ~overlap, UNCHANGED <<positions, budget, overlap>>,
         faults' = faults + 1, NEW a \in Actors,
         \A b \in Actors \ {a} : ~Busy(b) /\ pc'[b] \notin {"put", "del_pos"},
         pc'[a] \notin {"put", "del_pos"}
  PROVE  L!Slip
<1>c. /\ Consumer \in Actors /\ positions \in [Symbols -> Position]
      /\ Free /\ Held(a) /\ ProcessOK
  BY DEF Actors, TypeOK, RedisOK, SoleInv, Single
<1>o. \A s \in Symbols : EntryOf(s)' = IF positions[s] = NoPos THEN L!Flat
                                       ELSE L!Entry(positions[s].cost)
  BY <1>c DEF EntryOf, Bought, Sold, L!Flat, L!Entry
<1>n. \A s \in Symbols : EntryOf(s) =
        IF Bought(s) THEN L!Entry(work[Consumer].want.cost)
        ELSE IF Sold(s) \/ positions[s] = NoPos THEN L!Flat
        ELSE L!Entry(positions[s].cost)
  BY DEF EntryOf, L!Flat, L!Entry
<1>s. ASSUME NEW s \in Symbols, L!Flat \in {EntryOf(s), EntryOf(s)'},
             \A x \in Symbols \ {s} : EntryOf(x)' = EntryOf(x)
      PROVE  L!Slip
  BY <1>s DEF L!Slip
<1>1. CASE pc[a] = "put" /\ a = Consumer
  <2>1. PICK s \in Symbols : s = work[Consumer].sym
    BY <1>1, <1>c DEF ProcessOK
  <2>2. EntryOf(s)' = L!Flat
    BY <1>1, <2>1, <1>o, <1>c DEF Free, Opening, OpenSym
  <2>3. \A x \in Symbols \ {s} : ~Bought(x) /\ ~Sold(x)
    BY <1>1, <2>1 DEF Bought, Sold, Busy
  <2> QED BY <2>2, <2>3, <1>o, <1>n, <1>s
<1>2. CASE pc[a] = "del_pos"
  <2>1. PICK s \in Symbols : s = work[a].sym
    BY <1>2, <1>c DEF ProcessOK
  <2>2. \A x \in Symbols : ~Bought(x) /\ (Sold(x) <=> x = s)
    BY <1>2, <2>1, <1>c DEF Bought, Sold, Busy
  <2> QED BY <2>2, <1>o, <1>n, <1>s
<1>3. CASE pc[a] # "del_pos" /\ ~(pc[a] = "put" /\ a = Consumer)
  <2>1. \A x \in Symbols : ~Bought(x) /\ ~Sold(x)
    BY <1>3, <1>c DEF Bought, Sold, Busy
  <2>2. \A x \in Symbols : EntryOf(x)' = EntryOf(x)
    BY <2>1, <1>o, <1>n
  <2> QED BY <2>2 DEF L!Slip
<1> QED BY <1>1, <1>2, <1>3

(* The ledger's value is the sum of its costs.                             *)
LEMMA LedgerSum == L!Value = SumOf(L!Costs, Symbols)
  BY DEF L!Value, SumOf, MapThenSumSet, MapThenFoldSet, L!MapThenSumSet, L!MapThenFoldSet

(* When no handler is between two writes, it is the cost of the open       *)
(* positions.                                                              *)
LEMMA LedgerValue ==
  ASSUME \A s \in Symbols : ~Bought(s) /\ ~Sold(s) PROVE L!Value = Invested
<1>1. \A s \in Symbols : EntryOf(s).cost = positions[s].cost
  BY DEF EntryOf, NoPos
<1>2. L!Costs = Costs
  BY <1>1 DEF L!Costs, Costs
<1> QED BY <1>2, LedgerSum DEF Invested

(* A restart repairs the ledger.                                           *)
LEMMA LedgerRepair == ASSUME TypeOK, SoleInv, LedgerInv, Restart PROVE L!Repair
<1>1. \A a \in Actors : ~Busy(a)
  BY DEF Restart, SoleInv, Downed
<1>2. \A s \in Symbols : ~Bought(s) /\ ~Sold(s)
  BY <1>1 DEF Bought, Sold, Busy, Actors
<1>3. L!Value = Invested
  BY <1>2, LedgerValue
<1>4. \A s \in Symbols : EntryOf(s)' = EntryOf(s)
  BY DEF EntryOf, Bought, Sold, Restart
<1> QED BY <1>3, <1>4 DEF L!Repair, Restart, Reconciled, LedgerInv

(* Every step of the paper engine is a step of the ledger or changes       *)
(* nothing of it.                                                          *)
LEMMA LedgerStep ==
  ASSUME TypeOK, SoleInv, LedgerInv, [Next]_vars PROVE [L!Next]_(L!vars)
<1>c. /\ Consumer \in Actors /\ Requests \subseteq Actors /\ Consumer \notin Requests
      /\ pc \in [Actors -> Labels] /\ work \in [Actors -> Work]
  BY PaperAssumption DEF Actors, TypeOK, ProcessOK
<1>o. CASE overlap'
  BY <1>o DEF L!Next, L!Share
<1>n. CASE ~overlap'
  <2>n. ~overlap
    BY <1>n, OverlapStays
  <2>b. Sole
    BY <2>n DEF SoleInv, Single
  <2>e. ASSUME NEW a \in Actors, pc[a] = "idle", pc'[a] \in {"gate", "close"},
               UNCHANGED <<positions, budget, faults>>, Enter(a),
               \A b \in Actors \ {a} : pc'[b] = pc[b] /\ work'[b] = work[b]
        PROVE  UNCHANGED L!vars
    <3>1. UNCHANGED overlap
      BY <2>e, <2>n, <1>n DEF Enter, TypeOK, HistoryOK
    <3> QED BY <2>e, <3>1, EntriesStay, LedgerStutter
  <2>1. ASSUME NEW s \in Symbols, NEW side \in {"BUY", "SELL"}, Decide(s, side)
        PROVE  UNCHANGED L!vars
    BY <2>1, <2>e, <2>n, <1>n, <1>c DEF Decide, Step, redis
  <2>2. CASE Open
    BY <2>2, <2>n, LedgerOpen
  <2>3. CASE Watch
    BY <2>3, <2>n, <1>n, LedgerWatch
  <2>4. ASSUME NEW a \in Actors, Close(a) PROVE [L!Next]_(L!vars)
    BY <2>4, <2>n, LedgerClose
  <2>5. ASSUME NEW r \in Requests, NEW s \in Symbols, ManualClose(r, s)
        PROVE  UNCHANGED L!vars
    BY <2>5, <2>e, <2>n, <1>n, <1>c DEF ManualClose, Step, redis
  <2>6. CASE \/ SessionEnd \/ (\E s \in Symbols : ExpireCooldown(s))
             \/ (\E m \in sent : MirrorTrade(m)) \/ UNCHANGED vars
    <3>1. UNCHANGED <<positions, budget, pc, work, faults, overlap>>
      BY <2>6 DEF SessionEnd, ExpireCooldown, MirrorTrade, vars, redis, process, rest, history
    <3> QED BY <3>1, LedgerStutter DEF EntryOf, Bought, Sold
  <2>7. ASSUME NEW a \in Actors, Abort(a) PROVE L!Slip
    <3>1. /\ Busy(a) /\ pc'[a] \in {"done", "watch", "idle"} /\ faults' = faults + 1
          /\ \A b \in Actors \ {a} : pc'[b] = pc[b]
          /\ UNCHANGED <<positions, budget, overlap>>
      BY <2>7, <1>c DEF Abort, Finish, Step, Failed, redis
    <3>2. \A b \in Actors \ {a} : ~Busy(b) /\ pc'[b] \notin {"put", "del_pos"}
      BY <3>1, <2>b DEF Sole, Busy
    <3> QED BY <3>1, <3>2, <2>n, LedgerSlip
  <2>8. CASE Crash
    <3>1. /\ \A b \in Actors : pc'[b] \notin {"put", "del_pos"}
          /\ faults' = faults + 1 /\ UNCHANGED <<positions, budget, overlap>>
      BY <2>8, <1>c DEF Crash, Busy, redis
    <3>2. \E a \in Actors : \A b \in Actors \ {a} : ~Busy(b)
      BY <2>b, <1>c DEF Sole
    <3> QED BY <3>1, <3>2, <2>n, LedgerSlip DEF L!Next
  <2>9. CASE Restart
    BY <2>9, LedgerRepair DEF L!Next
  <2> QED BY <2>1, <2>2, <2>3, <2>4, <2>5, <2>6, <2>7, <2>8, <2>9 DEF Next, L!Next
<1> QED BY <1>o, <1>n

(* The initial account is the ledger's.                                    *)
LEMMA LedgerInit == Init => L!Init
<1> SUFFICES ASSUME Init PROVE L!Init
  OBVIOUS
<1>1. \A s \in Symbols : EntryOf(s) = L!Flat
  BY DEF Init, EntryOf, Bought, Sold, NoSnapshot, NoPos, L!Flat, Actors
<1> QED BY <1>1 DEF L!Init, Init

(* The paper engine implements the ledger: every position is paid for and  *)
(* paid out once, by its own amounts, although allocate(), release() and   *)
(* the writes around them are steps of their own (budget.py,               *)
(* mock_broker.py); faults are slips that the next restart repairs.        *)
THEOREM Implements == Spec => FollowsLedger
<1>1. SoleInv /\ TypeOK /\ LedgerInv /\ [Next]_vars => [L!Next]_(L!vars)
  BY LedgerStep
<1> QED BY <1>1, BrokerSound, ReadyInit, ReadyStep, LedgerInit, PTL
        DEF Spec, BrokerInv, FollowsLedger, L!Spec

(* The ledger by itself, with the types its value needs.                   *)
Balanced ==
  ~overlap => /\ faults \in Nat
              /\ faults = 0 => /\ \A s \in Symbols : L!Costs[s] \in Nat
                               /\ budget.invested = L!Value

(* Every step of the ledger keeps Balanced.                                *)
LEMMA BalancedStep == Balanced /\ [L!Next]_(L!vars) => Balanced'
<1> SUFFICES ASSUME Balanced, [L!Next]_(L!vars), ~overlap' PROVE Balanced'
  BY DEF Balanced
<1>v. L!Value = SumOf(L!Costs, Symbols) /\ L!Value' = SumOf(L!Costs', Symbols)
  BY DEF L!Value, SumOf, MapThenSumSet, MapThenFoldSet, L!MapThenSumSet, L!MapThenFoldSet
<1>c. \A s \in Symbols : L!Costs[s] = EntryOf(s).cost /\ L!Costs'[s] = EntryOf(s)'.cost
  BY DEF L!Costs
(* One entry changes its cost, and invested changes with it.               *)
<1>m. ASSUME NEW s \in Symbols, NEW c \in Nat, EntryOf(s)'.cost = c,
             \A x \in Symbols \ {s} : EntryOf(x)' = EntryOf(x),
             ~overlap, UNCHANGED faults,
             faults = 0 => budget'.invested = budget.invested + c - EntryOf(s).cost
      PROVE  Balanced'
  <2>1. CASE faults # 0
    BY <1>m, <2>1 DEF Balanced
  <2>2. CASE faults = 0
    <3>1. \A x \in Symbols : L!Costs[x] \in Nat /\ L!Costs'[x] \in Nat
      BY <1>m, <2>2, <1>c DEF Balanced
    <3>2. \A x \in Symbols \ {s} : L!Costs'[x] = L!Costs[x]
      BY <1>m, <1>c
    <3>3. SumOf(L!Costs', Symbols) = SumOf(L!Costs, Symbols) + L!Costs'[s] - L!Costs[s]
      BY <3>1, <3>2, SumChange, PaperAssumption
    <3>4. budget.invested = L!Value /\ faults' = 0
      BY <1>m, <2>2 DEF Balanced
    <3>5. budget'.invested = L!Value'
      BY <3>3, <3>4, <1>v, <1>c, <1>m, <2>2
    <3> QED BY <3>1, <3>4, <3>5 DEF Balanced
  <2> QED BY <2>1, <2>2
<1>1. ASSUME NEW s \in Symbols, NEW c \in 0..budget.cash, L!Buy(s, c) PROVE Balanced'
  <2>1. /\ EntryOf(s) = L!Flat /\ EntryOf(s)' = L!Entry(c)
        /\ \A x \in Symbols \ {s} : EntryOf(x)' = EntryOf(x)
    BY <1>1 DEF L!Buy
  <2>2. UNCHANGED <<faults, overlap>> /\ budget'.invested = budget.invested + c
    BY <1>1 DEF L!Buy
  <2>3. faults = 0 => budget.invested \in Nat
    <3>1. ASSUME faults = 0 PROVE L!Value \in Nat /\ budget.invested = L!Value
      BY <3>1, <1>v, <2>2, SumNat, PaperAssumption DEF Balanced
    <3> QED BY <3>1
  <2>4. c \in Nat
    OBVIOUS
  <2>5. EntryOf(s).cost = 0 /\ EntryOf(s)'.cost = c
    BY <2>1 DEF L!Flat, L!Entry
  <2> QED BY <2>1, <2>2, <2>3, <2>4, <2>5, <1>m
<1>2. ASSUME NEW s \in Symbols, NEW g \in Moves, L!Sell(s, g) PROVE Balanced'
  <2>1. /\ EntryOf(s)' = L!Flat /\ \A x \in Symbols \ {s} : EntryOf(x)' = EntryOf(x)
    BY <1>2 DEF L!Sell
  <2>2. /\ UNCHANGED <<faults, overlap>>
        /\ budget'.invested = IF budget.invested > EntryOf(s).cost
                              THEN budget.invested - EntryOf(s).cost ELSE 0
    BY <1>2 DEF L!Sell
  <2>3. ASSUME faults = 0
        PROVE  budget.invested >= EntryOf(s).cost /\ EntryOf(s).cost \in Nat
               /\ budget.invested \in Nat
    <3>1. /\ budget.invested = SumOf(L!Costs, Symbols)
          /\ \A x \in Symbols : L!Costs[x] \in Nat /\ L!Costs[x] \in Int
      BY <2>3, <1>v, <2>2 DEF Balanced
    <3>2. PICK R : R = Symbols \ {s}
      OBVIOUS
    <3>3. IsFiniteSet(R) /\ s \notin R /\ R \cup {s} = Symbols
      BY <3>2, FS_RemoveElement, PaperAssumption
    <3>4. SumOf(L!Costs, R) \in Nat /\ \A x \in R \cup {s} : L!Costs[x] \in Int
      BY <3>1, <3>3, SumNat
    <3>5. SumOf(L!Costs, R \cup {s}) = L!Costs[s] + SumOf(L!Costs, R)
      BY <3>3, <3>4, SumAdd
    <3>6. budget.invested = L!Costs[s] + SumOf(L!Costs, R)
      BY <3>1, <3>3, <3>5
    <3> QED BY <3>1, <3>4, <3>6, <1>c
  <2>4. EntryOf(s)'.cost = 0
    BY <2>1 DEF L!Flat
  <2> QED BY <2>1, <2>2, <2>3, <2>4, <1>m
<1>3. CASE L!Slip
  BY <1>3 DEF L!Slip, Balanced
<1>4. CASE L!Repair
  BY <1>4 DEF L!Repair, Balanced
<1>5. CASE UNCHANGED L!vars
  <2>1. /\ UNCHANGED <<faults, overlap>> /\ budget'.invested = budget.invested
        /\ \A x \in Symbols : EntryOf(x)' = EntryOf(x)
    BY <1>5 DEF L!vars
  <2>2. L!Costs' = L!Costs
    BY <2>1 DEF L!Costs
  <2> QED BY <2>1, <2>2, <1>v DEF Balanced
<1> QED BY <1>1, <1>2, <1>3, <1>4, <1>5 DEF L!Next, L!Share

(* What the ledger promises: without faults, invested is at every moment   *)
(* the sum of the entries' costs (budget.py, allocate and release).        *)
THEOREM LedgerBalanced == L!Spec => []L!InBalance
<1>1. L!Init => Balanced
  <2> SUFFICES ASSUME L!Init PROVE Balanced
    OBVIOUS
  <2>1. \A s \in Symbols : L!Costs[s] = 0
    BY DEF L!Init, L!Costs, L!Flat
  <2>2. L!Value = 0
    BY <2>1, SumZero, LedgerSum, PaperAssumption
  <2> QED BY <2>1, <2>2 DEF L!Init, Balanced
<1>2. Balanced => L!InBalance
  BY DEF Balanced, L!InBalance
<1> QED BY <1>1, <1>2, BalancedStep, PTL DEF L!Spec
=============================================================================
