-------------------------- MODULE ExitRulesProofs --------------------------
(***************************************************************************)
(* Proofs about ExitRules for every entry price, price range, set of       *)
(* levels and of indicator readings.  The trade is fixed and an exit is    *)
(* final, so only KeepOpen needs arithmetic: it is the one action that     *)
(* moves the peak and the milestone count.                                 *)
(***************************************************************************)
EXTENDS ExitRules, TLAPS

-----------------------------------------------------------------------------
(* Operators.                                                              *)

(* Filtering the levels leaves prices.                                     *)
LEMMA BuiltNat ==
  ASSUME NEW side, NEW spot \in Nat, NEW snap \in Snapshots
  PROVE  Built(side, spot, snap) \in SUBSET Nat
BY ExitAssumption DEF Built

(* The levels kept at the entry are on the losing side of its price.       *)
LEMMA BuiltUncrossed ==
  ASSUME NEW side, NEW spot \in Nat, NEW snap \in Snapshots, NEW day
  PROVE  ~Crossed([side |-> side, day |-> day, levels |-> Built(side, spot, snap)], spot)
<1>1. \A l \in Built(side, spot, snap) :
        l \in Nat /\ (IF side = "SELL" THEN l > spot ELSE l < spot)
  BY ExitAssumption DEF Built
<1>2. QED BY <1>1 DEF Crossed

(* Once the peak has gained 5% the trail floor is above the entry price.   *)
LEMMA FloorAboveEntry ==
  ASSUME NEW peak \in Nat, 100 * peak >= 105 * Entry
  PROVE  FloorOf(peak) > 100 * Entry
<1>1. Entry \in Nat /\ Entry > 0 BY ExitAssumption
<1>2. CASE 100 * peak >= 110 * Entry
  <2>1. FloorOf(peak) = peak * 95 BY <1>2 DEF FloorOf, Offset
  <2>2. QED BY <2>1, <1>1, <1>2
<1>3. CASE ~(100 * peak >= 110 * Entry) /\ 100 * peak >= 107 * Entry
  <2>1. FloorOf(peak) = peak * 96 BY <1>3 DEF FloorOf, Offset
  <2>2. QED BY <2>1, <1>1, <1>3
<1>4. CASE ~(100 * peak >= 110 * Entry) /\ ~(100 * peak >= 107 * Entry)
  <2>1. FloorOf(peak) = peak * 97 BY <1>4 DEF FloorOf, Offset
  <2>2. QED BY <2>1, <1>1
<1>5. QED BY <1>2, <1>3, <1>4

(* A target is a price.                                                    *)
LEMMA TargetNat ==
  ASSUME NEW tr, NEW n \in Nat
  PROVE  Target(tr, n) \in Nat
<1>1. Entry \in Nat BY ExitAssumption
<1>2. FirstPct(tr) \in Nat BY DEF FirstPct
<1>3. 100 + FirstPct(tr) + 10 * n \in Nat BY <1>2
<1>4. QED BY <1>1, <1>3 DEF Target

(* The types of a tick.                                                    *)
LEMMA TickType ==
  ASSUME NEW t \in Ticks
  PROVE  t.ltp \in Nat /\ t.spot \in Nat /\ t.over = over
BY ExitAssumption DEF Ticks

(* What check_exit may return: a sale at a price with a reason, or a count *)
(* that stays, goes from 0 to 1, or passes a target.                       *)
Reasons == {"SESSION_CLOSE", "STOP_LOSS", "DELTA_ERODED", "IV_CRUSH", "TRAIL_STOP", "CLOSED"}
Sale(out) == out.sold.reason \in Reasons /\ out.sold \in [reason : Reasons, price : Nat]
Kept(tr, p, t, out) ==
  /\ out.sold = NotSold
  /\ \/ out.milestone = p.milestone
     \/ out.milestone = 1 /\ p.milestone = 0
     \/ out.milestone = p.milestone + 1 /\ TargetHit(tr, p, t)

LEMMA CheckExitReturns ==
  ASSUME NEW tr, NEW p \in [peak : Nat, milestone : Nat], NEW t \in Ticks
  PROVE  LET out == CheckExit(tr, p, t) IN Sale(out) \/ Kept(tr, p, t, out)
<1> DEFINE out == CheckExit(tr, p, t)
<1>1. t.ltp \in Nat BY TickType
<1>2. StopFloor \in Nat BY ExitAssumption DEF StopFloor
<1>3. Entry \in Nat BY ExitAssumption
<1>4. \A r \in Reasons, price \in Nat : Sale(Sell(r, price))
  BY DEF Sale, Sell, Reasons
<1>5. \A n : Hold(n).sold = NotSold /\ Hold(n).milestone = n BY DEF Hold
<1>6. CASE t.ltp = 0
  <2>1. out = Unpriced(p, t) BY <1>6 DEF CheckExit
  <2>2. CASE t.over
    <3>1. PICK price \in Nat : out = Sell("SESSION_CLOSE", price)
      BY <1>3, <2>1, <2>2 DEF Unpriced
    <3>2. QED BY <1>4, <3>1 DEF Reasons
  <2>3. CASE ~t.over
    <3>1. out = Hold(p.milestone) BY <2>1, <2>3 DEF Unpriced
    <3>2. QED BY <1>5, <3>1 DEF Kept
  <2>4. QED BY <2>2, <2>3
<1>7. CASE t.ltp # 0
  <2>1. \/ \E r \in Reasons, price \in Nat : out = Sell(r, price)
        \/ out = Hold(p.milestone)
        \/ out = Hold(1) /\ p.milestone = 0
        \/ out = Hold(p.milestone + 1) /\ TargetHit(tr, p, t)
    BY <1>1, <1>2, <1>7 DEF CheckExit, Reasons, PaTrail, PremiumTrail
  <2>2. QED BY <1>4, <1>5, <2>1 DEF Kept
<1>8. QED BY <1>6, <1>7

(* The peak only grows, and is then the premium seen.                      *)
LEMMA SeenType ==
  ASSUME NEW p \in [peak : Nat, milestone : Nat], NEW ltp \in Nat
  PROVE  /\ Seen(p, ltp) \in [peak : Nat, milestone : Nat]
         /\ Seen(p, ltp).milestone = p.milestone
         /\ Seen(p, ltp).peak = IF ltp > p.peak THEN ltp ELSE p.peak
BY DEF Seen
-----------------------------------------------------------------------------
(* Steps.                                                                  *)

(* What a tick that leaves the position open does to it.                   *)
LEMMA KeepOpenMoves ==
  ASSUME TypeOK, NEW t \in Ticks, NEW written \in BOOLEAN, KeepOpen(t, written)
  PROVE  /\ sold' = sold /\ trade' = trade /\ over' = over
         /\ last' = [ltp |-> t.ltp, spot |-> t.spot]
         /\ high' = (IF t.ltp > high THEN t.ltp ELSE high)
         /\ pos' \in [peak : Nat, milestone : Nat]
         /\ lost' \in BOOLEAN
         /\ ~lost' => /\ ~lost
                      /\ pos'.peak = (IF t.ltp > pos.peak THEN t.ltp ELSE pos.peak)
         /\ \/ pos'.milestone = pos.milestone
            \/ pos'.milestone = 1
            \/ /\ pos'.milestone = pos.milestone + 1
               /\ 100 * t.ltp >= Target(trade, pos.milestone)
<1> DEFINE p == Seen(pos, t.ltp)
           out == CheckExit(trade, p, t)
           new == [p EXCEPT !.milestone = out.milestone]
<1>1. t.ltp \in Nat BY TickType
<1>2. pos \in [peak : Nat, milestone : Nat] BY DEF TypeOK
<1>3. /\ p \in [peak : Nat, milestone : Nat] /\ p.milestone = pos.milestone
      /\ p.peak = IF t.ltp > pos.peak THEN t.ltp ELSE pos.peak
  BY <1>1, <1>2, SeenType
<1>4. /\ Open /\ out.sold = NotSold
      /\ pos' = IF written THEN new ELSE pos
      /\ lost' = (lost \/ (~written /\ new # pos))
  BY DEF KeepOpen
<1>5. Kept(trade, p, t, out)
  <2>1. Sale(out) \/ Kept(trade, p, t, out) BY <1>3, CheckExitReturns
  <2>2. NotSold.reason \notin Reasons BY DEF NotSold, Reasons
  <2>3. ~Sale(out) BY <1>4, <2>2 DEF Sale
  <2>4. QED BY <2>1, <2>3
<1>6. \/ out.milestone = pos.milestone
      \/ out.milestone = 1
      \/ /\ out.milestone = pos.milestone + 1
         /\ 100 * t.ltp >= Target(trade, pos.milestone)
  BY <1>3, <1>5 DEF Kept, TargetHit
<1>7. out.milestone \in Nat BY <1>2, <1>6
<1>8. /\ new \in [peak : Nat, milestone : Nat]
      /\ new.peak = p.peak /\ new.milestone = out.milestone
  BY <1>3, <1>7
<1>9. /\ pos' \in [peak : Nat, milestone : Nat]
      /\ pos'.milestone = out.milestone \/ pos'.milestone = pos.milestone
  BY <1>2, <1>4, <1>8
<1>10. lost \in BOOLEAN BY DEF TypeOK
<1>11. lost' \in BOOLEAN BY <1>4, <1>10
<1>12. ~lost' => ~lost /\ pos' = new BY <1>4, <1>10
<1>13. ~lost' => /\ ~lost
                 /\ pos'.peak = (IF t.ltp > pos.peak THEN t.ltp ELSE pos.peak)
  BY <1>3, <1>8, <1>12
<1>14. /\ sold' = sold /\ trade' = trade /\ over' = over
       /\ last' = [ltp |-> t.ltp, spot |-> t.spot]
       /\ high' = (IF t.ltp > high THEN t.ltp ELSE high)
  BY DEF KeepOpen, fixed, Observe
<1>15. QED BY <1>6, <1>9, <1>11, <1>13, <1>14

(* What a tick that sells does.                                            *)
LEMMA SellMoves ==
  ASSUME TypeOK, NEW t \in Ticks, Invalidate(t) \/ ExitNow(t)
  PROVE  /\ sold'.reason \in Reasons \union {"INVALIDATION"} /\ sold'.price \in Nat
         /\ sold' = [reason |-> sold'.reason, price |-> sold'.price]
         /\ trade' = trade /\ over' = over /\ pos' = pos /\ lost' = lost
         /\ last' = [ltp |-> t.ltp, spot |-> t.spot]
         /\ high' = (IF t.ltp > high THEN t.ltp ELSE high)
<1> DEFINE p == Seen(pos, t.ltp)
           out == CheckExit(trade, p, t)
<1>1. t.ltp \in Nat /\ t.spot \in Nat BY TickType
<1>2. CASE Invalidate(t) BY <1>1, <1>2 DEF Invalidate, fixed, Observe
<1>3. CASE ExitNow(t)
  <2>1. sold' = out.sold /\ out.sold # NotSold BY <1>3 DEF ExitNow
  <2>2. p \in [peak : Nat, milestone : Nat] BY <1>1, SeenType DEF TypeOK
  <2>3. Sale(out) BY <2>1, <2>2, CheckExitReturns DEF Kept
  <2>4. QED BY <1>3, <2>1, <2>3 DEF ExitNow, fixed, Observe, Sale
<1>4. QED BY <1>2, <1>3

(* Every variable keeps its type, for every price a tick can bring.        *)
THEOREM TypeCorrect == Spec => []TypeOK
<1>1. Init => TypeOK
  <2> SUFFICES ASSUME Init PROVE TypeOK OBVIOUS
  <2>1. PICK side \in {"BUY", "SELL"}, day \in {"RANGING", "TRENDING"}, spot \in Spots,
             snap \in Snapshots :
               /\ trade = [side |-> side, day |-> day, levels |-> Built(side, spot, snap)]
               /\ last = [ltp |-> 0, spot |-> spot]
    BY DEF Init
  <2>2. spot \in Nat BY ExitAssumption
  <2>3. Built(side, spot, snap) \in SUBSET Nat BY <2>2, BuiltNat
  <2>4. trade \in [side : {"BUY", "SELL"}, day : {"RANGING", "TRENDING"}, levels : SUBSET Nat]
    <3>1. side \in {"BUY", "SELL"} /\ day \in {"RANGING", "TRENDING"} BY <2>1
    <3>2. QED BY <2>1, <2>3, <3>1
  <2>5. last \in [ltp : Nat, spot : Nat] BY <2>1, <2>2
  <2>6. pos \in [peak : Nat, milestone : Nat] BY DEF Init
  <2>7. /\ sold.reason = "NONE" /\ sold = [reason |-> "NONE", price |-> 0]
        /\ over = FALSE /\ lost = FALSE /\ high = 0
    BY DEF Init, NotSold
  <2>8. QED BY <2>4, <2>5, <2>6, <2>7 DEF TypeOK
<1>2. TypeOK /\ [Next]_vars => TypeOK'
  <2> SUFFICES ASSUME TypeOK, [Next]_vars PROVE TypeOK' OBVIOUS
  <2>1. CASE UNCHANGED vars BY <2>1 DEF TypeOK, vars
  <2>2. CASE SessionEnd BY <2>2 DEF SessionEnd, TypeOK
  <2>3. ASSUME NEW t \in Ticks, Invalidate(t) \/ ExitNow(t) PROVE TypeOK'
    <3>1. t.ltp \in Nat /\ t.spot \in Nat BY TickType
    <3>2. QED BY <2>3, <3>1, SellMoves DEF TypeOK, Reasons
  <2>4. ASSUME NEW t \in Ticks, NEW written \in BOOLEAN, KeepOpen(t, written) PROVE TypeOK'
    <3>1. t.ltp \in Nat /\ t.spot \in Nat BY TickType
    <3>2. QED BY <2>4, <3>1, KeepOpenMoves DEF TypeOK
  <2>5. QED BY <2>1, <2>2, <2>3, <2>4 DEF Next, Tick
<1>3. QED BY <1>1, <1>2, PTL DEF Spec

(* An open position's thesis holds, and what is remembered of it is true:  *)
(* the three invariants of the run exit_rules, each inductive with TypeOK. *)
THEOREM ThesisSafe == Spec => []ThesisHolds
<1>1. Init => ThesisHolds
  <2> SUFFICES ASSUME Init PROVE ThesisHolds OBVIOUS
  <2>1. PICK side \in {"BUY", "SELL"}, day \in {"RANGING", "TRENDING"}, spot \in Spots,
             snap \in Snapshots :
               /\ trade = [side |-> side, day |-> day, levels |-> Built(side, spot, snap)]
               /\ last = [ltp |-> 0, spot |-> spot]
    BY DEF Init
  <2>2. spot \in Nat BY ExitAssumption
  <2>3. QED BY <2>1, <2>2, BuiltUncrossed DEF ThesisHolds
<1>2. TypeOK /\ ThesisHolds /\ [Next]_vars => ThesisHolds'
  <2> SUFFICES ASSUME TypeOK, ThesisHolds, [Next]_vars PROVE ThesisHolds' OBVIOUS
  <2>1. CASE UNCHANGED vars BY <2>1 DEF ThesisHolds, Crossed, Open, vars
  <2>2. CASE SessionEnd BY <2>2 DEF SessionEnd, ThesisHolds, Crossed, Open
  <2>3. ASSUME NEW t \in Ticks, Invalidate(t) \/ ExitNow(t) PROVE ThesisHolds'
    <3>1. sold'.reason \in Reasons \union {"INVALIDATION"} BY <2>3, SellMoves
    <3>2. QED BY <3>1 DEF ThesisHolds, Open, NotSold, Reasons
  <2>4. ASSUME NEW t \in Ticks, NEW written \in BOOLEAN, KeepOpen(t, written)
        PROVE  ThesisHolds'
    <3>1. ~Crossed(trade, t.spot) BY <2>4 DEF KeepOpen
    <3>2. trade' = trade /\ last'.spot = t.spot BY <2>4, KeepOpenMoves
    <3>3. QED BY <3>1, <3>2 DEF ThesisHolds, Crossed
  <2>5. QED BY <2>1, <2>2, <2>3, <2>4 DEF Next, Tick
<1>3. QED BY <1>1, <1>2, TypeCorrect, PTL DEF Spec

(* The peak in Redis is the highest premium seen while no write-back is    *)
(* lost, and no milestone is counted before its target was reached.        *)
Remembered == PeakRemembered /\ MilestonesEarned

THEOREM MemoryTrue == Spec => [](PeakRemembered /\ MilestonesEarned)
<1>1. Init => Remembered
  BY DEF Init, Remembered, PeakRemembered, MilestonesEarned
<1>2. TypeOK /\ Remembered /\ [Next]_vars => Remembered'
  <2> SUFFICES ASSUME TypeOK, Remembered, [Next]_vars PROVE Remembered' OBVIOUS
  <2> USE DEF Remembered
  <2>1. CASE UNCHANGED vars
    BY <2>1 DEF PeakRemembered, MilestonesEarned, Target, FirstPct, Open, vars
  <2>2. CASE SessionEnd
    BY <2>2 DEF SessionEnd, PeakRemembered, MilestonesEarned, Target, FirstPct, Open
  <2>3. \A n \in Nat : Target(trade, n) \in Nat BY TargetNat
  <2>4. high \in Nat /\ pos.milestone \in Nat BY DEF TypeOK
  <2>5. ASSUME NEW t \in Ticks, Invalidate(t) \/ ExitNow(t) PROVE Remembered'
    <3>1. /\ sold'.reason \in Reasons \union {"INVALIDATION"} /\ pos' = pos /\ trade' = trade
          /\ high' = (IF t.ltp > high THEN t.ltp ELSE high) /\ t.ltp \in Nat
      BY <2>5, SellMoves, TickType
    <3>2. PeakRemembered' BY <3>1 DEF PeakRemembered, Open, NotSold, Reasons
    <3>3. pos.milestone > 1 => 100 * high >= Target(trade, pos.milestone - 1)
      BY DEF MilestonesEarned
    <3>4. high' \in Nat /\ high' >= high BY <2>4, <3>1
    <3>5. pos.milestone > 1 => Target(trade, pos.milestone - 1) \in Nat BY <2>3, <2>4
    <3>6. pos.milestone > 1 => 100 * high' >= Target(trade, pos.milestone - 1)
      BY <2>4, <3>3, <3>4, <3>5
    <3>7. MilestonesEarned' BY <3>1, <3>6 DEF MilestonesEarned, Target, FirstPct
    <3>8. QED BY <3>2, <3>7
  <2>6. ASSUME NEW t \in Ticks, NEW written \in BOOLEAN, KeepOpen(t, written)
        PROVE  Remembered'
    <3>1. t.ltp \in Nat BY TickType
    <3>2. high' = IF t.ltp > high THEN t.ltp ELSE high BY <2>6, KeepOpenMoves
    <3>3. PeakRemembered'
      <4>1. ~lost' => /\ ~lost
                      /\ pos'.peak = (IF t.ltp > pos.peak THEN t.ltp ELSE pos.peak)
        BY <2>6, KeepOpenMoves
      <4>2. Open BY <2>6 DEF KeepOpen
      <4>3. QED BY <3>2, <4>1, <4>2 DEF PeakRemembered
    <3>4. MilestonesEarned'
      <4>1. trade' = trade BY <2>6, KeepOpenMoves
      <4>2. SUFFICES ASSUME pos'.milestone > 1
                     PROVE  100 * high' >= Target(trade, pos'.milestone - 1)
        BY <4>1 DEF MilestonesEarned, Target, FirstPct
      <4>3. high' \in Nat /\ high' >= high /\ high' >= t.ltp BY <2>4, <3>1, <3>2
      <4>4. \/ pos'.milestone = pos.milestone
            \/ /\ pos'.milestone = pos.milestone + 1
               /\ 100 * t.ltp >= Target(trade, pos.milestone)
        BY <2>6, <4>2, KeepOpenMoves
      <4>5. CASE pos'.milestone = pos.milestone
        <5>1. 100 * high >= Target(trade, pos.milestone - 1)
          BY <4>2, <4>5 DEF MilestonesEarned
        <5>2. Target(trade, pos.milestone - 1) \in Nat BY <2>3, <2>4, <4>2, <4>5
        <5>3. QED BY <2>4, <4>3, <4>5, <5>1, <5>2
      <4>6. CASE /\ pos'.milestone = pos.milestone + 1
                 /\ 100 * t.ltp >= Target(trade, pos.milestone)
        <5>1. pos'.milestone - 1 = pos.milestone BY <2>4, <4>6
        <5>2. Target(trade, pos.milestone) \in Nat BY <2>3, <2>4
        <5>3. QED BY <3>1, <4>3, <4>6, <5>1, <5>2
      <4>7. QED BY <4>4, <4>5, <4>6
    <3>5. QED BY <3>3, <3>4
  <2>7. QED BY <2>1, <2>2, <2>5, <2>6 DEF Next, Tick
<1>3. QED BY <1>1, <1>2, TypeCorrect, PTL DEF Spec, Remembered

(* A milestone is counted only after its target was reached.               *)
THEOREM MilestonesPaid == Spec => []MilestonesEarned
BY MemoryTrue, PTL

(* No position is left open on a trail that gained 5% with the premium at  *)
(* or below its entry price: the floor rule sells first.                   *)
THEOREM GainSafe == Spec => GainProtected
<1> DEFINE Step == Open /\ sold' = NotSold /\ pos.milestone > 0 /\ 100 * pos.peak >= 105 * Entry
                     /\ last'.ltp > 0 /\ over' = over
                   => last'.ltp > Entry
<1>1. TypeOK /\ [Next]_vars => [Step]_<<last, sold>>
  <2> SUFFICES ASSUME TypeOK, Next, <<last, sold>>' # <<last, sold>>,
                      Open, sold' = NotSold, pos.milestone > 0, 100 * pos.peak >= 105 * Entry,
                      last'.ltp > 0, over' = over
               PROVE  last'.ltp > Entry
    BY DEF vars
  <2>1. CASE SessionEnd BY <2>1 DEF SessionEnd
  <2>2. ASSUME NEW t \in Ticks, Invalidate(t) \/ ExitNow(t) PROVE FALSE
    <3>1. sold'.reason \in Reasons \union {"INVALIDATION"} BY <2>2, SellMoves
    <3>2. QED BY <3>1 DEF NotSold, Reasons
  <2>3. ASSUME NEW t \in Ticks, NEW written \in BOOLEAN, KeepOpen(t, written)
        PROVE  last'.ltp > Entry
    <3> DEFINE p == Seen(pos, t.ltp)
    <3>1. t.ltp \in Nat /\ last'.ltp = t.ltp /\ t.ltp > 0 BY <2>3, KeepOpenMoves, TickType
    <3>2. pos \in [peak : Nat, milestone : Nat] BY DEF TypeOK
    <3>3. /\ p.milestone = pos.milestone /\ p.milestone \in Nat /\ p.peak \in Nat
          /\ p.peak = IF t.ltp > pos.peak THEN t.ltp ELSE pos.peak
      BY <3>1, <3>2, SeenType
    <3>4. CheckExit(trade, p, t).sold = NotSold BY <2>3 DEF KeepOpen
    <3>5. \A r \in Reasons : \A x : Sell(r, x).sold # NotSold BY DEF Sell, NotSold, Reasons
    <3>6. ~FloorHit(p, t)
      <4>1. ~PaTrail(p, t) /\ ~PremiumTrail(p) BY <3>3 DEF PaTrail, PremiumTrail
      <4>2. SUFFICES ASSUME FloorHit(p, t) PROVE FALSE OBVIOUS
      <4>3. \E r \in Reasons : \E x : CheckExit(trade, p, t) = Sell(r, x)
        BY <3>1, <4>1, <4>2 DEF CheckExit, Reasons
      <4>4. QED BY <3>4, <3>5, <4>3
    <3>7. Entry \in Nat /\ Entry > 0 BY ExitAssumption
    <3>8. 100 * p.peak >= 105 * Entry /\ p.peak > 0 BY <3>1, <3>2, <3>3, <3>7
    <3>9. FloorOf(p.peak) > 100 * Entry BY <3>3, <3>8, FloorAboveEntry
    <3>10. FloorOf(p.peak) \in Int BY <3>3 DEF FloorOf, Offset
    <3>11. 100 * t.ltp > FloorOf(p.peak) BY <3>1, <3>3, <3>6, <3>8, <3>10 DEF FloorHit
    <3>12. QED BY <3>1, <3>7, <3>9, <3>10, <3>11
  <2>4. QED BY <2>1, <2>2, <2>3 DEF Next, Tick
<1>2. QED BY <1>1, TypeCorrect, PTL DEF Spec, GainProtected
=============================================================================
