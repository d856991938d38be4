----------------------------- MODULE ExitRules -----------------------------
(***************************************************************************)
(* The life of one open option position under the exit rules of the        *)
(* simulation engine: what _check_stop_targets does with it on every tick, *)
(* invalidation_exit.py first, then check_exit of exit_rules.py            *)
(* (LET_WINNERS_RUN is FALSE there).                                       *)
(*                                                                         *)
(* Premiums and index levels are integers and percentages are compared by  *)
(* cross-multiplication, so binary rounding at a threshold is left out.  0 *)
(* is a missing price.  The position lives in Redis; a tick works on a     *)
(* copy and writes it back.  Both brokers open options only, so the rules  *)
(* for other positions (exit_rules.py:393-406) are left out.  A close is   *)
(* one step here; what can happen inside it is the subject of PaperBroker. *)
(***************************************************************************)
EXTENDS Integers, FiniteSets

CONSTANTS
  Entry,       \* entry_option_price
  EntryIv,     \* entry_iv, 0 when it was not known
  Premiums,    \* premiums a tick can bring, 0 among them
  PaMinGain,   \* gain per unit that reaches PA_MIN_GROSS_PROFIT_PER_LOT
  Spots,       \* index prices a tick can bring
  Snapshots,   \* indicator levels at the decision, by name
  Greeks,      \* [delta, iv] readings, delta in hundredths, 0 when missing
  Votes        \* rsi, price and macd against their neutral: -1, 0 or 1

ASSUME ExitAssumption ==
  /\ Entry \in Nat \ {0} /\ EntryIv \in Nat /\ PaMinGain \in Nat
  /\ Premiums \subseteq Nat /\ Spots \subseteq Nat \ {0}
  /\ \A snap \in Snapshots : \A n \in DOMAIN snap : snap[n] \in Nat

VARIABLES
  trade,    \* side, day type and invalidation levels, fixed at the entry
  pos,      \* peak and milestone count in Redis
  sold,     \* the exit: its reason and price
  over,     \* the clock is past the session close
  last,     \* history: the last tick's premium and index price
  high,     \* history: the highest premium seen
  lost      \* history: a write-back failed

fixed == <<trade, over>>
vars  == <<trade, pos, sold, over, last, high, lost>>

NotSold == [reason |-> "NONE", price |-> 0]
Open    == sold = NotSold

-----------------------------------------------------------------------------
(* Rules.                                                                  *)

(* The levels on the losing side of the entry price; 0 is a missing one.   *)
BuiltUnfiltered(side, spot, snap) == {snap[n] : n \in DOMAIN snap} \ {0}
Built(side, spot, snap) ==
  {l \in {snap[n] : n \in DOMAIN snap} \ {0} : IF side = "SELL" THEN l > spot ELSE l < spot}

Crossed(tr, spot) ==
  \E l \in tr.levels : IF tr.side = "SELL" THEN spot > l ELSE spot < l

(* Trail offset in percent, by the gain of the peak.                       *)
OffsetFlat(peak) == 5
Offset(peak) == IF 100 * peak >= 110 * Entry THEN 5
                ELSE IF 100 * peak >= 107 * Entry THEN 4 ELSE 3

(* 100 times the trail floor, and 100 times the n-th milestone.            *)
FloorOf(peak)  == peak * (100 - Offset(peak))
FirstPct(tr)   == IF tr.day = "RANGING" THEN 10 ELSE 15
Target(tr, n)  == Entry * (100 + FirstPct(tr) + 10 * n)
StopLoss       == -((15 * Entry) \div 100)
StopFloor      == (85 * Entry) \div 100

StopHit(t)     == 100 * t.ltp <= 85 * Entry
PaTrail(p, t)  == /\ p.milestone = 0 /\ t.atLevel
                  /\ t.ltp > Entry /\ t.ltp - Entry >= PaMinGain
Eroded(g)      == g.delta # 0 /\ g.delta > -20 /\ g.delta < 20
Crushed(g)     == g.iv > 0 /\ EntryIv > 0 /\ 100 * g.iv < 80 * EntryIv
PremiumTrail(p) == p.milestone = 0 /\ 100 * p.peak >= 105 * Entry
FloorMissed(p, t) == FALSE
FloorHit(p, t) == p.milestone > 0 /\ p.peak > 0 /\ 100 * t.ltp <= FloorOf(p.peak)
TargetStuck(tr, p, t) == 100 * t.ltp >= Target(tr, 0)
TargetHit(tr, p, t) == 100 * t.ltp >= Target(tr, p.milestone)

(* _indicators_confirm: two of three votes for the side of the trade.      *)
Confirmed(side, v) ==
  Cardinality({i \in DOMAIN v : v[i] = (IF side = "BUY" THEN 1 ELSE -1)}) >= 2

Sell(r, price) == [sold |-> [reason |-> r, price |-> price], milestone |-> 0]
Hold(n)        == [sold |-> NotSold, milestone |-> n]

(* Without a premium only the session close fires, at the last known price.*)
UnpricedHeld(p, t) == Hold(p.milestone)
Unpriced(p, t) ==
  IF t.over THEN Sell("SESSION_CLOSE", IF p.peak > 0 THEN p.peak ELSE Entry)
            ELSE Hold(p.milestone)

(* check_exit: the first rule that fires.                                  *)
CheckExit(tr, p, t) ==
  IF t.ltp = 0                  THEN Unpriced(p, t)
  ELSE IF t.over                THEN Sell("SESSION_CLOSE", t.ltp)
  ELSE IF StopHit(t)            THEN Sell("STOP_LOSS", StopFloor)
  ELSE IF PaTrail(p, t)         THEN Hold(1)
  ELSE IF Eroded(t.greeks)      THEN Sell("DELTA_ERODED", t.ltp)
  ELSE IF Crushed(t.greeks)     THEN Sell("IV_CRUSH", t.ltp)
  ELSE IF PremiumTrail(p)       THEN Hold(1)
  ELSE IF FloorHit(p, t)        THEN Sell("TRAIL_STOP", t.ltp)
  ELSE IF ~TargetHit(tr, p, t)  THEN Hold(p.milestone)
  ELSE IF tr.day # "RANGING" /\ Confirmed(tr.side, t.votes)
                                THEN Hold(p.milestone + 1)
  ELSE Sell("CLOSED", t.ltp)

-----------------------------------------------------------------------------
(* Ticks.                                                                  *)

(* atLevel: the index is at the resistance of a CE, or the support of a PE.*)
Ticks == [ltp : Premiums, spot : Spots, atLevel : BOOLEAN, greeks : Greeks, votes : Votes,
          over : {over}]

(* A position as open_position leaves it.                                  *)
Init ==
  \E side \in {"BUY", "SELL"}, day \in {"RANGING", "TRENDING"}, spot \in Spots,
     snap \in Snapshots :
    /\ trade = [side |-> side, day |-> day, levels |-> Built(side, spot, snap)]
    /\ pos = [peak |-> 0, milestone |-> 0]
    /\ sold = NotSold
    /\ over = FALSE
    /\ last = [ltp |-> 0, spot |-> spot]
    /\ high = 0
    /\ lost = FALSE

SeenStale(p, ltp) == p
Seen(p, ltp) == IF ltp > p.peak THEN [p EXCEPT !.peak = ltp] ELSE p
Observe(t)   == /\ last' = [ltp |-> t.ltp, spot |-> t.spot]
                /\ high' = IF t.ltp > high THEN t.ltp ELSE high

(* The index is back through a level: close, at the premium or, without    *)
(* one, at the index price.                                                *)
Invalidate(t) ==
  /\ Open /\ Crossed(trade, t.spot)
  /\ sold' = [reason |-> "INVALIDATION", price |-> IF t.ltp > 0 THEN t.ltp ELSE t.spot]
  /\ Observe(t)
  /\ UNCHANGED <<fixed, pos, lost>>

ExitNow(t) ==
  LET out == CheckExit(trade, Seen(pos, t.ltp), t)
  IN  /\ Open /\ ~Crossed(trade, t.spot)
      /\ out.sold # NotSold
      /\ sold' = out.sold
      /\ Observe(t)
      /\ UNCHANGED <<fixed, pos, lost>>

(* No rule closes it: HSET the copy if the peak or the milestone changed,  *)
(* which may fail.                                                         *)
KeepOpen(t, written) ==
  LET p   == Seen(pos, t.ltp)
      out == CheckExit(trade, p, t)
      new == [p EXCEPT !.milestone = out.milestone]
  IN  /\ Open /\ ~Crossed(trade, t.spot)
      /\ out.sold = NotSold
      /\ pos' = IF written THEN new ELSE pos
      /\ lost' = (lost \/ (~written /\ new # pos))
      /\ Observe(t)
      /\ UNCHANGED <<fixed, sold>>

Tick(t) == Invalidate(t) \/ ExitNow(t) \/ \E written \in BOOLEAN : KeepOpen(t, written)

SessionEnd == ~over /\ over' = TRUE /\ UNCHANGED <<trade, pos, sold, last, high, lost>>

Next == (\E t \in Ticks : Tick(t)) \/ SessionEnd

Spec == Init /\ [][Next]_vars

(* The watcher ticks for ever while a position is open.                    *)
FairSpec == Spec /\ WF_vars(\E t \in Ticks : Tick(t))

-----------------------------------------------------------------------------
(* Properties.                                                             *)

TypeOK ==
  /\ trade \in [side : {"BUY", "SELL"}, day : {"RANGING", "TRENDING"}, levels : SUBSET Nat]
  /\ pos \in [peak : Nat, milestone : Nat]
  /\ sold \in [reason : {"NONE", "SESSION_CLOSE", "STOP_LOSS", "DELTA_ERODED", "IV_CRUSH",
                         "TRAIL_STOP", "CLOSED", "INVALIDATION"}, price : Nat]
  /\ over \in BOOLEAN /\ lost \in BOOLEAN
  /\ last \in [ltp : Nat, spot : Nat]
  /\ high \in Nat

(* The thesis of an open position holds: the index is not past a level     *)
(* that was captured at the entry, and none captured was past it then      *)
(* (invalidation_exit.py:49-51).                                           *)
ThesisHolds == Open => ~Crossed(trade, last.spot)

(* The trail remembers: as long as every write-back succeeded, the peak in *)
(* Redis is the highest premium of the position's life, through ticks that *)
(* engage a trail or bring no price.                                       *)
PeakRemembered == Open /\ ~lost => pos.peak = high

(* Each milestone after the first was paid for: the n-th is counted only   *)
(* when the premium has been at the previous target, whichever rule        *)
(* engaged the trail (exit_rules.py:363).                                  *)
MilestonesEarned == pos.milestone > 1 => 100 * high >= Target(trade, pos.milestone - 1)

(* Once the peak has gained 5%, a trail floor stands above the entry       *)
(* (exit_rules.py:105-108), and no tick leaves the position open at or     *)
(* below it, except the tick that engages the trail.                       *)
GainProtected ==
  [][Open /\ sold' = NotSold /\ pos.milestone > 0 /\ 100 * pos.peak >= 105 * Entry
       /\ last'.ltp > 0 /\ over' = over
     => last'.ltp > Entry]_<<last, sold>>

(* After the session close the position is closed, even if no premium is   *)
(* ever seen again (exit_rules.py:206-214).                                *)
ClosedAtSessionEnd == over ~> ~Open

(* "do NOT fall through to using underlying_ltp as exit price"             *)
(* (exit_rules.py:203-205): an option is sold at a premium.                *)
SoldAtPremium == ~Open => sold.price \in {last.ltp, pos.peak, Entry, StopFloor}
=============================================================================
