------------------------------ MODULE MC_Market ------------------------------
(***************************************************************************)
(* Finite instances of MarketScan, TickTable and SrLevels.  They share no  *)
(* state, so a behaviour is one of them while the others rest: their       *)
(* states are added, not multiplied.                                       *)
(*                                                                         *)
(* The window of MarketScan is 09:29 and 09:30 of a day whose bars rise    *)
(* until 09:20, fall, rise again and leave the opening range at 09:30;     *)
(* four bars are left of the day before.                                   *)
(***************************************************************************)
EXTENDS MarketScan, TickTable, SrLevels, TLC

CONSTANTS job, trigger, backfill, nifty, bank, none

VARIABLE component

TwoScans == {job, trigger}
Indices  == {nifty, bank}

-----------------------------------------------------------------------------
(* Bars and levels.                                                        *)

OneMinute(day, min, open, close, vol) ==
  [day |-> day, min |-> min, open |-> open, close |-> close, vol |-> vol,
   high |-> (IF open < close THEN close ELSE open) + 2,
   low |-> (IF open < close THEN open ELSE close) - 2]

Price(min) ==
  CASE min <= 560 -> 22000 + 6 * (min - 554)
    [] min \in 561..567 -> 22036 - 6 * (min - 560)
    [] min \in 568..569 -> 21994 + 4 * (min - 567)
    [] OTHER -> 22002 + 50 * (min - 569)

Morning == [min \in 555..570 |-> OneMinute(2, min, Price(min - 1), Price(min), 100 + 7 * (min % 5))]
Yesterday == [i \in 1..4 |-> OneMinute(1, 924 + i, 22090 + i, 22092 + i, 300)]
PrevDay == [high |-> 22110, low |-> 21950, close |-> 22093]
SlotNorms == (1255 :> 900)
QuotedPrices == {22020, 22120}

DailyBars == {[high |-> 100, low |-> 90], [high |-> 101, low |-> 88], [high |-> 104, low |-> 95]}

-----------------------------------------------------------------------------
all == <<component, scanVars, tickVars, srVars>>

MarketInit ==
  /\ component \in {"candles", "ticks", "levels"}
  /\ ScanInit /\ TickInit /\ SrInit

MarketNext ==
  /\ UNCHANGED component
  /\ \/ component = "candles" /\ ScanNext /\ UNCHANGED <<tickVars, srVars>>
     \/ component = "ticks" /\ TickNext /\ UNCHANGED <<scanVars, srVars>>
     \/ component = "levels" /\ SrNext /\ UNCHANGED <<scanVars, tickVars>>

MarketSpec == MarketInit /\ [][MarketNext]_all

ScanSymmetry == Permutations(TwoScans)
=============================================================================
