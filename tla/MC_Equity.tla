------------------------------ MODULE MC_Equity ------------------------------
(***************************************************************************)
(* Finite instances of SwingBacktest, BarCache and PaperDesk.  They share  *)
(* no state, so a behaviour is one of them while the others rest.          *)
(*                                                                         *)
(* Lookbacks are scaled down: a backtest begins after 4 days and ends      *)
(* after 10.  The moves of a day: a rise, a dip, a gap down, a surge       *)
(* without volume, a day that touches both the stop and the target.  Day 5 *)
(* of BarCache is a holiday.                                               *)
(***************************************************************************)
EXTENDS BarCache, PaperDesk, SwingBacktest, TLC

CONSTANTS screener, analysis

VARIABLE component

Move(open, high, low, close, vol) ==
  [open |-> open, high |-> high, low |-> low, close |-> close, vol |-> vol]
DailyMoves ==
  {Move(40, 160, 0, 150, 10), Move(-20, 20, -110, -100, 10), Move(-600, -560, -700, -620, 10),
   Move(100, 900, 60, 500, 1), Move(0, 700, -700, 100, 30)}

Hold   == [SWING |-> 2, POSITIONAL |-> 3]
Config == [minPrice |-> 5000, maxPrice |-> 100000, minTurnover |-> 60000,
           stopMult |-> [SWING |-> 2, POSITIONAL |-> 3],
           minRr |-> 15, capital |-> 150000, riskPct |-> 1, positionPct |-> 40]

LimitOf == screener :> 2 @@ analysis :> 5
Weekdays == (1..LastDay) \ {5}

-----------------------------------------------------------------------------
all == <<component, testVars, barVars, deskVars>>

EquityInit ==
  /\ component \in {"backtest", "bars", "desk"}
  /\ TestInit /\ BarInit /\ DeskInit

EquityNext ==
  /\ UNCHANGED component
  /\ \/ component = "backtest" /\ TestNext /\ UNCHANGED <<barVars, deskVars>>
     \/ component = "bars" /\ BarNext /\ UNCHANGED <<testVars, deskVars>>
     \/ component = "desk" /\ DeskNext /\ UNCHANGED <<testVars, barVars>>

EquitySpec == EquityInit /\ [][EquityNext]_all

DeskSymmetry == Permutations(Orders) \cup Permutations(Refreshes)
=============================================================================
