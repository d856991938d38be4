------------------------------ MODULE MC_Gates ------------------------------
(***************************************************************************)
(* Finite instances of EntryGates: a range of 990 to 1000 whose thresholds *)
(* lie at 988.02 and 1002, prices on both sides of every limit, levels     *)
(* ahead of them and behind.                                               *)
(***************************************************************************)
EXTENDS EntryGates

CONSTANTS nifty, bank, noSym

TwoSymbols   == {nifty, bank}
OneSymbol    == {nifty}
EarlyRanges  == {[high |-> 992, low |-> 991]}
PriceRange   == {985, 989, 995, 1001, 1005}
Levels       == [{"vwap"} -> {0, 988, 1003}]
LevelsAhead  == {[at |-> 0, extreme |-> FALSE], [at |-> 1006, extreme |-> FALSE],
                 [at |-> 1005, extreme |-> TRUE], [at |-> 984, extreme |-> FALSE]}
RecentRanges == {[tight |-> FALSE, breakout |-> "NONE"], [tight |-> TRUE, breakout |-> "NONE"],
                 [tight |-> TRUE, breakout |-> "BREAKOUT_LOW"]}
=============================================================================
