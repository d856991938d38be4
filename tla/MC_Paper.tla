------------------------------ MODULE MC_Paper ------------------------------
(***************************************************************************)
(* Finite instances of PaperBroker: lots of cost 2 and 3 bought from a     *)
(* budget of 6, one gain and one loss per close.                           *)
(***************************************************************************)
EXTENDS PaperLedger, TLC

CONSTANTS nifty, bank, noSym, consumer, req1

TwoSymbols == {nifty, bank}
OneSymbol  == {nifty}
OneRequest == {req1}
NoRequest  == {}
Lots       == {2, 3}
OneLot     == {2}
Caps       == {1, 2}
OneCap     == {2}
PnLs       == {-1, 2}
OnePnL     == {2}

(* No action names a symbol.                                               *)
SymbolSymmetry == Permutations(TwoSymbols)
=============================================================================
