------------------------------ MODULE MC_Live ------------------------------
(***************************************************************************)
(* Finite instances of LiveBroker: one or two underlyings, each with a     *)
(* call and a put.                                                         *)
(***************************************************************************)
EXTENDS LiveBroker

CONSTANTS nifty, bank, noSym, consumer, req1

OneSymbol  == {nifty}
TwoSymbols == {nifty, bank}
OneRequest == {req1}
NoRequest  == {}
=============================================================================
