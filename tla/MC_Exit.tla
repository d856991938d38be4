------------------------------ MODULE MC_Exit ------------------------------
(***************************************************************************)
(* Finite instances of ExitRules: a premium bought at 100, with prices on  *)
(* both sides of every threshold, and index prices around two levels.      *)
(***************************************************************************)
EXTENDS ExitRules

AllPremiums == {0, 85, 100, 103, 105, 110, 125}
SpotRange   == {1, 3}
Levels      == [{"vwap"} -> {0, 2, 3}]
Readings    == {[delta |-> 50, iv |-> 20], [delta |-> -15, iv |-> 20], [delta |-> 0, iv |-> 10]}
VoteSets    == {<<1, 1, 0>>, <<-1, 1, -1>>}
=============================================================================
