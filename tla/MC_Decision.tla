---------------------------- MODULE MC_Decision ----------------------------
(***************************************************************************)
(* A finite instance of DecisionFlow: the two symbols of the watchlist,    *)
(* and the scheduled scan beside one that POST /scan/trigger started.      *)
(***************************************************************************)
EXTENDS DecisionFlow

CONSTANTS nifty, bank, none, job, trigger

OtherSymbols == {bank}
TwoScans     == {job, trigger}

(* Bound: a scan is triggered while the scheduled one runs, which does not *)
(* start again before it has ended, and comes before the consumer's first  *)
(* message; meanwhile nothing goes wrong.                                  *)
Beside == Scanning(trigger) => faults = 0 /\ dollar /\ at = "read"
Bounded == /\ Beside'
           /\ Scanning(trigger)' => \/ Scanning(job)
                                    \/ (Scanning(trigger) /\ ~Scanning(job)')

BoundedSpec == Init /\ [][Next /\ Bounded]_vars /\ Fairness
=============================================================================
