------------------------------- MODULE Ledger -------------------------------
(***************************************************************************)
(* What the paper engine owes its virtual account, without handlers, Redis *)
(* or steps: cash, the amount said to be invested, and a book with at most *)
(* one entry per symbol.  An entry is paid for when it is made and paid    *)
(* out when it is struck, both in one step.  A fault may make or strike    *)
(* one entry without a payment, and a repair sets invested from the book   *)
(* and cash from invested.  Nothing is promised once two handlers have     *)
(* shared the account.                                                     *)
(***************************************************************************)
EXTENDS Integers, FiniteSetsExt

CONSTANTS
  Symbols,        \* underlyings
  InitialBudget,  \* cash at the start
  Gains,          \* what a sale may bring above or below the cost
  Fee(_)          \* fee on the value of a trade

VARIABLES
  cash,
  invested,
  book,    \* the entry of each symbol
  slips,   \* faults so far
  shared   \* two handlers have used the account at the same time

vars == <<cash, invested, book, slips, shared>>

Flat     == [open |-> FALSE, cost |-> 0]
Entry(c) == [open |-> TRUE, cost |-> c]
Costs    == [s \in Symbols |-> book[s].cost]
Value    == MapThenSumSet(LAMBDA s : Costs[s], Symbols)

Init ==
  /\ cash = InitialBudget
  /\ invested = 0
  /\ book = [s \in Symbols |-> Flat]
  /\ slips = 0
  /\ shared = FALSE

(* Cost and fee are there and leave cash, the cost is invested.            *)
Buy(s, cost) ==
  /\ book[s] = Flat
  /\ cost + Fee(cost) <= cash
  /\ cash' = cash - cost - Fee(cost)
  /\ invested' = invested + cost
  /\ book' = [book EXCEPT ![s] = Entry(cost)]
  /\ UNCHANGED <<slips, shared>>

(* The proceeds less the fee on them come back; invested stops at 0, which *)
(* it reaches too early only after a slip.                                 *)
Sell(s, gain) ==
  LET cost == book[s].cost
  IN  /\ book[s].open
      /\ cost + gain >= 0
      /\ cash' = cash + cost + gain - Fee(cost + gain)
      /\ invested' = IF invested > cost THEN invested - cost ELSE 0
      /\ book' = [book EXCEPT ![s] = Flat]
      /\ UNCHANGED <<slips, shared>>

(* A fault: no money moves; an entry just paid for may be lost, and one    *)
(* just paid out may come back.                                            *)
Slip ==
  /\ slips' = slips + 1
  /\ \/ UNCHANGED book
     \/ \E s \in Symbols :
          /\ Flat \in {book[s], book'[s]}
          /\ \A x \in Symbols \ {s} : book'[x] = book[x]
  /\ UNCHANGED <<cash, invested, shared>>

(* The book is believed: invested becomes its value, cash the rest.        *)
Repair ==
  /\ slips > 0
  /\ invested' = Value
  /\ cash' = cash + invested - Value
  /\ UNCHANGED <<book, slips, shared>>

Share == shared'

Next ==
  \/ \E s \in Symbols, cost \in 0..cash : Buy(s, cost)
  \/ \E s \in Symbols, gain \in Gains : Sell(s, gain)
  \/ Slip
  \/ Repair
  \/ Share

Spec == Init /\ [][Next]_vars

(* While no fault has struck, invested is the value of the book.           *)
InBalance == ~shared /\ slips = 0 => invested = Value
=============================================================================
