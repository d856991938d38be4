---------------------------- MODULE PaperLedger ----------------------------
(***************************************************************************)
(* The paper engine keeps the account of Ledger.  A symbol's entry is its  *)
(* position in Redis, except between the write to budget:state and the     *)
(* write to positions:open that belongs to it: from allocate() to HSET the *)
(* position about to be stored counts already, and from release() to HDEL  *)
(* the position still stored counts no more.                               *)
(***************************************************************************)
EXTENDS PaperBroker

Bought(s) == pc[Consumer] = "put" /\ work[Consumer].sym = s
Sold(s)   == \E a \in Actors : pc[a] = "del_pos" /\ work[a].sym = s

EntryOf(s) ==
  CASE Bought(s) -> [open |-> TRUE, cost |-> work[Consumer].want.cost]
    [] ~Bought(s) /\ (Sold(s) \/ positions[s] = NoPos) -> [open |-> FALSE, cost |-> 0]
    [] OTHER -> [open |-> TRUE, cost |-> positions[s].cost]

L == INSTANCE Ledger WITH
       Gains <- Moves, Fee <- Commission,
       cash <- budget.cash, invested <- budget.invested,
       book <- [s \in Symbols |-> EntryOf(s)],
       slips <- faults, shared <- overlap

(* allocate(), release() and reconcile_invested() each take effect once,   *)
(* in the step that writes budget:state: a position is paid for when it    *)
(* enters the book and paid out when it leaves it, by the amounts of that  *)
(* position, although opening and closing are spread over many Redis       *)
(* commands; a crash or an exception costs at most one entry, and a        *)
(* restart makes it good (budget.py:46-99, mock_broker.py:132 and 344-345).*)
FollowsLedger == L!Spec
=============================================================================
