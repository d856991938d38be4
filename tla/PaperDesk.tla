------------------------------ MODULE PaperDesk ------------------------------
(***************************************************************************)
(* Orders and the report of equity-engine: POST /trade routes an order by  *)
(* the mode in Redis to the paper account or to a real delivery order,     *)
(* POST /mode switches it, POST /analysis/refresh rebuilds the report in   *)
(* the background.  Orders run in threads, nothing is locked: the account  *)
(* is read, changed and written back.                                      *)
(*                                                                         *)
(* A paper position is its quantity, 0 when there is none; the price is    *)
(* left out, as is the report's text.                                      *)
(***************************************************************************)
EXTENDS Integers, FiniteSets

CONSTANTS
  Orders,      \* requests to POST /trade, one at a time each
  Stocks,
  Refreshes,   \* requests to POST /analysis/refresh
  MaxQty,      \* bounds
  MaxTrades,
  MaxBreaks

ASSUME DeskAssumption ==
  /\ IsFiniteSet(Orders)
  /\ MaxQty \in Nat \ {0} /\ MaxTrades \in Nat /\ MaxBreaks \in Nat

VARIABLES
  mode,        \* equity:mode
  position,    \* equity:paper:positions
  logged,      \* equity:paper:trades: bought less sold, by stock
  trades,      \* and how many
  order,       \* where each order is
  real,        \* orders that reached the exchange, by stock (external)
  refreshing,  \* _refresh_running
  job,         \* background jobs
  breaks,
  raced,       \* history: stocks with a lost update or a trade never logged
  armed        \* history: quantity of confirmed orders that were routed live

deskVars == <<mode, position, logged, trades, order, real, refreshing, job, breaks, raced, armed>>

NoOrder == [pc |-> "none"]
None    == [s \in Stocks |-> 0]

DeskInit ==
  /\ mode = "simulation"
  /\ position = None /\ logged = None /\ trades = 0 /\ real = None /\ armed = None
  /\ order = [o \in Orders |-> NoOrder]
  /\ refreshing = FALSE /\ job = [j \in Refreshes |-> "none"]
  /\ breaks = 0 /\ raced = {}

reports == <<refreshing, job>>

-----------------------------------------------------------------------------
(* Orders.                                                                 *)

SetMode(m) ==
  /\ mode' = m
  /\ UNCHANGED <<position, logged, trades, order, real, reports, breaks, raced, armed>>

(* execute: the mode is read once, here.                                   *)
Route(o, s, side, qty, confirm) ==
  /\ order[o] = NoOrder /\ trades < MaxTrades /\ armed[s] < MaxQty
  /\ LET to == IF mode = "simulation" THEN "quote" ELSE IF confirm THEN "place" ELSE "none"
     IN  /\ order' = IF to = "none" THEN order   \* confirm_required
                     ELSE [order EXCEPT ![o] = [pc |-> to, sym |-> s, side |-> side, qty |-> qty]]
         /\ armed' = IF mode = "live" /\ confirm THEN [armed EXCEPT ![s] = @ + qty] ELSE armed
  /\ UNCHANGED <<mode, position, logged, trades, real, reports, breaks, raced>>

(* _paper: a quote, then the position.  No quote, or nothing to sell: an   *)
(* error is answered.                                                      *)
Quote(o, ok) ==
  /\ order[o].pc = "quote"
  /\ order' = [order EXCEPT ![o] = IF ok THEN [@ EXCEPT !.pc = "load"] ELSE NoOrder]
  /\ UNCHANGED <<mode, position, logged, trades, real, reports, breaks, raced, armed>>

Lower(a, b) == IF a < b THEN a ELSE b

(* What the order does to the position it has read.                        *)
FilledAsked(side, qty, held) == IF side = "BUY" THEN qty ELSE -qty
Filled(side, qty, held) == IF side = "BUY" THEN qty ELSE -Lower(qty, held)

Load(o) ==
  LET s    == order[o].sym
      held == position[s]
  IN  /\ order[o].pc = "load"
      /\ order' = [order EXCEPT ![o] =
                     IF order[o].side = "SELL" /\ held = 0 THEN NoOrder
                     ELSE [pc |-> "save", sym |-> s, held |-> held,
                           fill |-> Filled(order[o].side, order[o].qty, held)]]
      /\ UNCHANGED <<mode, position, logged, trades, real, reports, breaks, raced, armed>>

(* upsert_paper_position, or remove_paper_position when nothing is left.   *)
Save(o) ==
  LET s == order[o].sym
  IN  /\ order[o].pc = "save"
      /\ position' = [position EXCEPT ![s] = order[o].held + order[o].fill]
      /\ raced' = IF position[s] # order[o].held THEN raced \cup {s} ELSE raced
      /\ order' = [order EXCEPT ![o].pc = "log"]
      /\ UNCHANGED <<mode, logged, trades, real, reports, breaks, armed>>

Log(o) ==
  /\ order[o].pc = "log"
  /\ logged' = [logged EXCEPT ![order[o].sym] = @ + order[o].fill]
  /\ trades' = trades + 1
  /\ order' = [order EXCEPT ![o] = NoOrder]
  /\ UNCHANGED <<mode, position, real, reports, breaks, raced, armed>>

(* _live: one POST to core-engine, no retry.  On a timeout the order may   *)
(* have been placed all the same.                                          *)
Place(o, placed, ok) ==
  /\ order[o].pc = "place" /\ (ok => placed)
  /\ ok \/ breaks < MaxBreaks
  /\ breaks' = IF ok THEN breaks ELSE breaks + 1
  /\ real' = IF placed THEN [real EXCEPT ![order[o].sym] = @ + order[o].qty] ELSE real
  /\ order' = [order EXCEPT ![o] = NoOrder]
  /\ UNCHANGED <<mode, position, logged, trades, reports, raced, armed>>

-----------------------------------------------------------------------------
(* The report.                                                             *)

(* analysis_refresh: refused while the flag is up; the job raises it when  *)
(* it first runs.                                                          *)
RequestRefresh(j) ==
  /\ job[j] = "none" /\ ~refreshing
  /\ job' = [job EXCEPT ![j] = "created"]
  /\ UNCHANGED <<mode, position, logged, trades, order, real, refreshing, breaks, raced, armed>>

StartJob(j) ==
  /\ job[j] = "created"
  /\ job' = [job EXCEPT ![j] = "running"]
  /\ refreshing' = TRUE
  /\ UNCHANGED <<mode, position, logged, trades, order, real, breaks, raced, armed>>

(* The report is stored, or an exception logged; the flag goes down.       *)
EndJob(j) ==
  /\ job[j] = "running"
  /\ job' = [job EXCEPT ![j] = "none"]
  /\ refreshing' = FALSE
  /\ UNCHANGED <<mode, position, logged, trades, order, real, breaks, raced, armed>>

(* The process dies; Redis keeps the mode and the account.                 *)
Die ==
  /\ breaks < MaxBreaks
  /\ breaks' = breaks + 1
  /\ order' = [o \in Orders |-> NoOrder]
  /\ raced' = raced \cup {order[o].sym : o \in {p \in Orders : order[p].pc = "log"}}
  /\ refreshing' = FALSE /\ job' = [j \in Refreshes |-> "none"]
  /\ UNCHANGED <<mode, position, logged, trades, real, armed>>

DeskNext ==
  \/ \E m \in {"simulation", "live"} \ {mode} : SetMode(m)
  \/ \E o \in Orders : \/ \E s \in Stocks, side \in {"BUY", "SELL"}, qty \in 1..MaxQty,
                             confirm \in BOOLEAN : Route(o, s, side, qty, confirm)
                       \/ \E ok \in BOOLEAN : Quote(o, ok) \/ \E placed \in BOOLEAN : Place(o, placed, ok)
                       \/ Load(o) \/ Save(o) \/ Log(o)
  \/ \E j \in Refreshes : RequestRefresh(j) \/ StartJob(j) \/ EndJob(j)
  \/ Die

DeskSpec == DeskInit /\ [][DeskNext]_deskVars

-----------------------------------------------------------------------------
(* Properties.                                                             *)

Unlogged(s) == {o \in Orders : order[o].pc = "log" /\ order[o].sym = s}

(* "PAPER fill at current LTP, recorded in Redis" (broker.py:5): a         *)
(* position is never short, and what it holds is what the log says, and    *)
(* the order that is about to be logged -- unless two orders of the stock  *)
(* overlapped and one update was lost, or the process died between the two *)
(* writes.                                                                 *)
PaperBooks ==
  \A s \in Stocks :
    /\ position[s] >= 0
    /\ s \notin raced /\ Unlogged(s) = {} => position[s] = logged[s]
    /\ \A o \in Orders : s \notin raced /\ Unlogged(s) = {o} =>
                           position[s] = logged[s] + order[o].fill

(* "ONLY when confirm=True" (broker.py:6): what reached the exchange was   *)
(* confirmed and routed while the mode was live, and at most once.         *)
RealConfirmed == \A s \in Stocks : real[s] <= armed[s]

(* A refresh is refused only while a job runs: the flag never stays up,    *)
(* although two requests may both start one and the first to end lowers it *)
(* (main.py:94-103).                                                       *)
RefreshOpen == refreshing => \E j \in Refreshes : job[j] = "running"

(* What one paper account, one broker and one report owe, together.        *)
DeskSound == PaperBooks /\ RealConfirmed /\ RefreshOpen
=============================================================================
