----------------------------- MODULE LiveBroker -----------------------------
(***************************************************************************)
(* The simulation engine in live mode: orders sent through core-engine to  *)
(* the Fyers account, their fills, the position in Redis, and the two      *)
(* reconciliations with the account (execution/live_broker.py, and         *)
(* _startup_fyers_reconcile and _reconcile_fyers_positions of main.py).    *)
(*                                                                         *)
(* An actor is the consumer task or a manual close request; one action is  *)
(* one await that the exchange, another actor or a crash can come between. *)
(* Redis commands that follow one another without a decision in between    *)
(* and are told apart in PaperBroker (HSET of the trade and of its id, GET *)
(* and SET of the realized total) are one step here.  A decision has       *)
(* passed the gates; prices are left out.                                  *)
(***************************************************************************)
EXTENDS Integers, FiniteSets

CONSTANTS
  Symbols,       \* underlyings, the keys of positions:open
  Nifty,         \* "NSE:NIFTY50-INDEX", one of them
  NoSym,         \* "no symbol" in an idle handler
  Consumer,      \* the task running _consume_decisions
  Requests,      \* manual close requests, each served once
  MaxDecisions,  \* bound: decisions that pass the gates
  MaxOrders,     \* bound: orders Fyers accepts
  MaxMishaps     \* bound: mishaps at the broker plus crashes

ASSUME LiveAssumption ==
  /\ Nifty \in Symbols /\ NoSym \notin Symbols /\ IsFiniteSet(Symbols)
  /\ Consumer \notin Requests
  /\ MaxDecisions \in Nat /\ MaxOrders \in Nat /\ MaxMishaps \in Nat

Sides   == {"BUY", "SELL"}       \* of a decision; also a call and a put
Options == Symbols \X Sides      \* one contract per underlying and side
Ids     == 1..MaxDecisions
Actors  == {Consumer} \cup Requests

VARIABLES
  \* the Fyers account
  net,        \* quantity held of each option
  shown,      \* the same, as the positions API shows it: it lags
  orders,     \* orders accepted so far
  placed,     \* their number
  \* Redis
  positions,  \* positions:open, by symbol
  openId,     \* trades:open_id, by symbol
  trades,     \* trades:all, status by trade
  pending,    \* symbols with a live pending:order key
  retry,      \* reconcile:pending
  \* the process
  up, pc, work,
  todo,       \* rest of the positions a loop of the consumer is to visit
  nextDec,
  \* time
  young,      \* symbols whose position is less than 120 s old
  \* history, read by no action
  counted,    \* how often each trade's P&L went into pnl:realized:total
  overlap,    \* two handlers have run at the same time
  mishaps,    \* lost replies, unconfirmed fills, rejected exits, user sales and
              \* failed startup reconciliations
  crashes

account == <<net, shown, orders, placed>>
redis   == <<positions, openId, trades, pending, retry>>
control == <<up, pc, work, todo, nextDec>>
history == <<counted, overlap, mishaps, crashes>>
vars    == <<account, redis, control, young, history>>

NoOpt   == <<NoSym, "NONE">>
NoPos   == [dec |-> 0, side |-> "NONE", opt |-> NoOpt, qty |-> 0]
NoOrder == [opt |-> NoOpt, side |-> "NONE", qty |-> 0, status |-> "NONE"]
NoBook  == [s \in Symbols |-> NoPos]
NoWork  == [sym |-> NoSym, side |-> "NONE", dec |-> 0, ord |-> 0, pos |-> NoPos, tid |-> 0,
            caller |-> "NONE"]

Busy(a)       == pc[a] \notin {"idle", "done"}
Step(a, l, w) == pc' = [pc EXCEPT ![a] = l] /\ work' = [work EXCEPT ![a] = w]
Goto(a, l)    == Step(a, l, work[a])
Finish(a, l)  == Step(a, l, NoWork)
Enter(a)      == overlap' = (overlap \/ \E b \in Actors \ {a} : Busy(b))
Mishap        == mishaps + crashes < MaxMishaps /\ mishaps' = mishaps + 1
Abs(n)        == IF n < 0 THEN -n ELSE n

(* The service is about to start, with an empty Redis and an account that  *)
(* may still hold an option of an earlier run.                             *)
Init ==
  /\ \E held \in SUBSET Options :
       /\ Cardinality(held) <= 1
       /\ net = [o \in Options |-> IF o \in held THEN 1 ELSE 0]
  /\ shown = net
  /\ orders = [i \in 1..MaxOrders |-> NoOrder] /\ placed = 0
  /\ positions = NoBook
  /\ openId = [s \in Symbols |-> 0]
  /\ trades = [i \in Ids |-> "NONE"]
  /\ pending = {} /\ retry = FALSE
  /\ up = FALSE
  /\ pc = [a \in Actors |-> "idle"] /\ work = [a \in Actors |-> NoWork]
  /\ todo = NoBook /\ nextDec = 1
  /\ young = {}
  /\ counted = [i \in Ids |-> 0]
  /\ overlap = FALSE /\ mishaps = 0 /\ crashes = 0

-----------------------------------------------------------------------------
(* The account.                                                            *)

(* An order reaches Fyers and its id comes back ("ok"), it does not reach  *)
(* it ("refused"), or only the reply is lost ("lost").                     *)
Replies == {"ok", "refused", "lost"}

PlaceOrder(o, side, qty, reply) ==
  IF reply = "refused"
    THEN UNCHANGED <<orders, placed, mishaps>>
    ELSE /\ placed < MaxOrders
         /\ placed' = placed + 1
         /\ orders' = [orders EXCEPT ![placed + 1] =
                         [opt |-> o, side |-> side, qty |-> qty, status |-> "WORKING"]]
         /\ IF reply = "lost" THEN Mishap ELSE UNCHANGED mishaps

(* What polling tells of an order: its final status, or nothing in time.   *)
Polled(i, seen) ==
  IF seen = "TIMEOUT" THEN Mishap ELSE seen = orders[i].status /\ UNCHANGED mishaps
Fills == {"TRADED", "REJECTED", "TIMEOUT"}

Traded(i) ==
  LET o == orders[i]
  IN  /\ o.status = "WORKING"
      /\ orders' = [orders EXCEPT ![i].status = "TRADED"]
      /\ net' = [net EXCEPT ![o.opt] = IF o.side = "BUY" THEN @ + o.qty ELSE @ - o.qty]
      /\ UNCHANGED <<shown, placed, redis, control, young, history>>

(* Rejected, or cancelled.                                                 *)
Rejected(i) ==
  /\ orders[i].status = "WORKING"
  /\ orders' = [orders EXCEPT ![i].status = "REJECTED"]
  /\ IF orders[i].side = "SELL" THEN Mishap ELSE UNCHANGED mishaps
  /\ UNCHANGED <<net, shown, placed, redis, control, young, counted, overlap, crashes>>

Refresh ==
  /\ shown # net
  /\ shown' = net
  /\ UNCHANGED <<net, orders, placed, redis, control, young, history>>

(* The user sells a holding on the Fyers platform.                         *)
UserSale(o) ==
  /\ net[o] > 0
  /\ Mishap
  /\ net' = [net EXCEPT ![o] = 0]
  /\ UNCHANGED <<shown, orders, placed, redis, control, young, counted, overlap, crashes>>

(* 120 s pass: the market orders are final and the positions API shows it. *)
Age(s) ==
  /\ s \in young
  /\ shown = net /\ \A i \in 1..placed : orders[i].status # "WORKING"
  /\ young' = young \ {s}
  /\ UNCHANGED <<account, redis, control, history>>

-----------------------------------------------------------------------------
(* _handle_decision and open_position.                                     *)

(* A decision: ignored if the position is on its side, otherwise an        *)
(* opposite position is closed first, whatever the close returns.          *)
Decide(s, side) ==
  /\ up /\ pc[Consumer] = "idle" /\ nextDec <= MaxDecisions
  /\ positions[s].side # side
  /\ LET w == [NoWork EXCEPT !.sym = s, !.side = side, !.dec = nextDec]
     IN  IF positions[s] = NoPos
           THEN Step(Consumer, "gate", w)
           ELSE Step(Consumer, "close", [w EXCEPT !.caller = "flip"])
  /\ nextDec' = nextDec + 1
  /\ Enter(Consumer)
  /\ UNCHANGED <<account, redis, up, todo, young, counted, mishaps, crashes>>

(* The pending key and the position must be absent and the funds suffice;  *)
(* then SET pending:order.                                                 *)
OpenGate(funds) ==
  LET s == work[Consumer].sym
  IN  /\ pc[Consumer] = "gate"
      /\ IF s \notin pending /\ positions[s] = NoPos /\ funds
           THEN Goto(Consumer, "buy") /\ pending' = pending \cup {s}
           ELSE Finish(Consumer, "idle") /\ UNCHANGED pending
      /\ UNCHANGED <<account, positions, openId, trades, retry, up, todo, nextDec, young,
                     history>>

PlaceBuy(reply) ==
  LET w == work[Consumer]
  IN  /\ pc[Consumer] = "buy"
      /\ PlaceOrder(<<w.sym, w.side>>, "BUY", 1, reply)
      /\ IF reply = "ok"
           THEN Step(Consumer, "await", [w EXCEPT !.ord = placed + 1]) /\ UNCHANGED pending
           ELSE Finish(Consumer, "idle") /\ pending' = pending \ {w.sym}
      /\ UNCHANGED <<net, shown, positions, openId, trades, retry, up, todo, nextDec, young,
                     counted, overlap, crashes>>

(* A rejected entry is given up; an unconfirmed one counts as filled.      *)
AwaitBuy(seen) ==
  LET w == work[Consumer]
  IN  /\ pc[Consumer] = "await"
      /\ Polled(w.ord, seen)
      /\ IF seen = "REJECTED"
           THEN Finish(Consumer, "idle") /\ pending' = pending \ {w.sym}
           ELSE Goto(Consumer, "record") /\ UNCHANGED pending
      /\ UNCHANGED <<account, positions, openId, trades, retry, up, todo, nextDec, young,
                     counted, overlap, crashes>>

(* HSET positions:open.                                                    *)
RecordOpen ==
  LET w == work[Consumer]
  IN  /\ pc[Consumer] = "record"
      /\ positions' = [positions EXCEPT ![w.sym] =
                         [dec |-> w.dec, side |-> w.side, opt |-> <<w.sym, w.side>>, qty |-> 1]]
      /\ young' = young \cup {w.sym}
      /\ Goto(Consumer, "index")
      /\ UNCHANGED <<account, openId, trades, pending, retry, up, todo, nextDec, history>>

(* DEL pending:order, HSET trades:all and trades:open_id, persist_trade.   *)
IndexOpen ==
  LET w == work[Consumer]
  IN  /\ pc[Consumer] = "index"
      /\ pending' = pending \ {w.sym}
      /\ trades' = [trades EXCEPT ![w.dec] = "OPEN"]
      /\ openId' = [openId EXCEPT ![w.sym] = w.dec]
      /\ Finish(Consumer, "idle")
      /\ UNCHANGED <<account, positions, retry, up, todo, nextDec, young, history>>

-----------------------------------------------------------------------------
(* close_position and record_external_close.                               *)

(* What the caller does when the close has returned.                       *)
AfterClose(a) ==
  LET w == work[a]
  IN  CASE w.caller = "flip"   -> Step(a, "gate", [NoWork EXCEPT !.sym = w.sym, !.side = w.side,
                                                                 !.dec = w.dec])
        [] w.caller = "watch"  -> Finish(a, "watch")
        [] w.caller = "recon"  -> Finish(a, "recon")
        [] w.caller = "manual" -> Finish(a, "done")

(* HGET positions:open: close_position goes on to sell, and                *)
(* record_external_close to the records.                                   *)
ReadPosition(a) ==
  LET p == positions[work[a].sym]
  IN  /\ pc[a] \in {"close", "ext"}
      /\ IF p = NoPos THEN AfterClose(a)
         ELSE Step(a, IF pc[a] = "close" THEN "sell" ELSE "find", [work[a] EXCEPT !.pos = p])
      /\ UNCHANGED <<account, redis, up, todo, nextDec, young, history>>

(* No reply: the position is kept and the watcher will try again.          *)
PlaceSell(a, reply) ==
  LET w == work[a]
  IN  /\ pc[a] = "sell"
      /\ PlaceOrder(w.pos.opt, "SELL", w.pos.qty, reply)
      /\ IF reply = "ok" THEN Step(a, "sold", [w EXCEPT !.ord = placed + 1]) ELSE AfterClose(a)
      /\ UNCHANGED <<net, shown, redis, up, todo, nextDec, young, counted, overlap, crashes>>

(* Whatever became of the order, the position is closed in the records.    *)
AwaitSell(a, seen) ==
  /\ pc[a] = "sold"
  /\ Polled(work[a].ord, seen)
  /\ Goto(a, "find")
  /\ UNCHANGED <<account, redis, up, todo, nextDec, young, counted, overlap, crashes>>

FindTrade(a) ==
  /\ pc[a] = "find"
  /\ Step(a, "unindex", [work[a] EXCEPT !.tid = openId[work[a].sym]])
  /\ UNCHANGED <<account, redis, up, todo, nextDec, young, history>>

ToldNot == "remove"
Told    == "log"

Unindex(a) ==
  /\ pc[a] = "unindex"
  /\ openId' = [openId EXCEPT ![work[a].sym] = 0]
  /\ Goto(a, IF work[a].tid = 0 THEN "remove" ELSE Told)
  /\ UNCHANGED <<account, positions, trades, pending, retry, up, todo, nextDec, young, history>>

LogClose(a) ==
  /\ pc[a] = "log"
  /\ trades' = [trades EXCEPT ![work[a].tid] = "CLOSED"]
  /\ Goto(a, "remove")
  /\ UNCHANGED <<account, positions, openId, pending, retry, up, todo, nextDec, young, history>>

WithoutKept(s) == positions
Without(s)     == [positions EXCEPT ![s] = NoPos]

RemovePosition(a) ==
  /\ pc[a] = "remove"
  /\ positions' = Without(work[a].sym)
  /\ Goto(a, "total")
  /\ UNCHANGED <<account, openId, trades, pending, retry, up, todo, nextDec, young, history>>

(* GET, SET pnl:realized:total.                                            *)
AddRealized(a) ==
  /\ pc[a] = "total"
  /\ counted' = [i \in Ids |-> IF i = work[a].pos.dec THEN counted[i] + 1 ELSE counted[i]]
  /\ AfterClose(a)
  /\ UNCHANGED <<account, redis, up, todo, nextDec, young, overlap, mishaps, crashes>>

(* POST /positions/{symbol}/close.                                         *)
ManualClose(r, s) ==
  /\ up /\ pc[r] = "idle" /\ positions[s] # NoPos
  /\ Step(r, "close", [NoWork EXCEPT !.sym = s, !.caller = "manual"])
  /\ Enter(r)
  /\ UNCHANGED <<account, redis, up, todo, nextDec, young, counted, mishaps, crashes>>

-----------------------------------------------------------------------------
(* _check_stop_targets: the exit rules over a snapshot of positions:open,  *)
(* then, every 30 s, the two reconciliations.  It returns at once when the *)
(* book is empty (main.py:906-908).                                        *)

WatchStart ==
  /\ up /\ pc[Consumer] = "idle" /\ positions # NoBook
  /\ todo' = positions
  /\ Goto(Consumer, "watch")
  /\ Enter(Consumer)
  /\ UNCHANGED <<account, redis, up, nextDec, young, counted, mishaps, crashes>>

Visited(s) == pc[Consumer] = "watch" /\ todo[s] # NoPos /\ todo' = [todo EXCEPT ![s] = NoPos]

(* No rule fires; a new peak or milestone writes the snapshot's copy back. *)
WatchKeep(s) ==
  /\ Visited(s)
  /\ positions' \in {positions, [positions EXCEPT ![s] = todo[s]]}
  /\ UNCHANGED <<account, openId, trades, pending, retry, up, pc, work, nextDec, young, history>>

WatchExit(s) ==
  /\ Visited(s)
  /\ Step(Consumer, "close", [NoWork EXCEPT !.sym = s, !.caller = "watch"])
  /\ UNCHANGED <<account, redis, up, nextDec, young, history>>

WatchEnd(due) ==
  /\ pc[Consumer] = "watch" /\ todo = NoBook
  /\ Goto(Consumer, IF due THEN "recon_read" ELSE "idle")
  /\ UNCHANGED <<account, redis, up, todo, nextDec, young, history>>

(* _reconcile_fyers_positions: HGETALL, then GET /fyers/positions.         *)
ReconcileRead ==
  /\ pc[Consumer] = "recon_read"
  /\ todo' = positions
  /\ Goto(Consumer, IF positions = NoBook THEN "retry" ELSE "fetch")
  /\ UNCHANGED <<account, redis, up, nextDec, young, history>>

(* Positions 120 s old that the account does not show.                     *)
MissingYoung(s, p)   == p # NoPos /\ shown[p.opt] = 0
MissingUnless(s, p)  == p # NoPos /\ s \notin young /\ shown[p.opt] = 0
                        /\ \E o \in Options : shown[o] # 0
Missing(s, p)        == p # NoPos /\ s \notin young /\ shown[p.opt] = 0

ReconcileFetch(ok) ==
  /\ pc[Consumer] = "fetch"
  /\ todo' = [s \in Symbols |-> IF ok /\ Missing(s, todo[s]) THEN todo[s] ELSE NoPos]
  /\ Goto(Consumer, "recon")
  /\ UNCHANGED <<account, redis, up, nextDec, young, history>>

ReconcileClose(s) ==
  /\ pc[Consumer] = "recon" /\ todo[s] # NoPos
  /\ todo' = [todo EXCEPT ![s] = NoPos]
  /\ Step(Consumer, "ext", [NoWork EXCEPT !.sym = s, !.caller = "recon"])
  /\ UNCHANGED <<account, redis, up, nextDec, young, history>>

ReconcileEnd ==
  /\ pc[Consumer] = "recon" /\ todo = NoBook
  /\ Goto(Consumer, "retry")
  /\ UNCHANGED <<account, redis, up, todo, nextDec, young, history>>

(* _startup_fyers_reconcile: only an empty book is filled, from what the   *)
(* account shows.  A short is taken for a long (abs(netQty)).  The key is  *)
(* derived from the name of the option, NSE:NIFTY... or NSE:BANKNIFTY...:  *)
(* neither contains "NIFTYBANK" and both contain "NIFTY", so the last one  *)
(* is written over the others.                                             *)
KeyOf(o)     == Nifty
QtySigned(n) == n
Qty(n)       == Abs(n)

Adopted(o) == [dec |-> 0, side |-> "BUY", opt |-> o, qty |-> Qty(shown[o])]
Books ==
  LET held(s) == {o \in Options : shown[o] # 0 /\ KeyOf(o) = s}
  IN  {book \in [Symbols -> {NoPos} \cup {Adopted(o) : o \in Options}] :
         \A s \in Symbols : IF held(s) = {} THEN book[s] = NoPos
                             ELSE \E o \in held(s) : book[s] = Adopted(o)}

(* The entry time is that of an open trade of the option in data-service,  *)
(* if there is one, or now.                                                *)
StartupReconcile(ok) ==
  IF positions # NoBook THEN UNCHANGED <<positions, retry, young, mishaps>>
  ELSE IF ~ok THEN Mishap /\ retry' = TRUE /\ UNCHANGED <<positions, young>>
  ELSE /\ UNCHANGED mishaps
       /\ retry' = FALSE
       /\ positions' \in Books
       /\ young' \in SUBSET {s \in Symbols : positions'[s] # NoPos}

Retry(ok) ==
  /\ pc[Consumer] = "retry"
  /\ IF retry THEN StartupReconcile(ok) ELSE UNCHANGED <<positions, retry, young, mishaps>>
  /\ Goto(Consumer, "idle")
  /\ UNCHANGED <<account, openId, trades, pending, up, todo, nextDec, counted, overlap, crashes>>

-----------------------------------------------------------------------------
(* Time, crashes and restarts.                                             *)

(* The pending key lives for 30 s.                                         *)
ExpirePending(s) ==
  /\ s \in pending
  /\ pending' = pending \ {s}
  /\ UNCHANGED <<account, positions, openId, trades, retry, control, young, history>>

Crash ==
  /\ up /\ mishaps + crashes < MaxMishaps
  /\ up' = FALSE
  /\ pc' = [a \in Actors |-> IF a = Consumer THEN "idle"
                             ELSE IF Busy(a) THEN "done" ELSE pc[a]]
  /\ work' = [a \in Actors |-> NoWork]
  /\ todo' = NoBook
  /\ crashes' = crashes + 1
  /\ UNCHANGED <<account, redis, nextDec, young, counted, overlap, mishaps>>

(* lifespan: reconcile, then start the consumer.                           *)
Restart(ok) ==
  /\ ~up
  /\ up' = TRUE
  /\ StartupReconcile(ok)
  /\ UNCHANGED <<account, openId, trades, pending, pc, work, todo, nextDec, counted, overlap,
                 crashes>>

Open ==
  \/ \E funds \in BOOLEAN : OpenGate(funds)
  \/ \E reply \in Replies : PlaceBuy(reply)
  \/ \E seen \in Fills : AwaitBuy(seen)
  \/ RecordOpen
  \/ IndexOpen

Close(a) ==
  \/ ReadPosition(a)
  \/ \E reply \in Replies : PlaceSell(a, reply)
  \/ \E seen \in Fills : AwaitSell(a, seen)
  \/ FindTrade(a)
  \/ Unindex(a)
  \/ LogClose(a)
  \/ RemovePosition(a)
  \/ AddRealized(a)

Watch ==
  \/ WatchStart
  \/ \E s \in Symbols : WatchKeep(s) \/ WatchExit(s) \/ ReconcileClose(s)
  \/ \E due \in BOOLEAN : WatchEnd(due)
  \/ ReconcileRead
  \/ ReconcileEnd
  \/ \E ok \in BOOLEAN : ReconcileFetch(ok) \/ Retry(ok)

Exchange == (\E i \in 1..placed : Traded(i) \/ Rejected(i)) \/ Refresh

Next ==
  \/ Exchange
  \/ \E o \in Options : UserSale(o)
  \/ \E s \in Symbols : Age(s) \/ ExpirePending(s)
  \/ \E s \in Symbols, side \in Sides : Decide(s, side)
  \/ Open
  \/ Watch
  \/ \E a \in Actors : Close(a)
  \/ \E r \in Requests, s \in Symbols : ManualClose(r, s)
  \/ Crash
  \/ \E ok \in BOOLEAN : Restart(ok)

Spec == Init /\ [][Next]_vars

(* The event loop runs a ready handler, orders become final and visible,   *)
(* time passes, the service is restarted, and core-engine does not fail    *)
(* for ever: a reconciliation that keeps being due succeeds once.          *)
Fairness ==
  /\ WF_vars(Open \/ Watch \/ Close(Consumer))
  /\ WF_vars(Exchange)
  /\ \A s \in Symbols : WF_vars(Age(s))
  /\ WF_vars(\E ok \in BOOLEAN : Restart(ok))
  /\ SF_vars(WatchEnd(TRUE))
  /\ SF_vars(ReconcileFetch(TRUE))
  /\ SF_vars(Retry(TRUE))

FairSpec == Spec /\ Fairness

-----------------------------------------------------------------------------
(* Properties.                                                             *)

Position == [dec : 0..MaxDecisions, side : Sides \cup {"NONE"}, opt : Options \cup {NoOpt}, qty : Nat]
Order    == [opt : Options \cup {NoOpt}, side : Sides \cup {"NONE"}, qty : Nat,
             status : {"NONE", "WORKING", "TRADED", "REJECTED"}]
Labels   == {"idle", "done", "gate", "buy", "await", "record", "index", "close", "ext", "sell",
             "sold", "find", "unindex", "log", "remove", "total", "watch", "recon_read", "fetch",
             "recon", "retry"}
Work     == [sym : Symbols \cup {NoSym}, side : Sides \cup {"NONE"}, dec : 0..MaxDecisions,
             ord : 0..MaxOrders, pos : Position, tid : 0..MaxDecisions,
             caller : {"NONE", "flip", "watch", "recon", "manual"}]

(* Every variable has its type; a position's quantity is never negative.   *)
TypeOK ==
  /\ net \in [Options -> Int] /\ shown \in [Options -> Int]
  /\ orders \in [1..MaxOrders -> Order] /\ placed \in 0..MaxOrders
  /\ positions \in [Symbols -> Position]
  /\ openId \in [Symbols -> 0..MaxDecisions]
  /\ trades \in [Ids -> {"NONE", "OPEN", "CLOSED"}]
  /\ pending \in SUBSET Symbols /\ retry \in BOOLEAN
  /\ up \in BOOLEAN /\ pc \in [Actors -> Labels] /\ work \in [Actors -> Work]
  /\ todo \in [Symbols -> Position] /\ nextDec \in 1..(MaxDecisions + 1)
  /\ young \in SUBSET Symbols
  /\ counted \in [Ids -> Nat] /\ overlap \in BOOLEAN
  /\ mishaps \in 0..MaxMishaps /\ crashes \in 0..MaxMishaps

Quiet   == up /\ \A a \in Actors : ~Busy(a)

(* The lots of an option in a book: an adopted option of another           *)
(* underlying and a new position may be of the same contract.              *)
Lots(book, o) == UNION {{s} \X (1..book[s].qty) : s \in {t \in Symbols : book[t].opt = o}}
Booked(o)     == Cardinality(Lots(positions, o))

(* Between handlers, and while nothing went wrong at the broker, the book  *)
(* in Redis is the account: no holding is unknown and no position is a     *)
(* phantom, whatever orders are rejected, however long the positions API   *)
(* lags, and after a start with an empty Redis (main.py:88-91, 124-135).   *)
BookIsAccount ==
  Quiet /\ ~overlap /\ mishaps + crashes = 0
    => \A o \in Options : net[o] = Booked(o)

(* The P&L of a trade goes into the realized total at most once, through   *)
(* crashes, duplicate exits and external closes.                           *)
RealizedOnce == ~overlap => \A i \in Ids : counted[i] <= 1

(* A trade is recorded as closed if and only if its P&L was counted,       *)
(* whatever happened to its orders, as long as the process did not crash.  *)
ClosedIffCounted ==
  Quiet /\ ~overlap /\ crashes = 0
    => \A i \in Ids : trades[i] = "CLOSED" <=> counted[i] > 0

(* A position whose option is no longer held, because the user sold it or  *)
(* its entry was never filled, is found out (main.py:67-68).               *)
ExternalCloseSeen ==
  \A o \in Options : Booked(o) > 0 /\ net[o] = 0 ~> Booked(o) = 0 \/ net[o] # 0

(* "If the SELL order failed, do NOT clear the position from Redis."       *)
(* (live_broker.py:325)                                                    *)
FailedExitKept ==
  \A a \in Actors : pc[a] = "remove" /\ work[a].ord # 0
                      => orders[work[a].ord].status # "REJECTED"
=============================================================================
