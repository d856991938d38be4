---------------------------- MODULE PaperBroker ----------------------------
(***************************************************************************)
(* The simulation engine in paper mode: the mock broker, the virtual       *)
(* budget, the decision consumer with its position watcher, and the manual *)
(* close endpoint (simulation-engine/main.py, execution/mock_broker.py,    *)
(* portfolio/budget.py).                                                   *)
(*                                                                         *)
(* All handlers run on one asyncio loop and yield at every Redis or HTTP   *)
(* await, so one action is one Redis command with the synchronous code     *)
(* around it.  The consumer task is one actor; each HTTP request to        *)
(* POST /positions/{symbol}/close is another.  Redis survives a crash, and *)
(* so does what was sent to the data-service, a process of its own.        *)
(***************************************************************************)
EXTENDS Integers, FiniteSetsExt

CONSTANTS
  Symbols,        \* underlyings, the keys of positions:open
  NoSym,          \* "no symbol" in an idle handler
  Consumer,       \* the task running _consume_decisions
  Requests,       \* manual close requests, each served once
  MaxDecisions,   \* bound: BUY/SELL decisions that pass the entry gates
  InitialBudget,  \* settings.initial_budget
  SizePct,        \* settings.max_position_size_pct
  LotCosts,       \* entry_price * lot_size an option may have
  LotCaps,        \* the DTE-dependent caps on the number of lots
  FlatFee,        \* settings.commission_flat
  FeePct,         \* commission percentage
  Moves,          \* gross P&L a close may realise
  PeakMax,        \* bound: peak/milestone advances recorded per position
  MaxLate,        \* bound: rows the data-service stores after persist_trade gave up
  MaxFaults       \* bound: crashes plus handler exceptions

ASSUME PaperAssumption ==
  /\ NoSym \notin Symbols /\ IsFiniteSet(Symbols)
  /\ Consumer \notin Requests
  /\ MaxDecisions \in Nat /\ PeakMax \in Nat /\ MaxLate \in Nat /\ MaxFaults \in Nat
  /\ InitialBudget \in Nat /\ SizePct \in 0..100
  /\ FlatFee \in Nat /\ FeePct \in Nat
  /\ LotCosts \subseteq Nat \ {0} /\ LotCaps \subseteq Nat
  /\ Moves \subseteq Int

Ids    == 1..MaxDecisions     \* a decision and the one trade it can open
Actors == {Consumer} \cup Requests

VARIABLES
  \* Redis
  positions,  \* positions:open, by symbol
  openId,     \* trades:open_id, by symbol
  trades,     \* trades:all, by trade
  budget,     \* budget:state
  realized,   \* pnl:realized:total
  cooldown,   \* symbols with a live sl:cooldown key
  \* the data-service
  sent,       \* trade rows posted to it and not mirrored into trades:all yet
  \* the process
  up,         \* the service is running
  pc,         \* where each handler is suspended
  work,       \* each handler's locals
  todo,       \* rest of the watcher's HGETALL snapshot
  watchOver,  \* the watcher's "now" was past the session close
  nextDec,    \* next decision to consume
  sessionOver,\* the clock is past session_close
  \* history, read by no action
  charged,    \* entry commission taken from cash, by trade
  settled,    \* how often each trade's cost was released
  written,    \* the record the engine itself wrote last, by trade
  stopped,    \* symbols stopped out and not yet past their cooldown
  overlap,    \* two handlers have run at the same time
  dirty,      \* ... or one has been cut short, since the last restart
  faults      \* crashes and handler exceptions so far

redis   == <<positions, openId, trades, budget, realized, cooldown>>
watcher == <<todo, watchOver>>
rest    == <<up, watcher, nextDec, sessionOver>>
process == <<pc, work, rest>>
history == <<charged, settled, written, stopped, overlap, dirty, faults>>
vars    == <<redis, sent, process, history>>

NoPos      == [dec |-> 0, side |-> "NONE", cost |-> 0, peak |-> 0]
NoTrade    == [status |-> "NONE", pnl |-> 0]
NoSnapshot == [s \in Symbols |-> NoPos]
NoWork     == [sym |-> NoSym, pos |-> NoPos, want |-> NoPos, tid |-> 0,
               cash |-> 0, invested |-> 0, gross |-> 0, total |-> 0, exit |-> "NONE"]

(* max_value of get_max_position_value, and _calculate_commission.         *)
MaxValue(cash) == (cash * SizePct) \div 100
Commission(v)  == LET pct == (v * FeePct) \div 100
                  IN  IF pct > FlatFee THEN pct ELSE FlatFee

(* What release() and pnl:realized:total are given, and the trade's pnl.   *)
BudgetPnl(p, g) == g - Commission(p.cost + g)
TradePnl(p, g)  == BudgetPnl(p, g) - Commission(p.cost)

Busy(a)  == pc[a] \notin {"idle", "done"}
Quiet    == up /\ \A a \in Actors : ~Busy(a)

SumOf(f, S) == MapThenSumSet(LAMBDA i : f[i], S)

(* The cost of all open positions.                                         *)
Costs    == [s \in Symbols |-> positions[s].cost]
Invested == SumOf(Costs, Symbols)

(* Handler a goes on to await l with locals w.                             *)
Step(a, l, w) == pc' = [pc EXCEPT ![a] = l] /\ work' = [work EXCEPT ![a] = w]
Goto(a, l)    == Step(a, l, work[a])
Finish(a, l)  == Step(a, l, NoWork)

(* A handler starts: it overlaps with every other one under way.           *)
Enter(a) == LET met == \E b \in Actors \ {a} : Busy(b)
            IN  overlap' = (overlap \/ met) /\ dirty' = (dirty \/ met)

Init ==
  /\ positions = NoSnapshot
  /\ openId = [s \in Symbols |-> 0]
  /\ trades = [i \in Ids |-> NoTrade]
  /\ budget = [cash |-> InitialBudget, invested |-> 0]
  /\ realized = 0
  /\ cooldown = {}
  /\ sent = {}
  /\ up = TRUE
  /\ pc = [a \in Actors |-> "idle"]
  /\ work = [a \in Actors |-> NoWork]
  /\ todo = NoSnapshot
  /\ watchOver = FALSE
  /\ nextDec = 1
  /\ sessionOver = FALSE
  /\ charged = [i \in Ids |-> 0]
  /\ settled = [i \in Ids |-> 0]
  /\ written = trades
  /\ stopped = {}
  /\ overlap = FALSE
  /\ dirty = FALSE
  /\ faults = 0

-----------------------------------------------------------------------------
(* _handle_decision and open_position, run by the consumer only.           *)

(* A decision past the entry gates: skip it, flip an opposite position     *)
(* (close first, whatever the close returns, then open), or open.          *)
Decide(s, side) ==
  /\ up /\ ~sessionOver /\ pc[Consumer] = "idle" /\ nextDec <= MaxDecisions
  /\ positions[s].side # side
  /\ Step(Consumer, IF positions[s] = NoPos THEN "gate" ELSE "close",
          [NoWork EXCEPT !.sym = s, !.want = [NoPos EXCEPT !.dec = nextDec, !.side = side]])
  /\ nextDec' = nextDec + 1
  /\ Enter(Consumer)
  /\ UNCHANGED <<redis, sent, up, watcher, sessionOver, charged, settled, written,
                 stopped, faults>>

(* Session close, cooldown and existing-position gates.  The consumer is   *)
(* the only writer that creates either key, so the reads are one step.     *)
MayOpenInCooldown(s) == ~sessionOver /\ positions[s] = NoPos
MayOpen(s) == ~sessionOver /\ s \notin cooldown /\ positions[s] = NoPos

OpenGate ==
  /\ pc[Consumer] = "gate"
  /\ IF MayOpen(work[Consumer].sym)
       THEN Goto(Consumer, "size")
       ELSE Finish(Consumer, "idle")
  /\ UNCHANGED <<redis, sent, rest, history>>

(* Lots that fit max_value, under the DTE cap; none fits: skip the trade.  *)
OpenSize(lot, cap) ==
  LET max == MaxValue(budget.cash)
      fit == max \div lot
  IN  /\ pc[Consumer] = "size"
      /\ IF lot > max
           THEN Finish(Consumer, "idle")
           ELSE Step(Consumer, "fund",
                     [work[Consumer] EXCEPT !.want.cost = lot * (IF fit < cap THEN fit ELSE cap)])
      /\ UNCHANGED <<redis, sent, rest, history>>

(* allocate(): GET, test, SET.                                             *)
AllocateGet ==
  /\ pc[Consumer] = "fund"
  /\ LET cost == work[Consumer].want.cost
     IN  IF budget.cash < cost + Commission(cost)
           THEN Finish(Consumer, "idle")
           ELSE Step(Consumer, "debit", [work[Consumer] EXCEPT !.cash = budget.cash,
                                                               !.invested = budget.invested])
  /\ UNCHANGED <<redis, sent, rest, history>>

AllocateSet ==
  /\ pc[Consumer] = "debit"
  /\ LET w == work[Consumer]
     IN  /\ budget' = [cash     |-> w.cash - w.want.cost - Commission(w.want.cost),
                       invested |-> w.invested + w.want.cost]
         /\ charged' = [charged EXCEPT ![w.want.dec] = Commission(w.want.cost)]
  /\ Goto(Consumer, "put")
  /\ UNCHANGED <<positions, openId, trades, realized, cooldown, sent, rest,
                 settled, written, stopped, overlap, dirty, faults>>

(* HSET positions:open, HSET trades:all, HSET trades:open_id.              *)
PutPosition ==
  /\ pc[Consumer] = "put"
  /\ positions' = [positions EXCEPT ![work[Consumer].sym] = work[Consumer].want]
  /\ Goto(Consumer, "put_trade")
  /\ UNCHANGED <<openId, trades, budget, realized, cooldown, sent, rest, history>>

(* The record a trade is opened with.                                      *)
OpenTrade == [status |-> "OPEN", pnl |-> 0]

PutTrade ==
  /\ pc[Consumer] = "put_trade"
  /\ trades' = [trades EXCEPT ![work[Consumer].want.dec] = OpenTrade]
  /\ written' = [written EXCEPT ![work[Consumer].want.dec] = OpenTrade]
  /\ Goto(Consumer, "put_id")
  /\ UNCHANGED <<positions, openId, budget, realized, cooldown, sent, rest,
                 charged, settled, stopped, overlap, dirty, faults>>

(* persist_trade posts a record to the data-service and returns: the row   *)
(* is mirrored by then, or refused or lost, or given up after 5 s while    *)
(* the data-service is still at it.                                        *)
Row(i, record)    == [tid |-> i, row |-> record]
Post(i, record)   == sent' = sent \cup {Row(i, record)}
Return(i, record) == \/ sent' = sent \ {Row(i, record)}
                     \/ Cardinality(sent) <= MaxLate /\ sent' = sent

PutOpenId ==
  /\ pc[Consumer] = "put_id"
  /\ openId' = [openId EXCEPT ![work[Consumer].sym] = work[Consumer].want.dec]
  /\ Post(work[Consumer].want.dec, OpenTrade)
  /\ Goto(Consumer, "save")
  /\ UNCHANGED <<positions, trades, budget, realized, cooldown, rest, history>>

SaveOpen ==
  /\ pc[Consumer] = "save"
  /\ Return(work[Consumer].want.dec, OpenTrade)
  /\ Finish(Consumer, "idle")
  /\ UNCHANGED <<redis, rest, history>>

-----------------------------------------------------------------------------
(* close_position, run by the consumer and by manual close requests.       *)

(* What the caller does when close_position has returned.                  *)
AfterClose(a) ==
  LET w == work[a]
  IN  CASE a # Consumer -> Finish(a, "done")
        [] a = Consumer /\ w.want # NoPos ->
             Step(a, "gate", [NoWork EXCEPT !.sym = w.sym, !.want = w.want])
        [] a = Consumer /\ w.want = NoPos /\ w.exit = "STOP" ->
             Step(a, "cool", [NoWork EXCEPT !.sym = w.sym])
        [] OTHER -> Finish(a, "watch")

(* HGET positions:open: no position, nothing to do.                        *)
ClosePosition(a, g) ==
  LET p == positions[work[a].sym]
  IN  /\ pc[a] = "close"
      /\ IF p = NoPos
           THEN AfterClose(a)
           ELSE /\ p.cost + g >= 0
                /\ Step(a, "find_id", [work[a] EXCEPT !.pos = p, !.gross = g])
      /\ UNCHANGED <<redis, sent, rest, history>>

(* HGET trades:open_id, then HGET trades:all if there was an id.           *)
FindId(a) ==
  /\ pc[a] = "find_id"
  /\ LET id == openId[work[a].sym]
     IN  Step(a, IF id = 0 THEN "del_id" ELSE "find_trade", [work[a] EXCEPT !.tid = id])
  /\ UNCHANGED <<redis, sent, rest, history>>

FindTrade(a) ==
  /\ pc[a] = "find_trade"
  /\ Step(a, "del_id", [work[a] EXCEPT !.tid = IF trades[@] = NoTrade THEN 0 ELSE @])
  /\ UNCHANGED <<redis, sent, rest, history>>

UnindexedKept(s) == openId
Unindexed(s)     == [openId EXCEPT ![s] = 0]

(* A position without a trade record is still released.                    *)
UntradedUnpaid == "del_pos"
Untraded       == "balance"

DelOpenId(a) ==
  /\ pc[a] = "del_id"
  /\ openId' = Unindexed(work[a].sym)
  /\ Goto(a, IF work[a].tid = 0 THEN Untraded ELSE "log")
  /\ UNCHANGED <<positions, trades, budget, realized, cooldown, sent, rest, history>>

(* HSET trades:all with the exit, then persist_trade.                      *)
ClosedTrade(w) == [status |-> "CLOSED", pnl |-> TradePnl(w.pos, w.gross)]

PayloadGross(w) == [status |-> "CLOSED", pnl |-> BudgetPnl(w.pos, w.gross)]
Payload(w)      == ClosedTrade(w)

LogClose(a) ==
  /\ pc[a] = "log"
  /\ trades' = [trades EXCEPT ![work[a].tid] = ClosedTrade(work[a])]
  /\ written' = [written EXCEPT ![work[a].tid] = ClosedTrade(work[a])]
  /\ Post(work[a].tid, Payload(work[a]))
  /\ Goto(a, "save_close")
  /\ UNCHANGED <<positions, openId, budget, realized, cooldown, rest,
                 charged, settled, stopped, overlap, dirty, faults>>

SaveClose(a) ==
  /\ pc[a] = "save_close"
  /\ Return(work[a].tid, Payload(work[a]))
  /\ Goto(a, "balance")
  /\ UNCHANGED <<redis, rest, history>>

(* release(): GET, SET.                                                    *)
ReleaseGet(a) ==
  /\ pc[a] = "balance"
  /\ Step(a, "release", [work[a] EXCEPT !.cash = budget.cash, !.invested = budget.invested])
  /\ UNCHANGED <<redis, sent, rest, history>>

ReleasedCost(w) ==
  [cash |-> w.cash + w.pos.cost, invested |-> w.invested - w.pos.cost]
Released(w) ==
  [cash     |-> w.cash + w.pos.cost + BudgetPnl(w.pos, w.gross),
   invested |-> IF w.invested > w.pos.cost THEN w.invested - w.pos.cost ELSE 0]

ReleaseSet(a) ==
  /\ pc[a] = "release"
  /\ budget' = Released(work[a])
  /\ settled' = [settled EXCEPT ![work[a].pos.dec] = @ + 1]
  /\ Goto(a, "del_pos")
  /\ UNCHANGED <<positions, openId, trades, realized, cooldown, sent, rest,
                 charged, written, stopped, overlap, dirty, faults>>

Without(s)     == [positions EXCEPT ![s] = NoPos]

DelPosition(a) ==
  /\ pc[a] = "del_pos"
  /\ positions' = Without(work[a].sym)
  /\ Goto(a, "total")
  /\ UNCHANGED <<openId, trades, budget, realized, cooldown, sent, rest, history>>

(* _record_pnl_snapshot: GET, SET pnl:realized:total.                      *)
RealizedGet(a) ==
  /\ pc[a] = "total"
  /\ Step(a, "record", [work[a] EXCEPT !.total = realized])
  /\ UNCHANGED <<redis, sent, rest, history>>

RealizedSet(a) ==
  /\ pc[a] = "record"
  /\ realized' = work[a].total + BudgetPnl(work[a].pos, work[a].gross)
  /\ AfterClose(a)
  /\ UNCHANGED <<positions, openId, trades, budget, cooldown, sent, rest, history>>

(* POST /positions/{symbol}/close; without a position it answers 404.      *)
ManualClose(r, s) ==
  /\ up /\ pc[r] = "idle" /\ positions[s] # NoPos
  /\ Step(r, "close", [NoWork EXCEPT !.sym = s, !.exit = "OTHER"])
  /\ Enter(r)
  /\ UNCHANGED <<redis, sent, rest, charged, settled, written, stopped, faults>>

-----------------------------------------------------------------------------
(* _check_stop_targets: a snapshot of positions:open, worked through one   *)
(* symbol at a time.                                                       *)

WatchStart ==
  /\ up /\ pc[Consumer] = "idle" /\ positions # NoSnapshot
  /\ todo' = positions
  /\ watchOver' = sessionOver
  /\ Goto(Consumer, "watch")
  /\ Enter(Consumer)
  /\ UNCHANGED <<redis, sent, up, nextDec, sessionOver, charged, settled, written,
                 stopped, faults>>

(* No price, or no rule fires and the peak stands.                         *)
WatchKeep(s) ==
  /\ pc[Consumer] = "watch" /\ todo[s] # NoPos
  /\ todo' = [todo EXCEPT ![s] = NoPos]
  /\ UNCHANGED <<redis, sent, up, pc, work, watchOver, nextDec, sessionOver, history>>

(* A new peak or milestone: HSET the snapshot's copy of the position.      *)
WatchBump(s) ==
  /\ pc[Consumer] = "watch" /\ todo[s] # NoPos /\ ~watchOver
  /\ todo[s].peak < PeakMax
  /\ positions' = [positions EXCEPT ![s] = [todo[s] EXCEPT !.peak = @ + 1]]
  /\ todo' = [todo EXCEPT ![s] = NoPos]
  /\ UNCHANGED <<openId, trades, budget, realized, cooldown, sent, up, pc, work, watchOver,
                 nextDec, sessionOver, history>>

(* A rule fires: "STOP" is STOP_LOSS or TRAIL_STOP, "OTHER" any rule that  *)
(* sets no cooldown; past the session close SESSION_CLOSE comes first.     *)
WatchExit(s, e) ==
  /\ pc[Consumer] = "watch" /\ todo[s] # NoPos
  /\ watchOver => e = "OTHER"
  /\ todo' = [todo EXCEPT ![s] = NoPos]
  /\ stopped' = IF e = "STOP" THEN stopped \cup {s} ELSE stopped
  /\ Step(Consumer, "close", [NoWork EXCEPT !.sym = s, !.exit = e])
  /\ UNCHANGED <<redis, sent, up, watchOver, nextDec, sessionOver,
                 charged, settled, written, overlap, dirty, faults>>

(* SETEX sl:cooldown, after the close whatever it returned.                *)
SetCooldown ==
  /\ pc[Consumer] = "cool"
  /\ cooldown' = cooldown \cup {work[Consumer].sym}
  /\ Finish(Consumer, "watch")
  /\ UNCHANGED <<positions, openId, trades, budget, realized, sent, rest, history>>

WatchEnd ==
  /\ pc[Consumer] = "watch" /\ todo = NoSnapshot
  /\ watchOver' = FALSE
  /\ Goto(Consumer, "idle")
  /\ UNCHANGED <<redis, sent, up, todo, nextDec, sessionOver, history>>

-----------------------------------------------------------------------------
(* The environment, exceptions, crashes and restarts.                      *)

ExpireCooldown(s) ==
  /\ s \in cooldown
  /\ cooldown' = cooldown \ {s}
  /\ stopped' = stopped \ {s}
  /\ UNCHANGED <<positions, openId, trades, budget, realized, sent, process,
                 charged, settled, written, overlap, dirty, faults>>

(* The data-service has stored a row it was sent and mirrors it into       *)
(* trades:all, at once or long after persist_trade gave up.                *)
MirrorTrade(m) ==
  /\ m \in sent
  /\ trades' = [trades EXCEPT ![m.tid] = m.row]
  /\ sent' = sent \ {m}
  /\ UNCHANGED <<positions, openId, budget, realized, cooldown, process, history>>

SessionEnd ==
  /\ ~sessionOver
  /\ sessionOver' = TRUE
  /\ UNCHANGED <<redis, sent, up, pc, work, watcher, nextDec, history>>

(* A Redis command raises.  The request fails; the consumer logs it and    *)
(* goes on with the next position of the snapshot or the next message.     *)
FailedForGood(a) == "done"
Failed(a) == IF a # Consumer THEN "done"
             ELSE IF work[a].want = NoPos THEN "watch" ELSE "idle"

Abort(a) ==
  /\ Busy(a) /\ pc[a] # "watch" /\ faults < MaxFaults
  /\ Finish(a, Failed(a))
  /\ faults' = faults + 1
  /\ dirty' = TRUE
  /\ UNCHANGED <<redis, sent, rest, charged, settled, written, stopped, overlap>>

Crash ==
  /\ up /\ faults < MaxFaults
  /\ up' = FALSE
  /\ pc' = [a \in Actors |-> IF a = Consumer THEN "idle"
                             ELSE IF Busy(a) THEN "done" ELSE pc[a]]
  /\ work' = [a \in Actors |-> NoWork]
  /\ todo' = NoSnapshot
  /\ watchOver' = FALSE
  /\ faults' = faults + 1
  /\ UNCHANGED <<redis, sent, nextDec, sessionOver, charged, settled, written, stopped,
                 overlap, dirty>>

(* lifespan: reconcile_invested() before the consumer task starts.         *)
ReconciledNot  == budget
ReconciledSunk == [cash |-> budget.cash, invested |-> Invested]
Reconciled     == [cash     |-> budget.cash + budget.invested - Invested,
                   invested |-> Invested]

Restart ==
  /\ ~up
  /\ up' = TRUE
  /\ budget' = Reconciled
  /\ dirty' = FALSE
  /\ UNCHANGED <<positions, openId, trades, realized, cooldown, sent, pc, work, watcher,
                 nextDec, sessionOver, charged, settled, written, stopped, overlap, faults>>

Open ==
  \/ OpenGate
  \/ \E lot \in LotCosts, cap \in LotCaps : OpenSize(lot, cap)
  \/ AllocateGet
  \/ AllocateSet
  \/ PutPosition
  \/ PutTrade
  \/ PutOpenId
  \/ SaveOpen

Close(a) ==
  \/ \E g \in Moves : ClosePosition(a, g)
  \/ FindId(a)
  \/ FindTrade(a)
  \/ DelOpenId(a)
  \/ LogClose(a)
  \/ SaveClose(a)
  \/ ReleaseGet(a)
  \/ ReleaseSet(a)
  \/ DelPosition(a)
  \/ RealizedGet(a)
  \/ RealizedSet(a)

Watch ==
  \/ WatchStart
  \/ \E s \in Symbols : WatchKeep(s) \/ WatchBump(s)
  \/ \E s \in Symbols, e \in {"STOP", "OTHER"} : WatchExit(s, e)
  \/ SetCooldown
  \/ WatchEnd

Next ==
  \/ \E s \in Symbols, side \in {"BUY", "SELL"} : Decide(s, side)
  \/ Open
  \/ Watch
  \/ \E a \in Actors : Close(a)
  \/ \E r \in Requests, s \in Symbols : ManualClose(r, s)
  \/ \E s \in Symbols : ExpireCooldown(s)
  \/ \E m \in sent : MirrorTrade(m)
  \/ SessionEnd
  \/ \E a \in Actors : Abort(a)
  \/ Crash
  \/ Restart

Spec == Init /\ [][Next]_vars

(* The event loop runs a ready handler, a stopped service is restarted,    *)
(* and a position the watcher visits for ever is not without a price for   *)
(* ever.                                                                   *)
Fairness ==
  /\ WF_vars(Open \/ Watch \/ Close(Consumer))
  /\ WF_vars(Restart)
  /\ \A s \in Symbols : SF_vars(WatchExit(s, "OTHER"))

FairSpec == Spec /\ Fairness

-----------------------------------------------------------------------------
(* Properties.                                                             *)

Position == [dec : 0..MaxDecisions, side : {"BUY", "SELL", "NONE"}, cost : Nat,
             peak : 0..PeakMax]
Trade    == [status : {"NONE", "OPEN", "CLOSED"}, pnl : Int]
Rows     == [tid : 0..MaxDecisions, row : Trade]
Labels   == {"idle", "done", "gate", "size", "fund", "debit", "put", "put_trade", "put_id",
             "save", "close", "find_id", "find_trade", "del_id", "log", "save_close",
             "balance", "release", "del_pos", "total", "record", "watch", "cool"}
Work     == [sym : Symbols \cup {NoSym}, pos : Position, want : Position,
             tid : 0..MaxDecisions, cash : Int, invested : Nat, gross : Int, total : Int,
             exit : {"NONE", "STOP", "OTHER"}]

RedisOK ==
  /\ positions \in [Symbols -> Position]
  /\ openId \in [Symbols -> 0..MaxDecisions]
  /\ trades \in [Ids -> Trade]
  /\ budget \in [cash : Int, invested : Nat]
  /\ realized \in Int
  /\ cooldown \in SUBSET Symbols
  /\ sent \subseteq Rows

(* ... and a handler past its entry has a symbol in hand.                  *)
ProcessOK ==
  /\ pc \in [Actors -> Labels]
  /\ work \in [Actors -> Work]
  /\ \A a \in Actors : pc[a] \notin {"idle", "done", "watch"} => work[a].sym \in Symbols

RestOK ==
  /\ up \in BOOLEAN
  /\ todo \in [Symbols -> Position]
  /\ watchOver \in BOOLEAN
  /\ nextDec \in 1..(MaxDecisions + 1)
  /\ sessionOver \in BOOLEAN

HistoryOK ==
  /\ charged \in [Ids -> Nat]
  /\ settled \in [Ids -> Nat]
  /\ written \in [Ids -> Trade]
  /\ stopped \in SUBSET Symbols
  /\ overlap \in BOOLEAN
  /\ dirty \in BOOLEAN
  /\ faults \in 0..MaxFaults

(* Every variable has its type; invested is never negative.                *)
TypeOK == RedisOK /\ ProcessOK /\ RestOK /\ HistoryOK

Clean == ~overlap /\ faults = 0
OpenIds   == {i \in Ids : trades[i].status = "OPEN"}
ClosedIds == {i \in Ids : trades[i].status = "CLOSED"}

(* Closed by the engine, re-opened by the data-service, which mirrored the *)
(* OPEN record last.                                                       *)
Reopened == {i \in OpenIds : written[i].status = "CLOSED"}

(* The account explains itself: cash plus invested is what it started with *)
(* plus the realized total less the entry commissions, and the realized    *)
(* total is the sum of the closed trades' pnl with those commissions       *)
(* added back (budget.py, mock_broker.py:276-301 and 379-390), while the   *)
(* data-service has re-opened none of them.                                *)
BooksAgree ==
  Quiet /\ Clean =>
    /\ budget.cash + budget.invested = InitialBudget + realized - SumOf(charged, Ids)
    /\ Reopened = {} =>
         realized = SumOf([i \in Ids |-> trades[i].pnl], ClosedIds) + SumOf(charged, ClosedIds)

(* Between handlers, invested is the cost of the open positions; overlap   *)
(* and exceptions may break that only until the next restart               *)
(* (reconcile_invested).                                                   *)
InvestedMatches == Quiet /\ ~dirty => budget.invested = Invested

(* positions:open, trades:open_id and the OPEN trades of trades:all are    *)
(* three views of the same positions, but for trades the data-service      *)
(* re-opened.                                                              *)
IndexAgrees ==
  Quiet /\ Clean =>
    /\ \A s \in Symbols : openId[s] = positions[s].dec
    /\ OpenIds \ Reopened
         = {positions[s].dec : s \in {x \in Symbols : positions[x] # NoPos}}

(* A trade's cost is returned to cash once, plus at most once more for     *)
(* every handler that was cut short between release() and HDEL.            *)
SettledOnce == ~overlap => \A i \in Ids : settled[i] <= 1 + faults

(* A position leaves positions:open only after its cost went back to cash, *)
(* whatever crashes and exceptions came before.                            *)
RemovalPaid ==
  [][\A s \in Symbols :
       ~overlap /\ positions[s] # NoPos /\ positions'[s].dec # positions[s].dec
         => settled[positions[s].dec] >= 1]_vars

(* The record of a closed trade is kept, crashes, exceptions and the late  *)
(* mirror of its own closing included, unless the data-service still owes  *)
(* trades:all the OPEN record persist_trade gave up on.                    *)
ClosedIsKept ==
  [][\A i \in ClosedIds : ~overlap /\ Row(i, OpenTrade) \notin sent
       => trades'[i] = trades[i]]_vars

(* "Errors are non-fatal -- Redis remains the operational source of truth" *)
(* (data_client.py:3): whatever becomes of the calls to the data-service,  *)
(* the record of a closed trade in Redis is final.                         *)
ClosedIsFinal ==
  [][\A i \in ClosedIds : ~overlap => trades'[i] = trades[i]]_vars

(* No new position on a symbol between its stop and the end of the         *)
(* cooldown, manual closes at any moment included (main.py:1019-1028).     *)
NoReentryAfterStop ==
  [][faults = 0 => \A s \in stopped : positions'[s].dec \in {0, positions[s].dec}]_vars

(* After the session close the book becomes and stays flat, through manual *)
(* closes, exceptions and crashes (README.md:140).                         *)
SquareOff == sessionOver ~> [](positions = NoSnapshot)
=============================================================================
