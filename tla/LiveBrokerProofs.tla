-------------------------- MODULE LiveBrokerProofs --------------------------
(***************************************************************************)
(* Proofs about LiveBroker, for any finite set of underlyings, any number  *)
(* of manual closes, decisions, orders and mishaps.  Invariants, each      *)
(* inductive with those before it:                                         *)
(*                                                                         *)
(*   Types      TypeOK, and who closes for which caller                    *)
(*   SoleInv    which handlers may be under way and what they hold         *)
(*   CountInv   which trades are used and which are counted                *)
(*   IndexInv   the index and the closed trades, half-done closes added    *)
(*   BookInv    the account is the book with the fills not yet recorded    *)
(***************************************************************************)
EXTENDS LiveBroker, FiniteSetTheorems, TLAPS

-----------------------------------------------------------------------------
(* Types.                                                                  *)

Opening == {"gate", "buy", "await", "record", "index"}
Closing == {"close", "ext", "sell", "sold", "find", "unindex", "log", "remove", "total"}
Idling  == {"idle", "watch", "recon_read", "fetch", "recon", "retry"}

(* A request only closes, for itself; the consumer closes for one of its   *)
(* loops or for a decision, and then remembers it.                         *)
Callers ==
  /\ \A r \in Requests : pc[r] \in {"idle", "done"} \cup (Closing \ {"ext"})
  /\ pc[Consumer] \in Idling \cup Opening \cup Closing
  /\ \A r \in Requests : pc[r] \in Closing => work[r].caller = "manual" /\ work[r].sym \in Symbols
  /\ pc[Consumer] \in Closing =>
       work[Consumer].caller \in {"flip", "watch", "recon"} /\ work[Consumer].sym \in Symbols
  /\ pc[Consumer] \in Opening \/ work[Consumer].caller = "flip" =>
       /\ work[Consumer].sym \in Symbols /\ work[Consumer].side \in Sides
       /\ work[Consumer].dec \in Ids

Types == TypeOK /\ Callers

(* The null values have their types, and none is a symbol's.               *)
LEMMA Nulls == /\ NoPos \in Position /\ NoOrder \in Order /\ NoWork \in Work
               /\ NoBook \in [Symbols -> Position] /\ NoOpt \notin Options
               /\ Consumer \in Actors /\ Requests \subseteq Actors
<1>1. NoPos \in Position
  BY LiveAssumption DEF NoPos, Position
<1>2. NoOrder \in Order
  BY DEF NoOrder, Order
<1>3. NoWork \in Work
  BY <1>1, LiveAssumption DEF NoWork, Work
<1>4. NoOpt \notin Options
  BY LiveAssumption DEF NoOpt, Options
<1> QED BY <1>1, <1>2, <1>3, <1>4 DEF NoBook, Actors

(* The initial state.                                                      *)
LEMMA TypesInit == Init => Types
<1> SUFFICES ASSUME Init PROVE Types
  OBVIOUS
<1>1. net \in [Options -> Int]
  BY DEF Init
<1>2. /\ orders \in [1..MaxOrders -> Order] /\ positions \in [Symbols -> Position]
      /\ todo \in [Symbols -> Position] /\ work \in [Actors -> Work]
  BY Nulls DEF Init
<1>3. pc \in [Actors -> Labels] /\ nextDec \in 1..(MaxDecisions + 1)
  BY LiveAssumption DEF Init, Labels
<1>5. mishaps \in 0..MaxMishaps /\ crashes \in 0..MaxMishaps /\ placed \in 0..MaxOrders
      /\ openId \in [Symbols -> 0..MaxDecisions]
  BY LiveAssumption DEF Init
<1>6. TypeOK
  BY <1>1, <1>2, <1>3, <1>5 DEF Init, TypeOK
<1>4. Callers
  BY Nulls DEF Init, Callers, Idling, Opening, Closing, NoWork, Actors
<1> QED BY <1>4, <1>6 DEF Types

(* What a close does when it is over.                                      *)
Returned(a) ==
  \/ /\ a = Consumer /\ work[a].caller = "flip" /\ pc' = [pc EXCEPT ![a] = "gate"]
     /\ work' = [work EXCEPT ![a] = [NoWork EXCEPT !.sym = work[a].sym, !.side = work[a].side,
                                                   !.dec = work[a].dec]]
  \/ /\ a = Consumer /\ work[a].caller = "watch" /\ pc' = [pc EXCEPT ![a] = "watch"]
     /\ work' = [work EXCEPT ![a] = NoWork]
  \/ /\ a = Consumer /\ work[a].caller = "recon" /\ pc' = [pc EXCEPT ![a] = "recon"]
     /\ work' = [work EXCEPT ![a] = NoWork]
  \/ /\ a \in Requests /\ pc' = [pc EXCEPT ![a] = "done"] /\ work' = [work EXCEPT ![a] = NoWork]

LEMMA CloseReturns ==
  ASSUME Types, NEW a \in Actors, pc[a] \in Closing, AfterClose(a) PROVE Returned(a)
<1>1. \/ a = Consumer /\ work[a].caller \in {"flip", "watch", "recon"}
      \/ a \in Requests /\ work[a].caller = "manual"
  BY DEF Types, Callers, Actors
<1> QED BY <1>1 DEF AfterClose, Finish, Step, Returned

(* The types of the two parts that a handler's step changes at once.       *)
Control == pc \in [Actors -> Labels] /\ work \in [Actors -> Work] /\ Callers

LEMMA ReturnedTypes == ASSUME Types, NEW a \in Actors, pc[a] \in Closing, Returned(a) PROVE Control'
<1>1. pc \in [Actors -> Labels] /\ work \in [Actors -> Work] /\ Consumer \notin Requests
  BY LiveAssumption DEF Types, TypeOK
<1>2. [NoWork EXCEPT !.sym = work[a].sym, !.side = work[a].side, !.dec = work[a].dec] \in Work
  BY <1>1, Nulls DEF Work, NoWork
<1>3. work' \in [Actors -> Work] /\ pc' \in [Actors -> Labels]
  BY <1>1, <1>2, Nulls DEF Returned, Labels
<1>4. NoWork.caller = "NONE"
  BY DEF NoWork
<1>5. CASE a \in Requests
  <2>1. /\ pc'[a] = "done" /\ work'[a] = NoWork
        /\ \A b \in Actors \ {a} : pc'[b] = pc[b] /\ work'[b] = work[b]
    BY <1>1, <1>5, Nulls DEF Returned
  <2> QED BY <1>1, <1>3, <1>4, <1>5, <2>1, Nulls DEF Types, Callers, Closing, Control
<1>6. CASE a = Consumer /\ work[a].caller = "flip"
  <2>1. /\ pc'[a] = "gate" /\ work'[a].sym = work[a].sym /\ work'[a].side = work[a].side
        /\ work'[a].dec = work[a].dec /\ \A r \in Requests : pc'[r] = pc[r] /\ work'[r] = work[r]
    <3> DEFINE v == [NoWork EXCEPT !.sym = work[a].sym, !.side = work[a].side, !.dec = work[a].dec]
    <3>1. v.sym = work[a].sym /\ v.side = work[a].side /\ v.dec = work[a].dec
      BY DEF NoWork
    <3>2. pc' = [pc EXCEPT ![a] = "gate"] /\ work' = [work EXCEPT ![a] = v]
      BY <1>1, <1>6 DEF Returned
    <3> HIDE DEF v
    <3> QED BY <1>1, <1>6, <3>1, <3>2, Nulls
  <2> QED BY <1>3, <1>6, <2>1 DEF Types, Callers, Closing, Opening, Idling, Control
<1>7. CASE a = Consumer /\ work[a].caller # "flip"
  <2>1. /\ pc'[a] \in {"watch", "recon"} /\ work'[a] = NoWork
        /\ \A r \in Requests : pc'[r] = pc[r] /\ work'[r] = work[r]
    BY <1>1, <1>7, Nulls DEF Returned
  <2> QED BY <1>3, <1>4, <1>7, <2>1 DEF Types, Callers, Closing, Opening, Idling, Control
<1> QED BY <1>3, <1>5, <1>6, <1>7 DEF Actors, Control

(* A handler goes on to another label of its kind, its caller, symbol,     *)
(* side and decision as before.                                            *)
LEMMA StepTypes ==
  ASSUME Types, NEW a \in Actors, NEW l \in Labels, NEW w \in Work, Step(a, l, w),
         /\ w.caller = work[a].caller /\ w.sym = work[a].sym
         /\ w.side = work[a].side /\ w.dec = work[a].dec,
         \/ pc[a] \in Closing /\ l \in Closing \ {"ext"}
         \/ a = Consumer /\ pc[a] \in Opening /\ l \in Opening
         \/ a = Consumer /\ pc[a] \in Idling /\ l \in Idling
  PROVE  Control'
<1>1. pc \in [Actors -> Labels] /\ work \in [Actors -> Work] /\ Consumer \notin Requests
  BY LiveAssumption DEF Types, TypeOK
<1>2. work' \in [Actors -> Work] /\ pc' \in [Actors -> Labels]
  BY <1>1 DEF Step
<1>3. pc'[a] = l /\ work'[a] = w /\ \A b \in Actors \ {a} : pc'[b] = pc[b] /\ work'[b] = work[b]
  BY <1>1 DEF Step
<1> QED BY <1>1, <1>2, <1>3, Nulls DEF Types, Callers, Closing, Opening, Idling, Actors, Control

(* A handler that is over leaves no locals.                                *)
LEMMA FinishTypes ==
  ASSUME Types, NEW l \in Idling, Finish(Consumer, l) PROVE Control'
<1>1. pc \in [Actors -> Labels] /\ work \in [Actors -> Work] /\ Consumer \notin Requests
  BY LiveAssumption DEF Types, TypeOK
<1>2. work' \in [Actors -> Work] /\ pc' \in [Actors -> Labels]
  BY <1>1, Nulls DEF Finish, Step, Labels, Idling
<1>3. /\ pc'[Consumer] = l /\ work'[Consumer].caller = "NONE"
      /\ \A b \in Requests : pc'[b] = pc[b] /\ work'[b] = work[b]
  BY <1>1, Nulls DEF Finish, Step, NoWork
<1> QED BY <1>1, <1>2, <1>3, Nulls DEF Types, Callers, Closing, Opening, Idling, Control

(* An order that Fyers accepts has the type of one.                        *)
LEMMA OrderTypes ==
  ASSUME Types, NEW o \in Options \cup {NoOpt}, NEW side \in Sides, NEW qty \in Nat,
         NEW reply \in Replies, PlaceOrder(o, side, qty, reply)
  PROVE  /\ orders' \in [1..MaxOrders -> Order] /\ placed' \in 0..MaxOrders
         /\ mishaps' \in 0..MaxMishaps
         /\ reply = "ok" => placed + 1 \in 0..MaxOrders
<1>1. /\ orders \in [1..MaxOrders -> Order] /\ placed \in 0..MaxOrders
      /\ mishaps \in 0..MaxMishaps /\ crashes \in 0..MaxMishaps
  BY DEF Types, TypeOK
<1>2. CASE reply = "refused"
  BY <1>1, <1>2 DEF PlaceOrder
<1>3. CASE reply # "refused"
  <2>1. [opt |-> o, side |-> side, qty |-> qty, status |-> "WORKING"] \in Order
    BY DEF Order
  <2>2. /\ placed < MaxOrders /\ placed' = placed + 1
        /\ orders' = [orders EXCEPT ![placed + 1] =
                        [opt |-> o, side |-> side, qty |-> qty, status |-> "WORKING"]]
        /\ mishaps' = mishaps \/ (mishaps + crashes < MaxMishaps /\ mishaps' = mishaps + 1)
    BY <1>3 DEF PlaceOrder, Mishap
  <2> QED BY <1>1, <2>1, <2>2, LiveAssumption
<1> QED BY <1>2, <1>3

(* A mishap is one of a bounded number.                                    *)
LEMMA MishapType == Types /\ (UNCHANGED mishaps \/ Mishap) => mishaps' \in 0..MaxMishaps
  BY LiveAssumption DEF Types, TypeOK, Mishap

(* Steps of the exchange, the user and time.                               *)
LEMMA ExchangeTypes ==
  ASSUME Types,
         Exchange \/ (\E o \in Options : UserSale(o)) \/ \E s \in Symbols : Age(s) \/ ExpirePending(s)
  PROVE  Types'
<1>0. TypeOK /\ UNCHANGED <<pc, work>>
  BY DEF Types, Exchange, Traded, Rejected, Refresh, UserSale, Age, ExpirePending, control
<1>1. Callers'
  BY <1>0 DEF Types, Callers
<1> SUFFICES TypeOK'
  BY <1>1 DEF Types
<1>2. ASSUME NEW i \in 1..placed, Traded(i) PROVE TypeOK'
  <2>1. orders[i] \in Order /\ i \in 1..MaxOrders
    BY <1>0, LiveAssumption DEF TypeOK
  <2>2. orders' = [orders EXCEPT ![i].status = "TRADED"]
        /\ net' = [net EXCEPT ![orders[i].opt] = IF orders[i].side = "BUY" THEN net[orders[i].opt] + orders[i].qty
                                                  ELSE net[orders[i].opt] - orders[i].qty]
    BY <1>2 DEF Traded
  <2>3. orders' \in [1..MaxOrders -> Order]
    BY <1>0, <2>1, <2>2 DEF TypeOK, Order
  <2>4. net' \in [Options -> Int]
    <3>1. orders[i].qty \in Int
      BY <2>1 DEF Order
    <3>2. CASE orders[i].opt \in Options
      BY <1>0, <2>2, <3>1, <3>2 DEF TypeOK
    <3>3. CASE orders[i].opt \notin Options
      BY <1>0, <2>2, <3>3 DEF TypeOK
    <3> QED BY <3>2, <3>3
  <2> QED BY <1>0, <1>2, <2>3, <2>4 DEF Traded, TypeOK, redis, control, history
<1>3. ASSUME NEW i \in 1..placed, Rejected(i) PROVE TypeOK'
  <2>1. orders[i] \in Order /\ i \in 1..MaxOrders
    BY <1>0, LiveAssumption DEF TypeOK
  <2>2. orders' \in [1..MaxOrders -> Order]
    BY <1>0, <1>3, <2>1 DEF Rejected, TypeOK, Order
  <2>3. mishaps' \in 0..MaxMishaps
    BY <1>3, MishapType DEF Rejected
  <2> QED BY <1>0, <1>3, <2>2, <2>3 DEF Rejected, TypeOK, redis, control
<1>4. CASE Refresh
  BY <1>0, <1>4 DEF Refresh, TypeOK, redis, control, history
<1>5. ASSUME NEW o \in Options, UserSale(o) PROVE TypeOK'
  BY <1>0, <1>5, MishapType DEF UserSale, TypeOK, redis, control
<1>6. ASSUME NEW s \in Symbols, Age(s) \/ ExpirePending(s) PROVE TypeOK'
  BY <1>0, <1>6 DEF Age, ExpirePending, TypeOK, account, redis, control, history
<1> QED BY <1>2, <1>3, <1>4, <1>5, <1>6 DEF Exchange

(* What stays of the types when only a handler's control and some of the   *)
(* rest change.                                                            *)
Rest == /\ net \in [Options -> Int] /\ shown \in [Options -> Int]
        /\ orders \in [1..MaxOrders -> Order] /\ placed \in 0..MaxOrders
        /\ positions \in [Symbols -> Position] /\ openId \in [Symbols -> 0..MaxDecisions]
        /\ trades \in [Ids -> {"NONE", "OPEN", "CLOSED"}]
        /\ pending \in SUBSET Symbols /\ retry \in BOOLEAN /\ up \in BOOLEAN
        /\ todo \in [Symbols -> Position] /\ nextDec \in 1..(MaxDecisions + 1)
        /\ young \in SUBSET Symbols
        /\ counted \in [Ids -> Nat] /\ overlap \in BOOLEAN
        /\ mishaps \in 0..MaxMishaps /\ crashes \in 0..MaxMishaps

LEMMA TypesParts == Types <=> Control /\ Rest
  BY DEF Types, TypeOK, Control, Rest

(* A closing record keeps its owner's fields.                              *)
LEMMA WorkFields ==
  ASSUME NEW w \in Work, NEW p \in Position, NEW o \in 0..MaxOrders, NEW t \in 0..MaxDecisions
  PROVE  /\ [w EXCEPT !.pos = p] \in Work /\ [w EXCEPT !.ord = o] \in Work
         /\ [w EXCEPT !.tid = t] \in Work
         /\ \A v \in {[w EXCEPT !.pos = p], [w EXCEPT !.ord = o], [w EXCEPT !.tid = t], w} :
              v.caller = w.caller /\ v.sym = w.sym /\ v.side = w.side /\ v.dec = w.dec
         /\ [w EXCEPT !.pos = p].pos = p /\ [w EXCEPT !.ord = o].ord = o
         /\ [w EXCEPT !.tid = t].tid = t
         /\ [w EXCEPT !.ord = o].pos = w.pos /\ [w EXCEPT !.tid = t].pos = w.pos
  BY DEF Work

(* Steps of open_position.                                                 *)
LEMMA OpenTypes == Types /\ Open => Types'
<1> SUFFICES ASSUME Types, Open PROVE Control' /\ Rest'
  BY DEF Types, TypeOK, Control, Rest
<1> DEFINE w == work[Consumer]
<1>0. Rest /\ Control /\ Consumer \in Actors /\ w \in Work
  BY TypesParts, Nulls DEF Control
<1>1. pc[Consumer] \in Opening =>
        w.sym \in Symbols /\ w.side \in Sides /\ w.dec \in Ids /\ <<w.sym, w.side>> \in Options
  BY <1>0 DEF Control, Callers, Options
<1>2. /\ Opening \subseteq Labels /\ Idling \subseteq Labels /\ "idle" \in Idling
      /\ \A l \in {"gate", "buy", "await", "record", "index"} : l \in Opening /\ l \in Labels
  BY DEF Opening, Idling, Labels
<1>3. ASSUME NEW l \in Opening, pc[Consumer] \in Opening, Goto(Consumer, l) PROVE Control'
  BY <1>0, <1>2, <1>3, StepTypes DEF Goto
<1>4. ASSUME Finish(Consumer, "idle") PROVE Control'
  BY <1>2, <1>4, FinishTypes
<1>5. ASSUME NEW funds \in BOOLEAN, OpenGate(funds) PROVE Control' /\ Rest'
  <2>1. Control'
    BY <1>2, <1>3, <1>4, <1>5 DEF OpenGate
  <2> QED BY <1>0, <1>1, <1>2, <1>5, <2>1 DEF OpenGate, Rest, account, history
<1>6. ASSUME NEW reply \in Replies, PlaceBuy(reply) PROVE Control' /\ Rest'
  <2>1. pc[Consumer] = "buy" /\ PlaceOrder(<<w.sym, w.side>>, "BUY", 1, reply)
    BY <1>6 DEF PlaceBuy
  <2>2. /\ orders' \in [1..MaxOrders -> Order] /\ placed' \in 0..MaxOrders
        /\ mishaps' \in 0..MaxMishaps /\ (reply = "ok" => placed + 1 \in 0..MaxOrders)
    BY <1>1, <1>2, <2>1, OrderTypes DEF Sides
  <2>3. CASE reply = "ok"
    <3>1. Step(Consumer, "await", [w EXCEPT !.ord = placed + 1])
      BY <1>6, <2>3 DEF PlaceBuy
    <3>2. [w EXCEPT !.ord = placed + 1] \in Work
      BY <1>0, <2>2, <2>3 DEF Work
    <3>3. LET v == [w EXCEPT !.ord = placed + 1]
          IN  v.caller = w.caller /\ v.sym = w.sym /\ v.side = w.side /\ v.dec = w.dec
      BY <1>0 DEF Work
    <3>4. Control'
      BY <1>0, <1>2, <2>1, <3>1, <3>2, <3>3, StepTypes
    <3> QED BY <1>0, <1>6, <2>2, <2>3, <3>4 DEF PlaceBuy, Rest
  <2>4. CASE reply # "ok"
    <3>1. Control'
      BY <1>4, <1>6, <2>4 DEF PlaceBuy
    <3> QED BY <1>0, <1>6, <2>2, <2>4, <3>1 DEF PlaceBuy, Rest
  <2> QED BY <2>3, <2>4
<1>7. ASSUME NEW seen \in Fills, AwaitBuy(seen) PROVE Control' /\ Rest'
  <2>1. Control'
    BY <1>2, <1>3, <1>4, <1>7 DEF AwaitBuy
  <2>2. mishaps' \in 0..MaxMishaps
    BY <1>7, MishapType DEF AwaitBuy, Polled
  <2> QED BY <1>0, <1>7, <2>1, <2>2 DEF AwaitBuy, Rest, account
<1>8. CASE RecordOpen
  <2>1. Control'
    BY <1>2, <1>3, <1>8 DEF RecordOpen
  <2>2. [dec |-> w.dec, side |-> w.side, opt |-> <<w.sym, w.side>>, qty |-> 1] \in Position
    BY <1>1, <1>2, <1>8 DEF RecordOpen, Position, Ids
  <2>3. positions' \in [Symbols -> Position] /\ young' \in SUBSET Symbols
    BY <1>0, <1>1, <1>2, <1>8, <2>2 DEF RecordOpen, Rest
  <2> QED BY <1>0, <1>8, <2>1, <2>3 DEF RecordOpen, Rest, account, history
<1>9. CASE IndexOpen
  <2>1. Control'
    BY <1>4, <1>9 DEF IndexOpen
  <2>2. w.dec \in 0..MaxDecisions
    BY <1>0 DEF Work
  <2> QED BY <1>0, <1>9, <2>1, <2>2 DEF IndexOpen, Rest, account, history
<1> QED BY <1>5, <1>6, <1>7, <1>8, <1>9 DEF Open

(* Steps of a close.                                                       *)
LEMMA CloseTypes == ASSUME Types, NEW a \in Actors, Close(a) PROVE Types'
<1> SUFFICES Control' /\ Rest'
  BY DEF Types, TypeOK, Control, Rest
<1> DEFINE w == work[a]
<1>0. Rest /\ Control /\ w \in Work
  BY TypesParts DEF Control
<1>1. pc[a] \in Closing /\ w.sym \in Symbols
  <2>1. pc[a] \in Closing
    BY DEF Close, ReadPosition, PlaceSell, AwaitSell, FindTrade, Unindex, LogClose, RemovePosition,
           AddRealized, Closing
  <2> QED BY <1>0, <2>1 DEF Control, Callers, Actors
<1>2. \A l \in {"sell", "sold", "find", "unindex", "log", "remove", "total"} :
        l \in Closing \ {"ext"} /\ l \in Labels
  BY DEF Closing, Labels
<1>3. ASSUME NEW l \in {"sell", "sold", "find", "unindex", "log", "remove", "total"}, Goto(a, l)
      PROVE  Control'
  BY <1>0, <1>1, <1>2, <1>3, StepTypes DEF Goto
<1>4. ASSUME AfterClose(a) PROVE Control'
  BY <1>1, <1>4, CloseReturns, ReturnedTypes
<1>5. /\ positions[w.sym] \in Position /\ openId[w.sym] \in 0..MaxDecisions
      /\ w.pos \in Position
  BY <1>0, <1>1 DEF Rest, Work
<1>6. CASE ReadPosition(a)
  <2>1. CASE positions[w.sym] = NoPos
    BY <1>0, <1>4, <1>6, <2>1 DEF ReadPosition, Rest, account, redis, history
  <2>2. CASE positions[w.sym] # NoPos
    <3>1. PICK l \in {"sell", "find"} : Step(a, l, [w EXCEPT !.pos = positions[w.sym]])
      BY <1>6, <2>2 DEF ReadPosition
    <3>2. [w EXCEPT !.pos = positions[w.sym]] \in Work
      BY <1>0, <1>5 DEF Work
    <3>3. LET v == [w EXCEPT !.pos = positions[w.sym]]
          IN  v.caller = w.caller /\ v.sym = w.sym /\ v.side = w.side /\ v.dec = w.dec
      BY <1>0 DEF Work
    <3>4. Control'
      BY <1>0, <1>1, <1>2, <3>1, <3>2, <3>3, StepTypes
    <3> QED BY <1>0, <1>6, <3>4 DEF ReadPosition, Rest, account, redis, history
  <2> QED BY <2>1, <2>2
<1>7. ASSUME NEW reply \in Replies, PlaceSell(a, reply) PROVE Control' /\ Rest'
  <2>0. w.pos.opt \in Options \cup {NoOpt} /\ w.pos.qty \in Nat /\ "SELL" \in Sides
    BY <1>5 DEF Position, Sides
  <2>1. PlaceOrder(w.pos.opt, "SELL", w.pos.qty, reply)
    BY <1>7 DEF PlaceSell
  <2>2. /\ orders' \in [1..MaxOrders -> Order] /\ placed' \in 0..MaxOrders
        /\ mishaps' \in 0..MaxMishaps /\ (reply = "ok" => placed + 1 \in 0..MaxOrders)
    BY <2>0, <2>1, OrderTypes
  <2>3. CASE reply = "ok"
    <3>1. Step(a, "sold", [w EXCEPT !.ord = placed + 1])
      BY <1>7, <2>3 DEF PlaceSell
    <3>2. [w EXCEPT !.ord = placed + 1] \in Work
      BY <1>0, <2>2, <2>3 DEF Work
    <3>3. LET v == [w EXCEPT !.ord = placed + 1]
          IN  v.caller = w.caller /\ v.sym = w.sym /\ v.side = w.side /\ v.dec = w.dec
      BY <1>0 DEF Work
    <3>4. Control'
      BY <1>0, <1>1, <1>2, <3>1, <3>2, <3>3, StepTypes
    <3> QED BY <1>0, <1>7, <2>2, <3>4 DEF PlaceSell, Rest, redis
  <2>4. CASE reply # "ok"
    <3>1. Control'
      BY <1>4, <1>7, <2>4 DEF PlaceSell
    <3> QED BY <1>0, <1>7, <2>2, <3>1 DEF PlaceSell, Rest, redis
  <2> QED BY <2>3, <2>4
<1>8. ASSUME NEW seen \in Fills, AwaitSell(a, seen) PROVE Control' /\ Rest'
  <2>1. Control' /\ mishaps' \in 0..MaxMishaps
    BY <1>3, <1>8, MishapType DEF AwaitSell, Polled
  <2> QED BY <1>0, <1>8, <2>1 DEF AwaitSell, Rest, account, redis
<1>9. CASE FindTrade(a)
  <2>1. Step(a, "unindex", [w EXCEPT !.tid = openId[w.sym]])
    BY <1>9 DEF FindTrade
  <2>2. [w EXCEPT !.tid = openId[w.sym]] \in Work
    BY <1>0, <1>5 DEF Work
  <2>3. LET v == [w EXCEPT !.tid = openId[w.sym]]
        IN  v.caller = w.caller /\ v.sym = w.sym /\ v.side = w.side /\ v.dec = w.dec
    BY <1>0 DEF Work
  <2>4. Control'
    BY <1>0, <1>1, <1>2, <2>1, <2>2, <2>3, StepTypes
  <2> QED BY <1>0, <1>9, <2>4 DEF FindTrade, Rest, account, redis, history
<1>10. CASE Unindex(a)
  <2>1. PICK l \in {"remove", "log"} : Goto(a, l)
    BY <1>10 DEF Unindex, Told
  <2>2. Control' /\ 0 \in 0..MaxDecisions
    BY <1>3, <2>1, LiveAssumption
  <2> QED BY <1>0, <1>10, <2>2 DEF Unindex, Rest, account, history
<1>11. CASE LogClose(a)
  BY <1>0, <1>3, <1>11 DEF LogClose, Rest, account, history
<1>12. CASE RemovePosition(a)
  BY <1>0, <1>3, <1>12, Nulls DEF RemovePosition, Without, Rest, account, history
<1>13. CASE AddRealized(a)
  <2>1. counted' \in [Ids -> Nat]
    BY <1>0, <1>13 DEF AddRealized, Rest
  <2> QED BY <1>0, <1>4, <1>13, <2>1 DEF AddRealized, Rest, account, redis
<1> QED BY <1>6, <1>7, <1>8, <1>9, <1>10, <1>11, <1>12, <1>13 DEF Close

(* What an adoption writes are positions.                                  *)
LEMMA StartupTypes ==
  ASSUME Types, NEW ok \in BOOLEAN, StartupReconcile(ok)
  PROVE  /\ positions' \in [Symbols -> Position] /\ retry' \in BOOLEAN
         /\ young' \in SUBSET Symbols /\ mishaps' \in 0..MaxMishaps
<1>0. Rest
  BY TypesParts
<1>1. CASE positions # NoBook
  BY <1>0, <1>1 DEF StartupReconcile, Rest
<1>2. CASE positions = NoBook /\ ~ok
  BY <1>0, <1>2, MishapType DEF StartupReconcile, Rest
<1>3. CASE positions = NoBook /\ ok
  <2>1. ASSUME NEW o \in Options PROVE Adopted(o) \in Position
    <3>1. Abs(shown[o]) \in Nat
      BY <1>0 DEF Rest, Abs
    <3> QED BY <3>1, LiveAssumption DEF Adopted, Position, Qty, Sides
  <2>2. positions' \in Books
    BY <1>3 DEF StartupReconcile
  <2>3. positions' \in [Symbols -> {NoPos} \cup {Adopted(o) : o \in Options}]
    BY <2>2 DEF Books
  <2>4. {NoPos} \cup {Adopted(o) : o \in Options} \subseteq Position
    BY <2>1, Nulls
  <2>5. positions' \in [Symbols -> Position]
    BY <2>3, <2>4
  <2> QED BY <1>0, <1>3, <2>5 DEF StartupReconcile, Rest
<1> QED BY <1>1, <1>2, <1>3

(* Steps of the watcher.                                                   *)
LEMMA WatchTypes == Types /\ Watch => Types'
<1> SUFFICES ASSUME Types, Watch PROVE Control' /\ Rest'
  BY DEF Types, TypeOK, Control, Rest
<1> DEFINE w == work[Consumer]
<1>0. Rest /\ Control /\ Consumer \in Actors /\ w \in Work
  BY TypesParts, Nulls DEF Control
<1>1. ASSUME NEW l \in Idling, pc[Consumer] \in Idling, Goto(Consumer, l) PROVE Control'
  <2>1. l \in Labels
    BY DEF Idling, Labels
  <2> QED BY <1>0, <1>1, <2>1, StepTypes DEF Goto
<1>2. \A l \in {"idle", "watch", "recon_read", "fetch", "recon", "retry"} : l \in Idling
  BY DEF Idling
<1>3. ASSUME NEW s \in Symbols, NEW c \in {"watch", "recon"}, NEW l \in {"close", "ext"},
             Step(Consumer, l, [NoWork EXCEPT !.sym = s, !.caller = c])
      PROVE  Control'
  <2>1. [NoWork EXCEPT !.sym = s, !.caller = c] \in Work
        /\ [NoWork EXCEPT !.sym = s, !.caller = c].caller = c
        /\ [NoWork EXCEPT !.sym = s, !.caller = c].sym = s
    BY Nulls DEF Work, NoWork
  <2>2. pc' \in [Actors -> Labels] /\ work' \in [Actors -> Work]
    BY <1>0, <1>3, <2>1 DEF Control, Step, Labels
  <2>3. /\ pc'[Consumer] = l /\ work'[Consumer].caller = c /\ work'[Consumer].sym = s
        /\ \A r \in Requests : pc'[r] = pc[r] /\ work'[r] = work[r]
    BY <1>0, <1>3, <2>1, LiveAssumption, Nulls DEF Control, Step
  <2> QED BY <1>0, <2>2, <2>3 DEF Control, Callers, Closing, Opening
<1>4. CASE WatchStart
  BY <1>0, <1>1, <1>2, <1>4 DEF WatchStart, Enter, Rest, account, redis
<1>5. ASSUME NEW s \in Symbols, WatchKeep(s) PROVE Control' /\ Rest'
  <2>1. todo' = [todo EXCEPT ![s] = NoPos] /\ UNCHANGED <<pc, work>>
    BY <1>5 DEF WatchKeep, Visited
  <2>2. Control'
    BY <1>0, <2>1 DEF Control, Callers
  <2>3. todo' \in [Symbols -> Position] /\ positions' \in [Symbols -> Position]
    BY <1>0, <1>5, <2>1, Nulls DEF WatchKeep, Rest
  <2> QED BY <1>0, <1>5, <2>2, <2>3 DEF WatchKeep, Rest, account, history
<1>6. ASSUME NEW s \in Symbols, WatchExit(s) \/ ReconcileClose(s) PROVE Control' /\ Rest'
  <2>1. Control' /\ todo' = [todo EXCEPT ![s] = NoPos]
    BY <1>3, <1>6 DEF WatchExit, ReconcileClose, Visited
  <2> QED BY <1>0, <1>6, <2>1, Nulls DEF WatchExit, ReconcileClose, Rest, account, redis, history
<1>7. ASSUME NEW due \in BOOLEAN, WatchEnd(due) PROVE Control' /\ Rest'
  BY <1>0, <1>1, <1>2, <1>7 DEF WatchEnd, Rest, account, redis, history
<1>8. CASE ReconcileRead
  BY <1>0, <1>1, <1>2, <1>8 DEF ReconcileRead, Rest, account, redis, history
<1>9. CASE ReconcileEnd
  BY <1>0, <1>1, <1>2, <1>9 DEF ReconcileEnd, Rest, account, redis, history
<1>10. ASSUME NEW ok \in BOOLEAN, ReconcileFetch(ok) PROVE Control' /\ Rest'
  <2>1. Control'
    BY <1>1, <1>2, <1>10 DEF ReconcileFetch
  <2>2. todo' \in [Symbols -> Position]
    BY <1>0, <1>10, Nulls DEF ReconcileFetch, Rest
  <2> QED BY <1>0, <1>10, <2>1, <2>2 DEF ReconcileFetch, Rest, account, redis, history
<1>11. ASSUME NEW ok \in BOOLEAN, Retry(ok) PROVE Control' /\ Rest'
  <2>1. Control'
    BY <1>1, <1>2, <1>11 DEF Retry
  <2>2. /\ positions' \in [Symbols -> Position] /\ retry' \in BOOLEAN
        /\ young' \in SUBSET Symbols /\ mishaps' \in 0..MaxMishaps
    BY <1>0, <1>11, StartupTypes DEF Retry, Rest
  <2> QED BY <1>0, <1>11, <2>1, <2>2 DEF Retry, Rest, account
<1> QED BY <1>4, <1>5, <1>6, <1>7, <1>8, <1>9, <1>10, <1>11 DEF Watch

(* Decisions, manual closes, crashes and restarts.                         *)
LEMMA OtherTypes ==
  ASSUME Types,
         \/ \E s \in Symbols, side \in Sides : Decide(s, side)
         \/ \E r \in Requests, s \in Symbols : ManualClose(r, s)
         \/ Crash \/ \E ok \in BOOLEAN : Restart(ok)
  PROVE  Types'
<1> SUFFICES Control' /\ Rest'
  BY DEF Types, TypeOK, Control, Rest
<1>0. Rest /\ Control /\ Consumer \in Actors
  BY TypesParts, Nulls
<1>1. ASSUME NEW s \in Symbols, NEW side \in Sides, Decide(s, side) PROVE Control' /\ Rest'
  <2> DEFINE v == [NoWork EXCEPT !.sym = s, !.side = side, !.dec = nextDec]
             u == [v EXCEPT !.caller = "flip"]
  <2>1. nextDec \in Ids /\ nextDec' = nextDec + 1 /\ nextDec \in 0..MaxDecisions
    <3>1. nextDec <= MaxDecisions /\ nextDec' = nextDec + 1
      BY <1>1 DEF Decide
    <3>2. nextDec \in 1..(MaxDecisions + 1)
      BY <1>0 DEF Rest
    <3> QED BY <3>1, <3>2, LiveAssumption DEF Ids
  <2>2. /\ v \in Work /\ v.sym = s /\ v.side = side /\ v.dec = nextDec
        /\ u \in Work /\ u.sym = s /\ u.side = side /\ u.dec = nextDec
        /\ u.caller = "flip"
    <3>1. v \in Work /\ v.sym = s /\ v.side = side /\ v.dec = nextDec
      BY <2>1, Nulls DEF Work, NoWork
    <3> HIDE DEF v
    <3> QED BY <3>1 DEF Work
  <2>3. PICK l \in {"gate", "close"}, x \in {u, v} :
          Step(Consumer, l, x) /\ (l = "close" => x = u)
    BY <1>1 DEF Decide
  <2> HIDE DEF v, u
  <2>4. pc' \in [Actors -> Labels] /\ work' \in [Actors -> Work]
    BY <1>0, <2>2, <2>3 DEF Control, Step, Labels
  <2>5. /\ pc'[Consumer] = l /\ work'[Consumer] = x
        /\ \A r \in Requests : pc'[r] = pc[r] /\ work'[r] = work[r]
    BY <1>0, <2>3, LiveAssumption, Nulls DEF Control, Step
  <2>6. Control'
    BY <1>0, <2>1, <2>2, <2>3, <2>4, <2>5 DEF Control, Callers, Closing, Opening
  <2>7. nextDec' \in 1..(MaxDecisions + 1)
    BY <2>1, LiveAssumption DEF Ids
  <2> QED BY <1>0, <1>1, <2>6, <2>7 DEF Decide, Enter, Rest, account, redis
<1>2. ASSUME NEW r \in Requests, NEW s \in Symbols, ManualClose(r, s) PROVE Control' /\ Rest'
  <2> DEFINE v == [NoWork EXCEPT !.sym = s, !.caller = "manual"]
  <2>1. v \in Work /\ v.sym = s /\ v.caller = "manual" /\ Step(r, "close", v) /\ r \in Actors
    BY <1>2, Nulls DEF ManualClose, Work, NoWork
  <2> HIDE DEF v
  <2>2. pc' \in [Actors -> Labels] /\ work' \in [Actors -> Work]
    BY <1>0, <2>1 DEF Control, Step, Labels
  <2>3. pc'[r] = "close" /\ work'[r] = v /\ \A b \in Actors \ {r} : pc'[b] = pc[b] /\ work'[b] = work[b]
    BY <1>0, <2>1 DEF Control, Step
  <2>4. Control'
    BY <1>0, <2>1, <2>2, <2>3, LiveAssumption, Nulls DEF Control, Callers, Closing
  <2> QED BY <1>0, <1>2, <2>4 DEF ManualClose, Enter, Rest, account, redis
<1>3. CASE Crash
  <2>1. pc' \in [Actors -> Labels] /\ work' \in [Actors -> Work]
    BY <1>0, <1>3, Nulls DEF Crash, Control, Labels
  <2>2. /\ pc'[Consumer] = "idle" /\ \A r \in Requests : pc'[r] \in {"idle", "done"}
        /\ work'[Consumer].caller = "NONE"
    BY <1>0, <1>3, Nulls, LiveAssumption DEF Crash, Control, Busy, NoWork
  <2>3. Control'
    BY <2>1, <2>2 DEF Control, Callers, Closing, Opening, Idling
  <2>4. crashes' \in 0..MaxMishaps
    BY <1>0, <1>3, LiveAssumption DEF Crash, Rest
  <2> QED BY <1>0, <1>3, <2>3, <2>4, Nulls DEF Crash, Rest, account, redis
<1>4. ASSUME NEW ok \in BOOLEAN, Restart(ok) PROVE Control' /\ Rest'
  <2>1. Control'
    BY <1>0, <1>4 DEF Restart, Control, Callers
  <2>2. /\ positions' \in [Symbols -> Position] /\ retry' \in BOOLEAN
        /\ young' \in SUBSET Symbols /\ mishaps' \in 0..MaxMishaps
    BY <1>4, StartupTypes DEF Restart
  <2> QED BY <1>0, <1>4, <2>1, <2>2 DEF Restart, Rest, account
<1> QED BY <1>1, <1>2, <1>3, <1>4

(* Types is inductive.                                                     *)
LEMMA TypesStep == Types /\ [Next]_vars => Types'
<1>1. Types /\ UNCHANGED vars => Types'
  BY DEF Types, TypeOK, Callers, vars, account, redis, control, history
<1> QED BY <1>1, ExchangeTypes, OpenTypes, CloseTypes, WatchTypes, OtherTypes DEF Next

(* Every variable keeps its type, and no handler goes on without a symbol  *)
(* (live_broker.py, main.py).                                              *)
THEOREM TypeCorrect == Spec => []TypeOK
<1>1. Types => TypeOK
  BY DEF Types
<1> QED BY <1>1, TypesInit, TypesStep, PTL DEF Spec

-----------------------------------------------------------------------------
(* One handler at a time.                                                  *)

Holding == {"sell", "sold", "find", "unindex", "log", "remove"}

(* The consumer's symbol, and the position it is about to open.            *)
OpenSym == work[Consumer].sym
Opened  == [dec |-> work[Consumer].dec, side |-> work[Consumer].side,
            opt |-> <<OpenSym, work[Consumer].side>>, qty |-> 1]

(* Nothing runs in a stopped service; a loop's plan is kept while it calls *)
(* a close, and the symbol it calls it for is off the plan.                *)
Downed   == ~up => todo = NoBook /\ \A a \in Actors : ~Busy(a)
Planned  == todo # NoBook =>
              \/ pc[Consumer] \in {"watch", "fetch", "recon"}
              \/ pc[Consumer] \in Closing /\ work[Consumer].caller \in {"watch", "recon"}
Visiting == pc[Consumer] \in Closing => todo[OpenSym] = NoPos

(* One handler is under way; the position it closes, and those its loop    *)
(* has still to visit, are the ones in Redis; it opens on a free symbol.   *)
Sole    == \A a, b \in Actors : Busy(a) /\ Busy(b) => a = b
Held(a) == pc[a] \in Holding => positions[work[a].sym] = work[a].pos /\ work[a].pos # NoPos
Free    == /\ pc[Consumer] \in {"buy", "await", "record"} => positions[OpenSym] = NoPos
           /\ pc[Consumer] = "index" => positions[OpenSym] = Opened
Seen    == \A s \in Symbols : todo[s] # NoPos => todo[s] = positions[s]

SoleInv == /\ Downed /\ Planned /\ Visiting
           /\ ~overlap => Sole /\ Free /\ Seen /\ \A a \in Actors : Held(a)

(* SoleInv reads nothing but these.                                        *)
LEMMA SoleSame == SoleInv /\ UNCHANGED <<positions, up, pc, work, todo, overlap>> => SoleInv'
  BY DEF SoleInv, Downed, Planned, Visiting, Sole, Held, Free, Seen, Busy, OpenSym, Opened

(* A closing handler at its next label.                                    *)
LEMMA SoleMoves ==
  ASSUME Types, SoleInv, NEW a \in Actors, NEW l \in Closing \ {"ext"}, pc[a] \in Closing,
         pc' = [pc EXCEPT ![a] = l],
         work'[a].sym = work[a].sym, work'[a].caller = work[a].caller,
         \A b \in Actors \ {a} : work'[b] = work[b],
         UNCHANGED <<up, todo, overlap>>,
         ~overlap => \A s \in Symbols \ {work[a].sym} : positions'[s] = positions[s],
         ~overlap /\ l \in Holding => positions'[work[a].sym] = work'[a].pos /\ work'[a].pos # NoPos
  PROVE  SoleInv'
<1>1. /\ pc \in [Actors -> Labels] /\ work \in [Actors -> Work] /\ Consumer \notin Requests
      /\ todo \in [Symbols -> Position] /\ work[a].sym \in Symbols
  BY LiveAssumption DEF Types, TypeOK, Callers, Actors
<1>2. pc'[a] = l /\ \A b \in Actors \ {a} : pc'[b] = pc[b]
  BY <1>1
<1>3. Busy(a) /\ Busy(a)' /\ \A b \in Actors \ {a} : Busy(b)' = Busy(b)
  BY <1>2 DEF Busy, Closing
<1>4. Downed'
  BY <1>3, Nulls DEF SoleInv, Downed
<1>5. Planned'
  BY <1>2, Nulls DEF SoleInv, Planned, Closing
<1>6. Visiting'
  BY <1>2, Nulls DEF SoleInv, Visiting, OpenSym
<1>7. ASSUME ~overlap PROVE Sole' /\ Free' /\ Seen' /\ \A b \in Actors : Held(b)'
  <2>1. Sole /\ Seen /\ \A b \in Actors \ {a} : ~Busy(b)
    BY <1>3, <1>7 DEF SoleInv, Sole
  <2>2. Sole' /\ \A b \in Actors \ {a} : ~Busy(b)'
    BY <1>3, <2>1 DEF Sole
  <2>3. \A b \in Actors \ {a} : Held(b)'
    BY <2>2 DEF Held, Holding, Busy
  <2>4. Held(a)'
    BY <1>2, <1>7 DEF Held
  <2>5. pc'[Consumer] \notin {"buy", "await", "record", "index"}
    BY <1>2, <2>2, Nulls DEF Busy, Closing
  <2>6. Seen'
    <3>1. CASE a = Consumer
      <4>1. todo[work[a].sym] = NoPos
        BY <3>1 DEF SoleInv, Visiting, OpenSym
      <4> QED BY <1>7, <2>1, <4>1 DEF Seen
    <3>2. CASE a # Consumer
      <4>1. pc[Consumer] \in {"idle", "done"}
        BY <2>1, <3>2, Nulls DEF Busy
      <4>2. todo = NoBook
        BY <4>1 DEF SoleInv, Planned, Closing
      <4> QED BY <4>2 DEF Seen, NoBook
    <3> QED BY <3>1, <3>2
  <2> QED BY <2>2, <2>3, <2>4, <2>5, <2>6 DEF Free
<1> QED BY <1>4, <1>5, <1>6, <1>7 DEF SoleInv

(* A close that is over.                                                   *)
LEMMA SoleReturns ==
  ASSUME Types, SoleInv, NEW a \in Actors, pc[a] \in Closing, Returned(a),
         UNCHANGED <<positions, up, todo, overlap>>
  PROVE  SoleInv'
<1>1. /\ pc \in [Actors -> Labels] /\ work \in [Actors -> Work] /\ Consumer \notin Requests
      /\ work[a].sym \in Symbols /\ Busy(a)
  BY LiveAssumption DEF Types, TypeOK, Callers, Actors, Busy, Closing
<1>2. /\ pc'[a] \in {"gate", "watch", "recon", "done"} /\ (pc'[a] = "done" <=> a # Consumer)
      /\ pc'[a] = "gate" => work[a].caller = "flip"
      /\ \A b \in Actors \ {a} : pc'[b] = pc[b] /\ work'[b] = work[b]
  BY <1>1, Nulls DEF Returned
<1>3. up
  BY <1>1 DEF SoleInv, Downed
<1>4. Downed'
  BY <1>3 DEF Downed
<1>5. Planned'
  <2>1. CASE a = Consumer
    <3>1. /\ pc'[Consumer] \in {"gate", "watch", "recon"}
          /\ pc'[Consumer] = "gate" => work[Consumer].caller = "flip"
      BY <1>2, <2>1
    <3>2. pc[Consumer] \in Closing /\ pc[Consumer] \notin {"watch", "fetch", "recon"}
      BY <2>1 DEF Closing
    <3>3. todo # NoBook => work[Consumer].caller \in {"watch", "recon"}
      BY <3>2 DEF SoleInv, Planned
    <3> QED BY <3>1, <3>3 DEF Planned
  <2>2. CASE a # Consumer
    <3>1. pc'[Consumer] = pc[Consumer] /\ work'[Consumer] = work[Consumer]
      BY <1>2, <2>2, Nulls
    <3> QED BY <3>1 DEF SoleInv, Planned
  <2> QED BY <2>1, <2>2
<1>6. Visiting'
  BY <1>2, Nulls DEF SoleInv, Visiting, OpenSym, Closing
<1>7. ASSUME ~overlap PROVE Sole' /\ Free' /\ Seen' /\ \A b \in Actors : Held(b)'
  <2>1. Sole /\ Seen /\ \A b \in Actors \ {a} : ~Busy(b)
    BY <1>1, <1>7 DEF SoleInv, Sole
  <2>2. \A b \in Actors \ {a} : ~Busy(b)'
    BY <1>2, <2>1 DEF Busy
  <2>3. \A b \in Actors : Held(b)'
    BY <1>2, <2>2 DEF Held, Holding, Busy
  <2>4. pc'[Consumer] \notin {"buy", "await", "record", "index"}
    BY <1>2, <2>2, Nulls DEF Busy
  <2> QED BY <2>1, <2>2, <2>3, <2>4 DEF Sole, Free, Seen
<1> QED BY <1>4, <1>5, <1>6, <1>7 DEF SoleInv

(* Steps of open_position.                                                 *)
LEMMA SoleOpen == Types /\ SoleInv /\ Open => SoleInv'
<1> SUFFICES ASSUME Types, SoleInv, Open PROVE SoleInv'
  OBVIOUS
<1>1. /\ pc \in [Actors -> Labels] /\ work \in [Actors -> Work] /\ Consumer \in Actors
      /\ positions \in [Symbols -> Position]
      /\ UNCHANGED <<up, todo, overlap>> /\ pc[Consumer] \in Opening
  BY Nulls DEF Types, TypeOK, Open, OpenGate, PlaceBuy, AwaitBuy, RecordOpen, IndexOpen, Opening,
     history
<1>2. Busy(Consumer) /\ OpenSym \in Symbols
  BY <1>1 DEF Busy, Opening, Types, Callers, OpenSym
<1>3. up /\ todo = NoBook
  BY <1>1, <1>2 DEF SoleInv, Downed, Planned, Opening, Closing
<1>4. /\ \A b \in Actors \ {Consumer} : pc'[b] = pc[b] /\ work'[b] = work[b]
      /\ pc'[Consumer] \in {"buy", "await", "record", "index", "idle"}
  BY <1>1 DEF Open, OpenGate, PlaceBuy, AwaitBuy, RecordOpen, IndexOpen, Goto, Finish, Step
<1>5. Downed' /\ Planned' /\ Visiting'
  BY <1>1, <1>3, <1>4 DEF Downed, Planned, Visiting, Closing
<1>6. ASSUME ~overlap PROVE Sole' /\ Free' /\ Seen' /\ \A b \in Actors : Held(b)'
  <2>1. Sole /\ Free /\ \A b \in Actors \ {Consumer} : ~Busy(b)
    BY <1>1, <1>2, <1>6 DEF SoleInv, Sole
  <2>2. \A b \in Actors \ {Consumer} : ~Busy(b)'
    BY <1>4, <2>1 DEF Busy
  <2>3. Sole' /\ Seen' /\ \A b \in Actors : Held(b)'
    BY <1>1, <1>3, <1>4, <2>2 DEF Sole, Seen, Held, Holding, Busy, NoBook
  <2>4. Free'
    <3>1. ASSUME NEW funds \in BOOLEAN, OpenGate(funds) PROVE Free'
      BY <1>1, <3>1 DEF OpenGate, Goto, Finish, Step, Free, OpenSym
    <3>2. ASSUME NEW reply \in Replies, PlaceBuy(reply) PROVE Free'
      <4>1. positions' = positions /\ positions[OpenSym] = NoPos
        BY <2>1, <3>2 DEF PlaceBuy, Free
      <4>2. CASE reply = "ok"
        <5>1. pc'[Consumer] = "await"
              /\ work'[Consumer] = [work[Consumer] EXCEPT !.ord = placed + 1]
          BY <1>1, <3>2, <4>2 DEF PlaceBuy, Step
        <5>2. work'[Consumer].sym = work[Consumer].sym
          BY <1>1, <5>1 DEF Work
        <5> QED BY <4>1, <5>1, <5>2 DEF Free, OpenSym
      <4>3. CASE reply # "ok"
        BY <1>1, <3>2, <4>3 DEF PlaceBuy, Finish, Step, Free
      <4> QED BY <4>2, <4>3
    <3>3. ASSUME NEW seen \in Fills, AwaitBuy(seen) PROVE Free'
      BY <1>1, <2>1, <3>3 DEF AwaitBuy, Goto, Finish, Step, Free, OpenSym
    <3>4. CASE RecordOpen
      <4>1. work' = work /\ pc'[Consumer] = "index" /\ positions' = [positions EXCEPT ![OpenSym] = Opened]
        BY <1>1, <3>4 DEF RecordOpen, Goto, Step, OpenSym, Opened
      <4>2. positions'[OpenSym] = Opened
        BY <1>1, <1>2, <4>1
      <4> QED BY <4>1, <4>2 DEF Free, OpenSym, Opened
    <3>5. CASE IndexOpen
      BY <1>1, <3>5 DEF IndexOpen, Finish, Step, Free
    <3> QED BY <3>1, <3>2, <3>3, <3>4, <3>5 DEF Open
  <2> QED BY <2>3, <2>4
<1> QED BY <1>1, <1>5, <1>6 DEF SoleInv

(* Steps of a close.                                                       *)
LEMMA SoleClose == ASSUME Types, SoleInv, NEW a \in Actors, Close(a) PROVE SoleInv'
<1> DEFINE w == work[a]
<1>1. /\ pc \in [Actors -> Labels] /\ work \in [Actors -> Work] /\ w \in Work
      /\ positions \in [Symbols -> Position]
      /\ UNCHANGED <<up, todo, overlap>> /\ pc[a] \in Closing
  BY DEF Types, TypeOK, Close, ReadPosition, PlaceSell, AwaitSell, FindTrade, Unindex, LogClose,
     RemovePosition, AddRealized, Closing, history
<1>2. w.sym \in Symbols
  BY <1>1 DEF Types, Callers, Actors
<1>3. ~overlap => Held(a)
  BY DEF SoleInv
<1>4. ASSUME NEW l \in {"sell", "sold", "find", "unindex", "log", "remove", "total"},
             pc' = [pc EXCEPT ![a] = l], positions' = positions,
             NEW v, work' = [work EXCEPT ![a] = v], v.sym = w.sym, v.caller = w.caller,
             l \in Holding => \/ v.pos = positions[w.sym] /\ v.pos # NoPos
                              \/ v.pos = w.pos /\ pc[a] \in Holding
      PROVE  SoleInv'
  <2>1. l \in Closing \ {"ext"}
    BY DEF Closing
  <2>2. work'[a] = v /\ \A b \in Actors \ {a} : work'[b] = work[b]
    BY <1>1, <1>4
  <2>3. ~overlap /\ l \in Holding => positions'[w.sym] = work'[a].pos /\ work'[a].pos # NoPos
    BY <1>3, <1>4, <2>2 DEF Held
  <2> QED BY <1>1, <1>4, <2>1, <2>2, <2>3, SoleMoves
<1>5. ASSUME NEW l \in {"find", "log", "remove"}, Goto(a, l), positions' = positions, pc[a] \in Holding
      PROVE  SoleInv'
  BY <1>4, <1>5 DEF Goto, Step
<1>6. ASSUME AfterClose(a), positions' = positions PROVE SoleInv'
  BY <1>1, <1>6, CloseReturns, SoleReturns
<1>7. CASE ReadPosition(a)
  <2>1. CASE positions[w.sym] = NoPos
    BY <1>6, <1>7, <2>1 DEF ReadPosition, redis
  <2>2. CASE positions[w.sym] # NoPos
    <3>1. PICK l \in {"sell", "find"} : Step(a, l, [w EXCEPT !.pos = positions[w.sym]])
      BY <1>7, <2>2 DEF ReadPosition
    <3>2. LET v == [w EXCEPT !.pos = positions[w.sym]]
          IN  v.caller = w.caller /\ v.sym = w.sym /\ v.pos = positions[w.sym]
      BY <1>1 DEF Work
    <3>3. positions' = positions
      BY <1>7 DEF ReadPosition, redis
    <3> QED BY <1>4, <2>2, <3>1, <3>2, <3>3 DEF Step
  <2> QED BY <2>1, <2>2
<1>8. ASSUME NEW reply \in Replies, PlaceSell(a, reply) PROVE SoleInv'
  <2>1. positions' = positions /\ pc[a] = "sell"
    BY <1>8 DEF PlaceSell, redis
  <2>2. CASE reply = "ok"
    <3>1. Step(a, "sold", [w EXCEPT !.ord = placed + 1])
      BY <1>8, <2>2 DEF PlaceSell
    <3>2. LET v == [w EXCEPT !.ord = placed + 1]
          IN  v.caller = w.caller /\ v.sym = w.sym /\ v.pos = w.pos
      BY <1>1 DEF Work
    <3> QED BY <1>4, <2>1, <3>1, <3>2 DEF Step, Holding
  <2>3. CASE reply # "ok"
    BY <1>6, <1>8, <2>1, <2>3 DEF PlaceSell
  <2> QED BY <2>2, <2>3
<1>9. ASSUME NEW seen \in Fills, AwaitSell(a, seen) PROVE SoleInv'
  BY <1>5, <1>9 DEF AwaitSell, redis, Holding
<1>10. CASE FindTrade(a)
  <2>1. Step(a, "unindex", [w EXCEPT !.tid = openId[w.sym]]) /\ pc[a] = "find"
    BY <1>10 DEF FindTrade
  <2>2. LET v == [w EXCEPT !.tid = openId[w.sym]]
        IN  v.caller = w.caller /\ v.sym = w.sym /\ v.pos = w.pos
    BY <1>1 DEF Work
  <2>3. positions' = positions
    BY <1>10 DEF FindTrade, redis
  <2> QED BY <1>4, <2>1, <2>2, <2>3 DEF Step, Holding
<1>11. CASE Unindex(a)
  <2>1. PICK l \in {"remove", "log"} : Goto(a, l)
    BY <1>11 DEF Unindex, Told
  <2> QED BY <1>5, <1>11, <2>1 DEF Unindex, Holding
<1>12. CASE LogClose(a)
  BY <1>5, <1>12 DEF LogClose, Holding
<1>13. CASE RemovePosition(a)
  <2>1. /\ pc' = [pc EXCEPT ![a] = "total"] /\ work' = [work EXCEPT ![a] = w]
        /\ positions' = [positions EXCEPT ![w.sym] = NoPos]
    BY <1>13 DEF RemovePosition, Without, Goto, Step
  <2>2. work'[a] = w /\ \A b \in Actors \ {a} : work'[b] = work[b]
    BY <1>1, <2>1
  <2>3. \A s \in Symbols \ {w.sym} : positions'[s] = positions[s]
    BY <1>1, <2>1
  <2>4. "total" \in Closing \ {"ext"} /\ "total" \notin Holding
    BY DEF Closing, Holding
  <2> QED BY <1>1, <2>1, <2>2, <2>3, <2>4, SoleMoves
<1>14. CASE AddRealized(a)
  BY <1>6, <1>14 DEF AddRealized, redis
<1> QED BY <1>7, <1>8, <1>9, <1>10, <1>11, <1>12, <1>13, <1>14 DEF Close

(* The consumer's loops: as long as no handler has met another, writing    *)
(* back a copy from the plan changes nothing.                              *)
LEMMA WatchKeeps ==
  ASSUME Types, SoleInv, NEW s \in Symbols, WatchKeep(s), ~overlap PROVE positions' = positions
<1>1. todo[s] = positions[s] /\ positions \in [Symbols -> Position]
  BY DEF SoleInv, Seen, WatchKeep, Visited, Types, TypeOK
<1>2. [positions EXCEPT ![s] = todo[s]] = positions
  BY <1>1
<1> QED BY <1>2 DEF WatchKeep

LEMMA SoleWatch == Types /\ SoleInv /\ Watch => SoleInv'
<1> SUFFICES ASSUME Types, SoleInv, Watch PROVE SoleInv'
  OBVIOUS
<1>1. /\ pc \in [Actors -> Labels] /\ work \in [Actors -> Work] /\ Consumer \in Actors
      /\ positions \in [Symbols -> Position] /\ todo \in [Symbols -> Position]
      /\ up' = up /\ pc[Consumer] \in Idling
  BY Nulls DEF Types, TypeOK, Watch, WatchStart, WatchKeep, WatchExit, ReconcileClose, WatchEnd,
     ReconcileRead, ReconcileEnd, ReconcileFetch, Retry, Visited, Idling
<1>2. pc[Consumer] # "idle" => up /\ Busy(Consumer)
  BY <1>1 DEF SoleInv, Downed, Busy, Idling
<1>3. ASSUME up, \A b \in Actors \ {Consumer} : pc'[b] = pc[b] /\ work'[b] = work[b],
             pc'[Consumer] \in Idling,
             todo' # NoBook => pc'[Consumer] \in {"watch", "fetch", "recon"},
             ~overlap' => /\ \A b \in Actors \ {Consumer} : ~Busy(b)
                          /\ \A s \in Symbols : todo'[s] # NoPos => todo'[s] = positions'[s]
      PROVE  SoleInv'
  <2>1. Downed' /\ Planned' /\ Visiting'
    BY <1>1, <1>3 DEF Downed, Planned, Visiting, Idling, Closing
  <2>2. ASSUME ~overlap' PROVE Sole' /\ Free' /\ Seen' /\ \A b \in Actors : Held(b)'
    <3>1. \A b \in Actors \ {Consumer} : ~Busy(b)'
      BY <1>3, <2>2 DEF Busy
    <3> QED BY <1>3, <2>2, <3>1 DEF Sole, Free, Seen, Held, Holding, Idling, Busy
  <2> QED BY <2>1, <2>2 DEF SoleInv
<1>4. ~overlap /\ pc[Consumer] # "idle" => \A b \in Actors \ {Consumer} : ~Busy(b)
  BY <1>1, <1>2 DEF SoleInv, Sole
<1>5. \A l \in {"idle", "watch", "recon_read", "fetch", "recon", "retry"} : l \in Idling
  BY DEF Idling
<1>6. ASSUME NEW l \in Idling, Goto(Consumer, l)
      PROVE  pc'[Consumer] = l /\ \A b \in Actors \ {Consumer} : pc'[b] = pc[b] /\ work'[b] = work[b]
  BY <1>1, <1>6 DEF Goto, Step
<1>7. CASE WatchStart
  <2>1. todo' = positions /\ positions' = positions /\ up /\ Goto(Consumer, "watch")
    BY <1>7 DEF WatchStart, redis
  <2>2. ~overlap' => \A b \in Actors \ {Consumer} : ~Busy(b)
    BY <1>7 DEF WatchStart, Enter
  <2> QED BY <1>3, <1>5, <1>6, <2>1, <2>2
<1>8. ASSUME NEW s \in Symbols, WatchKeep(s) PROVE SoleInv'
  <2>1. todo' = [todo EXCEPT ![s] = NoPos] /\ UNCHANGED <<pc, work, overlap>> /\ pc[Consumer] = "watch"
    BY <1>8 DEF WatchKeep, Visited, history
  <2>2. ~overlap => \A t \in Symbols : todo'[t] # NoPos => todo'[t] = positions'[t]
    BY <1>1, <1>8, <2>1, WatchKeeps DEF SoleInv, Seen
  <2> QED BY <1>2, <1>3, <1>4, <1>5, <2>1, <2>2
<1>9. ASSUME NEW s \in Symbols, WatchExit(s) \/ ReconcileClose(s) PROVE SoleInv'
  <2>1. PICK l \in {"close", "ext"}, c \in {"watch", "recon"} :
          Step(Consumer, l, [NoWork EXCEPT !.sym = s, !.caller = c])
    BY <1>9 DEF WatchExit, ReconcileClose
  <2>2. /\ todo' = [todo EXCEPT ![s] = NoPos] /\ UNCHANGED <<positions, overlap>>
        /\ pc[Consumer] \in {"watch", "recon"}
    BY <1>9 DEF WatchExit, ReconcileClose, Visited, redis, history
  <2>3. /\ pc'[Consumer] = l /\ work'[Consumer].sym = s /\ work'[Consumer].caller = c
        /\ \A b \in Actors \ {Consumer} : pc'[b] = pc[b]
    BY <1>1, <2>1 DEF Step, NoWork
  <2>4. Downed' /\ Planned' /\ Visiting'
    BY <1>1, <1>2, <2>2, <2>3 DEF Downed, Planned, Visiting, Closing, OpenSym
  <2>5. ASSUME ~overlap PROVE Sole' /\ Free' /\ Seen' /\ \A b \in Actors : Held(b)'
    <3>1. \A b \in Actors \ {Consumer} : ~Busy(b)'
      BY <1>4, <2>2, <2>3, <2>5 DEF Busy
    <3>2. Seen'
      BY <1>1, <2>2, <2>5 DEF SoleInv, Seen
    <3> QED BY <2>3, <3>1, <3>2 DEF Sole, Free, Held, Holding, Busy
  <2> QED BY <2>2, <2>4, <2>5 DEF SoleInv
<1>10. ASSUME NEW due \in BOOLEAN, WatchEnd(due) PROVE SoleInv'
  <2>1. /\ UNCHANGED <<positions, todo, overlap>> /\ pc[Consumer] = "watch" /\ todo = NoBook
        /\ Goto(Consumer, IF due THEN "recon_read" ELSE "idle")
    BY <1>10 DEF WatchEnd, redis, history
  <2>2. \A s \in Symbols : todo'[s] = NoPos
    BY <2>1 DEF NoBook
  <2>3. (IF due THEN "recon_read" ELSE "idle") \in Idling
    BY <1>5
  <2> QED BY <1>2, <1>3, <1>4, <1>6, <2>1, <2>2, <2>3
<1>11. CASE ReconcileRead
  <2>1. /\ UNCHANGED <<positions, overlap>> /\ pc[Consumer] = "recon_read" /\ todo' = positions
        /\ Goto(Consumer, IF positions = NoBook THEN "retry" ELSE "fetch")
    BY <1>11 DEF ReconcileRead, redis, history
  <2>2. (IF positions = NoBook THEN "retry" ELSE "fetch") \in Idling
    BY <1>5
  <2> QED BY <1>2, <1>3, <1>4, <1>6, <2>1, <2>2
<1>12. CASE ReconcileEnd
  <2>1. /\ UNCHANGED <<positions, todo, overlap>> /\ pc[Consumer] = "recon" /\ todo = NoBook
        /\ Goto(Consumer, "retry")
    BY <1>12 DEF ReconcileEnd, redis, history
  <2>2. \A s \in Symbols : todo'[s] = NoPos
    BY <2>1 DEF NoBook
  <2> QED BY <1>2, <1>3, <1>4, <1>5, <1>6, <2>1, <2>2
<1>13. ASSUME NEW ok \in BOOLEAN, ReconcileFetch(ok) PROVE SoleInv'
  <2>1. /\ UNCHANGED <<positions, overlap>> /\ pc[Consumer] = "fetch" /\ Goto(Consumer, "recon")
        /\ \A s \in Symbols : todo'[s] \in {todo[s], NoPos}
    BY <1>13 DEF ReconcileFetch, redis, history
  <2>2. ~overlap => \A t \in Symbols : todo'[t] # NoPos => todo'[t] = positions'[t]
    BY <2>1 DEF SoleInv, Seen
  <2> QED BY <1>2, <1>3, <1>4, <1>5, <1>6, <2>1, <2>2
<1>14. ASSUME NEW ok \in BOOLEAN, Retry(ok) PROVE SoleInv'
  <2>1. UNCHANGED <<todo, overlap>> /\ pc[Consumer] = "retry" /\ Goto(Consumer, "idle")
    BY <1>14 DEF Retry
  <2>2. todo = NoBook /\ \A s \in Symbols : todo'[s] = NoPos
    BY <2>1 DEF SoleInv, Planned, Closing, NoBook
  <2> QED BY <1>2, <1>3, <1>4, <1>5, <1>6, <2>1, <2>2
<1> QED BY <1>7, <1>8, <1>9, <1>10, <1>11, <1>12, <1>13, <1>14 DEF Watch

(* A decision, a manual close, a crash and a restart.                      *)
LEMMA SoleOther ==
  ASSUME Types, SoleInv,
         \/ \E s \in Symbols, side \in Sides : Decide(s, side)
         \/ \E r \in Requests, s \in Symbols : ManualClose(r, s)
         \/ Crash \/ \E ok \in BOOLEAN : Restart(ok)
  PROVE  SoleInv'
<1>1. /\ pc \in [Actors -> Labels] /\ work \in [Actors -> Work] /\ Consumer \in Actors
      /\ todo \in [Symbols -> Position] /\ Consumer \notin Requests /\ Requests \subseteq Actors
  BY LiveAssumption, Nulls DEF Types, TypeOK
<1>2. ASSUME NEW s \in Symbols, NEW side \in Sides, Decide(s, side) PROVE SoleInv'
  <2>1. up /\ up' /\ todo = NoBook /\ todo' = todo
    BY <1>2 DEF Decide, SoleInv, Planned, Closing
  <2>2. /\ pc'[Consumer] \in {"gate", "close"}
        /\ \A b \in Actors \ {Consumer} : pc'[b] = pc[b] /\ work'[b] = work[b]
    BY <1>1, <1>2 DEF Decide, Step
  <2>3. work'[Consumer].sym = s
    BY <1>1, <1>2 DEF Decide, Step, NoWork
  <2>4. Downed' /\ Planned' /\ Visiting'
    BY <2>1, <2>3 DEF Downed, Planned, Visiting, OpenSym, NoBook
  <2>5. ASSUME ~overlap' PROVE Sole' /\ Free' /\ Seen' /\ \A b \in Actors : Held(b)'
    <3>1. \A b \in Actors \ {Consumer} : ~Busy(b)'
      BY <1>2, <2>2, <2>5 DEF Decide, Enter, Busy
    <3> QED BY <2>1, <2>2, <3>1 DEF Sole, Free, Seen, Held, Holding, Busy, NoBook
  <2> QED BY <2>4, <2>5 DEF SoleInv
<1>3. ASSUME NEW r \in Requests, NEW s \in Symbols, ManualClose(r, s) PROVE SoleInv'
  <2>1. up /\ up' /\ todo' = todo /\ pc'[r] = "close"
        /\ \A b \in Actors \ {r} : pc'[b] = pc[b] /\ work'[b] = work[b]
    BY <1>1, <1>3 DEF ManualClose, Step
  <2>2. Downed' /\ Planned' /\ Visiting'
    BY <1>1, <2>1 DEF SoleInv, Downed, Planned, Visiting, OpenSym
  <2>3. ASSUME ~overlap' PROVE Sole' /\ Free' /\ Seen' /\ \A b \in Actors : Held(b)'
    <3>1. \A b \in Actors \ {r} : ~Busy(b)'
      BY <1>3, <2>1, <2>3 DEF ManualClose, Enter, Busy
    <3>2. pc'[Consumer] \in {"idle", "done"} /\ pc[Consumer] = pc'[Consumer]
      BY <1>1, <2>1, <3>1 DEF Busy
    <3>3. todo = NoBook
      BY <3>2 DEF SoleInv, Planned, Closing
    <3> QED BY <2>1, <3>1, <3>2, <3>3 DEF Sole, Free, Seen, Held, Holding, Busy, NoBook
  <2> QED BY <2>2, <2>3 DEF SoleInv
<1>4. CASE Crash
  <2>1. todo' = NoBook /\ \A b \in Actors : ~Busy(b)'
    BY <1>1, <1>4 DEF Crash, Busy
  <2>2. \A b \in Actors : pc'[b] \in {"idle", "done"}
    BY <2>1 DEF Busy
  <2> QED BY <1>1, <2>1, <2>2
          DEF SoleInv, Downed, Planned, Visiting, Sole, Free, Seen, Held, Holding, Closing, NoBook
<1>5. ASSUME NEW ok \in BOOLEAN, Restart(ok) PROVE SoleInv'
  <2>1. UNCHANGED <<pc, work, todo>> /\ up' /\ todo = NoBook /\ \A b \in Actors : ~Busy(b)
    BY <1>5 DEF Restart, SoleInv, Downed
  <2>2. \A b \in Actors : pc'[b] \in {"idle", "done"} /\ ~Busy(b)'
    BY <2>1 DEF Busy
  <2> QED BY <1>1, <2>1, <2>2
          DEF SoleInv, Downed, Planned, Visiting, Sole, Free, Seen, Held, Holding, Closing, NoBook
<1> QED BY <1>2, <1>3, <1>4, <1>5

(* SoleInv holds at the start.                                             *)
LEMMA SoleInit == Init => SoleInv
  BY DEF Init, SoleInv, Downed, Planned, Visiting, Sole, Free, Seen, Held, Holding, Busy, NoBook,
         OpenSym, Closing, Actors

(* SoleInv is inductive.                                                   *)
LEMMA SoleStep == Types /\ SoleInv /\ [Next]_vars => SoleInv'
<1> SUFFICES ASSUME Types, SoleInv, [Next]_vars PROVE SoleInv'
  OBVIOUS
<1>1. CASE UNCHANGED <<positions, up, pc, work, todo, overlap>>
  BY <1>1, SoleSame
<1>2. ASSUME Exchange \/ (\E o \in Options : UserSale(o))
               \/ (\E s \in Symbols : Age(s) \/ ExpirePending(s)) \/ UNCHANGED vars
      PROVE  UNCHANGED <<positions, up, pc, work, todo, overlap>>
  BY <1>2 DEF Exchange, Traded, Rejected, Refresh, UserSale, Age, ExpirePending, redis, control,
     history, vars
<1> QED BY <1>1, <1>2, SoleOpen, SoleClose, SoleWatch, SoleOther DEF Next

-----------------------------------------------------------------------------
(* Which trades are used, and which are counted.                           *)

(* A decision that is not a position yet has left no trace.                *)
Deciding  == \/ pc[Consumer] \in {"gate", "buy", "await", "record"}
             \/ pc[Consumer] \in Closing /\ work[Consumer].caller = "flip"
Unused(i) == /\ counted[i] = 0
             /\ \A s \in Symbols : positions[s].dec # i
             /\ \A a \in Actors : pc[a] = "total" => work[a].pos.dec # i

(* A position is of one decision, whose P&L is not counted while it is in  *)
(* Redis or on its way from there into the total.                          *)
CountBody ==
  /\ \A i \in Ids : i >= nextDec \/ (Deciding /\ i = work[Consumer].dec) => Unused(i)
  /\ Deciding => work[Consumer].dec < nextDec
  /\ \A s, t \in Symbols : positions[s].dec # 0 /\ positions[s].dec = positions[t].dec => s = t
  /\ \A s \in Symbols : positions[s].dec # 0 => counted[positions[s].dec] = 0
  /\ \A a \in Actors : pc[a] = "total" /\ work[a].pos.dec # 0 =>
       counted[work[a].pos.dec] = 0 /\ \A s \in Symbols : positions[s].dec # work[a].pos.dec
  /\ \A i \in Ids : counted[i] <= 1
CountInv == ~overlap => CountBody

(* The index names each position's decision, but for the symbol of an      *)
(* opening or a close under way; a close knows its trade, and the closed   *)
(* trades not counted yet are those of a close under way.                  *)
Unlisted(s) == \/ pc[Consumer] = "index" /\ OpenSym = s
               \/ \E a \in Actors : pc[a] \in {"log", "remove"} /\ work[a].sym = s
Closed(i)   == \E a \in Actors : pc[a] \in {"remove", "total"} /\ work[a].pos.dec = i
IndexBody ==
  /\ \A s \in Symbols : openId[s] = IF Unlisted(s) THEN 0 ELSE positions[s].dec
  /\ \A a \in Actors : pc[a] \in {"unindex", "log"} => work[a].tid = work[a].pos.dec
  /\ \A a \in Actors : pc[a] = "log" => work[a].tid # 0
  /\ \A i \in Ids : trades[i] = "CLOSED" <=> counted[i] > 0 \/ Closed(i)
IndexInv == ~overlap /\ crashes = 0 => IndexBody

(* What a step of a handler changes.                                       *)
LEMMA StepAt ==
  ASSUME Types, NEW a \in Actors, NEW l, NEW v, Step(a, l, v)
  PROVE  /\ pc'[a] = l /\ work'[a] = v
         /\ \A b \in Actors \ {a} : pc'[b] = pc[b] /\ work'[b] = work[b]
  BY DEF Types, TypeOK, Step

LEMMA ReturnedAt ==
  ASSUME Types, NEW a \in Actors, pc[a] \in Closing, AfterClose(a)
  PROVE  /\ pc'[a] \in {"gate", "watch", "recon", "done"}
         /\ pc'[a] = "gate" => /\ a = Consumer /\ work[a].caller = "flip"
                               /\ work'[a].dec = work[a].dec /\ work'[a].sym = work[a].sym
         /\ pc'[a] = "recon" => a = Consumer /\ work[a].caller = "recon"
         /\ \A b \in Actors \ {a} : pc'[b] = pc[b] /\ work'[b] = work[b]
<1> DEFINE v == [NoWork EXCEPT !.sym = work[a].sym, !.side = work[a].side, !.dec = work[a].dec]
<1>1. v.sym = work[a].sym /\ v.dec = work[a].dec
  BY DEF NoWork
<1>2. Returned(a) /\ pc \in [Actors -> Labels] /\ work \in [Actors -> Work]
      /\ Consumer \notin Requests
  BY CloseReturns, LiveAssumption DEF Types, TypeOK
<1>3. CASE pc' = [pc EXCEPT ![a] = "gate"]
  <2>1. a = Consumer /\ work[a].caller = "flip" /\ work' = [work EXCEPT ![a] = v]
    <3>1. pc'[a] = "gate"
      BY <1>2, <1>3
    <3> QED BY <1>2, <3>1 DEF Returned
  <2> HIDE DEF v
  <2> QED BY <1>1, <1>2, <1>3, <2>1
<1>4. CASE pc' # [pc EXCEPT ![a] = "gate"]
  BY <1>2, <1>4 DEF Returned
<1> QED BY <1>3, <1>4

(* Trade numbers.                                                          *)
LEMMA Decs ==
  ASSUME Types
  PROVE  /\ \A s \in Symbols : positions[s].dec \in 0..MaxDecisions
         /\ \A a \in Actors : /\ work[a].pos.dec \in 0..MaxDecisions
                              /\ work[a].tid \in 0..MaxDecisions
         /\ \A i \in Ids : counted[i] \in Nat /\ i \in Nat /\ i # 0
         /\ \A n \in 0..MaxDecisions : n # 0 => n \in Ids
         /\ nextDec \in Nat /\ NoPos.dec = 0
  BY LiveAssumption DEF Types, TypeOK, Work, Position, Ids, NoPos

(* An adoption is of no decision of this run.                              *)
LEMMA AdoptedDecs ==
  ASSUME NEW ok \in BOOLEAN, StartupReconcile(ok)
  PROVE  \A s \in Symbols : positions'[s].dec = positions[s].dec
<1>1. CASE positions # NoBook \/ ~ok
  BY <1>1 DEF StartupReconcile
<1>2. CASE positions = NoBook /\ ok
  <2>1. positions' \in [Symbols -> {NoPos} \cup {Adopted(o) : o \in Options}]
    BY <1>2 DEF StartupReconcile, Books
  <2>2. \A p \in {NoPos} \cup {Adopted(o) : o \in Options} : p.dec = 0
    BY DEF NoPos, Adopted
  <2>3. \A s \in Symbols : positions'[s].dec = 0 /\ positions[s].dec = 0
    BY <1>2, <2>1, <2>2 DEF NoBook, NoPos
  <2> QED BY <2>3
<1> QED BY <1>1, <1>2

(* Steps that neither open, remove nor count a position.                   *)
LEMMA CountMoves ==
  ASSUME CountInv, ~overlap' => ~overlap, UNCHANGED <<nextDec, counted>>,
         ~overlap => \A s \in Symbols : positions'[s].dec = positions[s].dec,
         Deciding' => Deciding /\ work'[Consumer].dec = work[Consumer].dec,
         \A a \in Actors : pc'[a] = "total" => pc[a] = "total" /\ work'[a] = work[a]
  PROVE  CountInv'
<1> SUFFICES ASSUME ~overlap, CountBody PROVE CountBody'
  BY DEF CountInv
<1>1. \A i \in Ids : Unused(i) => Unused(i)'
  BY DEF Unused
<1>2. \A i \in Ids : i >= nextDec' \/ (Deciding' /\ i = work'[Consumer].dec) => Unused(i)'
  BY <1>1 DEF CountBody
<1>3. Deciding' => work'[Consumer].dec < nextDec'
  BY DEF CountBody
<1>4. /\ \A s, t \in Symbols : positions'[s].dec # 0 /\ positions'[s].dec = positions'[t].dec => s = t
      /\ \A s \in Symbols : positions'[s].dec # 0 => counted'[positions'[s].dec] = 0
  BY DEF CountBody
<1>5. \A a \in Actors : pc'[a] = "total" /\ work'[a].pos.dec # 0 =>
        counted'[work'[a].pos.dec] = 0 /\ \A s \in Symbols : positions'[s].dec # work'[a].pos.dec
  BY DEF CountBody
<1>6. \A i \in Ids : counted'[i] <= 1
  BY DEF CountBody
<1> QED BY <1>2, <1>3, <1>4, <1>5, <1>6 DEF CountBody

(* A step of one handler that does not come to the total.                  *)
LEMMA CountGoes ==
  ASSUME Types, CountInv, NEW a \in Actors, UNCHANGED <<nextDec, counted, overlap>>,
         ~overlap => \A s \in Symbols : positions'[s].dec = positions[s].dec,
         \A b \in Actors \ {a} : pc'[b] = pc[b] /\ work'[b] = work[b],
         pc'[a] # "total",
         a = Consumer => \/ Deciding /\ work'[a].dec = work[a].dec
                         \/ ~Deciding'
  PROVE  CountInv'
<1>1. Deciding' => Deciding /\ work'[Consumer].dec = work[Consumer].dec
  BY Nulls DEF Deciding
<1> QED BY <1>1, CountMoves

(* Steps of open_position.                                                 *)
LEMMA CountOpen == Types /\ SoleInv /\ CountInv /\ Open => CountInv'
<1> SUFFICES ASSUME Types, SoleInv, CountInv, Open PROVE CountInv'
  OBVIOUS
<1>1. Consumer \in Actors /\ work[Consumer] \in Work
  BY Nulls DEF Types, TypeOK
<1>2. ASSUME NEW l \in {"buy", "await", "record", "idle"}, NEW v, Step(Consumer, l, v),
             pc[Consumer] \in {"gate", "buy", "await"}, v.dec = work[Consumer].dec \/ l = "idle",
             UNCHANGED <<positions, nextDec, counted, overlap>>
      PROVE  CountInv'
  BY <1>1, <1>2, StepAt, CountGoes DEF Deciding, Closing
<1>3. ASSUME NEW funds \in BOOLEAN, OpenGate(funds) PROVE CountInv'
  BY <1>2, <1>3 DEF OpenGate, Goto, Finish, history
<1>4. ASSUME NEW reply \in Replies, PlaceBuy(reply) PROVE CountInv'
  <2>1. [work[Consumer] EXCEPT !.ord = placed + 1].dec = work[Consumer].dec
    BY <1>1 DEF Work
  <2> QED BY <1>2, <1>4, <2>1 DEF PlaceBuy, Finish
<1>5. ASSUME NEW seen \in Fills, AwaitBuy(seen) PROVE CountInv'
  BY <1>2, <1>5 DEF AwaitBuy, Goto, Finish, redis
<1>6. CASE RecordOpen
  <2> DEFINE d == work[Consumer].dec
  <2>1. /\ Step(Consumer, "index", work[Consumer]) /\ UNCHANGED <<nextDec, counted, overlap>>
        /\ positions' = [positions EXCEPT ![OpenSym] = Opened] /\ pc[Consumer] = "record"
    BY <1>6 DEF RecordOpen, Goto, history, OpenSym, Opened
  <2>2. OpenSym \in Symbols /\ d \in Ids /\ Opened.dec = d /\ positions \in [Symbols -> Position]
    BY <2>1 DEF Types, TypeOK, Callers, Opening, OpenSym, Opened
  <2>3. SUFFICES ASSUME ~overlap PROVE CountBody'
    BY <2>1 DEF CountInv
  <2>4. CountBody /\ Unused(d) /\ d < nextDec /\ Sole
    <3>1. CountBody /\ Deciding /\ Sole
      BY <2>1, <2>3 DEF CountInv, SoleInv, Deciding
    <3> QED BY <2>2, <3>1 DEF CountBody
  <2>5. positions'[OpenSym].dec = d /\ \A s \in Symbols \ {OpenSym} : positions'[s] = positions[s]
    BY <2>1, <2>2
  <2>6. ~Deciding' /\ \A b \in Actors : pc'[b] # "total"
    <3>1. pc'[Consumer] = "index" /\ \A b \in Actors \ {Consumer} : pc'[b] = pc[b]
      BY <1>1, <2>1, StepAt
    <3>2. \A b \in Actors \ {Consumer} : ~Busy(b)
      BY <1>1, <2>1, <2>4 DEF Sole, Busy
    <3> QED BY <3>1, <3>2 DEF Deciding, Closing, Busy
  <2> HIDE DEF d
  <2>7. \A i \in Ids : i >= nextDec => Unused(i)'
    BY <2>1, <2>2, <2>4, <2>5, <2>6, Decs DEF CountBody, Unused
  <2>8. /\ \A s, t \in Symbols : positions'[s].dec # 0 /\ positions'[s].dec = positions'[t].dec => s = t
        /\ \A s \in Symbols : positions'[s].dec # 0 => counted'[positions'[s].dec] = 0
    BY <2>1, <2>4, <2>5 DEF CountBody, Unused
  <2> QED BY <2>1, <2>4, <2>6, <2>7, <2>8 DEF CountBody
<1>7. CASE IndexOpen
  <2>1. Step(Consumer, "idle", NoWork) /\ UNCHANGED <<positions, nextDec, counted, overlap>>
    BY <1>7 DEF IndexOpen, Finish, history
  <2> QED BY <1>1, <2>1, StepAt, CountGoes DEF Deciding, Closing
<1> QED BY <1>3, <1>4, <1>5, <1>6, <1>7 DEF Open

(* Steps of a close.                                                       *)
LEMMA CountClose ==
  ASSUME Types, SoleInv, CountInv, NEW a \in Actors, Close(a) PROVE CountInv'
<1> DEFINE w == work[a]
<1>1. w \in Work /\ pc[a] \in Closing /\ w.sym \in Symbols /\ UNCHANGED <<nextDec, overlap>>
  <2>1. pc[a] \in Closing /\ UNCHANGED <<nextDec, overlap>>
    BY DEF Close, ReadPosition, PlaceSell, AwaitSell, FindTrade, Unindex, LogClose,
           RemovePosition, AddRealized, Closing, history
  <2> QED BY <2>1 DEF Types, TypeOK, Callers, Actors
<1>2. ASSUME NEW l \in {"sell", "sold", "find", "unindex", "log", "remove"}, NEW v, Step(a, l, v),
             v.caller = w.caller, v.dec = w.dec, UNCHANGED <<positions, counted>>
      PROVE  CountInv'
  <2>1. l \in Closing /\ l \notin {"gate", "buy", "await", "record", "total"}
    BY DEF Closing
  <2>2. /\ pc'[a] = l /\ work'[a] = v
        /\ \A b \in Actors \ {a} : pc'[b] = pc[b] /\ work'[b] = work[b]
    BY <1>2, StepAt
  <2> QED BY <1>1, <1>2, <2>1, <2>2, CountGoes DEF Deciding
<1>3. ASSUME AfterClose(a), UNCHANGED <<positions, counted>> PROVE CountInv'
  <2>1. pc'[a] # "total" /\ \A b \in Actors \ {a} : pc'[b] = pc[b] /\ work'[b] = work[b]
    BY <1>1, <1>3, ReturnedAt
  <2>2. a = Consumer => (Deciding /\ work'[a].dec = work[a].dec) \/ ~Deciding'
    BY <1>1, <1>3, ReturnedAt DEF Deciding, Closing
  <2> QED BY <1>1, <1>3, <2>1, <2>2, CountGoes
<1>4. \A x : /\ [w EXCEPT !.pos = x].caller = w.caller /\ [w EXCEPT !.pos = x].dec = w.dec
             /\ [w EXCEPT !.ord = x].caller = w.caller /\ [w EXCEPT !.ord = x].dec = w.dec
             /\ [w EXCEPT !.tid = x].caller = w.caller /\ [w EXCEPT !.tid = x].dec = w.dec
  BY <1>1 DEF Work
<1>5. CASE ReadPosition(a)
  <2>1. CASE positions[w.sym] = NoPos
    BY <1>3, <1>5, <2>1 DEF ReadPosition, redis, history
  <2>2. CASE positions[w.sym] # NoPos
    <3>1. PICK l \in {"sell", "find"} : Step(a, l, [w EXCEPT !.pos = positions[w.sym]])
      BY <1>5, <2>2 DEF ReadPosition
    <3> QED BY <1>2, <1>4, <1>5, <3>1 DEF ReadPosition, redis, history
  <2> QED BY <2>1, <2>2
<1>6. ASSUME NEW reply \in Replies, PlaceSell(a, reply) PROVE CountInv'
  <2>1. UNCHANGED <<positions, counted>>
    BY <1>6 DEF PlaceSell, redis
  <2> QED BY <1>2, <1>3, <1>4, <1>6, <2>1 DEF PlaceSell
<1>7. ASSUME NEW seen \in Fills, AwaitSell(a, seen) PROVE CountInv'
  BY <1>2, <1>7 DEF AwaitSell, redis, Goto
<1>8. CASE FindTrade(a)
  BY <1>2, <1>4, <1>8 DEF FindTrade, redis, history
<1>9. CASE Unindex(a)
  <2>1. PICK l \in {"remove", "log"} : Goto(a, l)
    BY <1>9 DEF Unindex, Told
  <2> QED BY <1>2, <1>9, <2>1 DEF Unindex, Goto, history
<1>10. CASE LogClose(a)
  BY <1>2, <1>10 DEF LogClose, Goto, history
<1>11. CASE RemovePosition(a)
  <2>1. /\ Step(a, "total", w) /\ UNCHANGED counted /\ pc[a] = "remove"
        /\ positions' = [positions EXCEPT ![w.sym] = NoPos] /\ positions \in [Symbols -> Position]
    BY <1>11 DEF RemovePosition, Goto, history, Without, Types, TypeOK
  <2>2. SUFFICES ASSUME ~overlap PROVE CountBody'
    BY <1>1, <2>1 DEF CountInv
  <2>3. CountBody /\ Sole /\ positions[w.sym] = w.pos
    BY <2>1, <2>2 DEF CountInv, SoleInv, Held, Holding
  <2>4. positions'[w.sym] = NoPos /\ \A s \in Symbols \ {w.sym} : positions'[s] = positions[s]
    BY <1>1, <2>1
  <2>5. /\ pc'[a] = "total" /\ work'[a] = w
        /\ \A b \in Actors \ {a} : pc'[b] = pc[b] /\ work'[b] = work[b] /\ pc[b] # "total"
    <3>1. \A b \in Actors \ {a} : pc[b] # "total"
      BY <2>1, <2>3 DEF Sole, Busy
    <3> QED BY <2>1, <3>1, StepAt
  <2>6. /\ Deciding' => Deciding /\ work'[Consumer].dec = work[Consumer].dec
        /\ Deciding /\ a = Consumer => w.caller = "flip"
    BY <1>1, <2>5, Nulls DEF Deciding, Closing
  <2>7. \A i \in Ids : Unused(i) => Unused(i)'
    BY <1>1, <2>1, <2>3, <2>4, <2>5, Decs DEF Unused
  <2>8. w.pos.dec # 0 => counted[w.pos.dec] = 0 /\ \A s \in Symbols : positions'[s].dec # w.pos.dec
    BY <1>1, <2>3, <2>4, Decs DEF CountBody
  <2>9. \A i \in Ids : i >= nextDec' \/ (Deciding' /\ i = work'[Consumer].dec) => Unused(i)'
    BY <1>1, <2>3, <2>6, <2>7 DEF CountBody
  <2>10. /\ \A s, t \in Symbols : positions'[s].dec # 0 /\ positions'[s].dec = positions'[t].dec => s = t
         /\ \A s \in Symbols : positions'[s].dec # 0 => counted'[positions'[s].dec] = 0
    BY <2>1, <2>3, <2>4, Decs DEF CountBody
  <2>11. \A b \in Actors : pc'[b] = "total" /\ work'[b].pos.dec # 0 =>
           counted'[work'[b].pos.dec] = 0 /\ \A s \in Symbols : positions'[s].dec # work'[b].pos.dec
    BY <2>1, <2>5, <2>8
  <2> QED BY <1>1, <2>1, <2>3, <2>6, <2>9, <2>10, <2>11 DEF CountBody
<1>12. CASE AddRealized(a)
  <2> DEFINE d == w.pos.dec
  <2>1. /\ AfterClose(a) /\ UNCHANGED positions /\ pc[a] = "total"
        /\ counted' = [i \in Ids |-> IF i = d THEN counted[i] + 1 ELSE counted[i]]
    BY <1>12 DEF AddRealized, redis
  <2>2. SUFFICES ASSUME ~overlap PROVE CountBody'
    BY <1>1 DEF CountInv
  <2>3. CountBody /\ Sole
    BY <2>2 DEF CountInv, SoleInv
  <2>4. /\ pc'[a] # "total" /\ \A b \in Actors \ {a} : pc'[b] = pc[b] /\ work'[b] = work[b]
        /\ a = Consumer => (Deciding /\ work'[a].dec = work[a].dec) \/ ~Deciding'
    BY <1>1, <2>1, ReturnedAt DEF Deciding, Closing
  <2>5. \A b \in Actors : pc'[b] # "total"
    BY <2>1, <2>3, <2>4 DEF Sole, Busy
  <2>6. Deciding' => Deciding /\ work'[Consumer].dec = work[Consumer].dec
    BY <2>4, Nulls DEF Deciding
  <2>7. d # 0 => d \in Ids /\ counted[d] = 0 /\ \A s \in Symbols : positions[s].dec # d
    BY <2>1, <2>3, Decs DEF CountBody
  <2> HIDE DEF d
  <2>8. \A i \in Ids : i # d => counted'[i] = counted[i]
    BY <2>1
  <2>9. \A i \in Ids : Unused(i) => i # d
    BY <2>1 DEF Unused, d
  <2>10. \A i \in Ids : Unused(i) => Unused(i)'
    BY <2>1, <2>5, <2>8, <2>9 DEF Unused
  <2>11. \A i \in Ids : i >= nextDec' \/ (Deciding' /\ i = work'[Consumer].dec) => Unused(i)'
    BY <1>1, <2>3, <2>6, <2>10 DEF CountBody
  <2>12. \A s \in Symbols : positions'[s].dec # 0 => counted'[positions'[s].dec] = 0
    <3>1. ASSUME NEW s \in Symbols, positions[s].dec # 0 PROVE counted'[positions[s].dec] = 0
      <4>1. positions[s].dec \in Ids /\ counted[positions[s].dec] = 0
        BY <2>3, <3>1, Decs DEF CountBody
      <4>2. positions[s].dec # d
        BY <2>7, <3>1
      <4> QED BY <2>8, <4>1, <4>2
    <3> QED BY <2>1, <3>1
  <2>13. \A i \in Ids : counted'[i] <= 1
    <3>1. ASSUME NEW i \in Ids PROVE counted'[i] <= 1
      <4>1. CASE i = d
        BY <2>1, <2>7, <4>1, Decs
      <4>2. CASE i # d
        BY <2>3, <2>8, <4>2 DEF CountBody
      <4> QED BY <4>1, <4>2
    <3> QED BY <3>1
  <2> QED BY <1>1, <2>1, <2>3, <2>5, <2>6, <2>11, <2>12, <2>13 DEF CountBody
<1> QED BY <1>5, <1>6, <1>7, <1>8, <1>9, <1>10, <1>11, <1>12 DEF Close

(* Steps of the watcher.                                                   *)
LEMMA CountWatch == Types /\ SoleInv /\ CountInv /\ Watch => CountInv'
<1> SUFFICES ASSUME Types, SoleInv, CountInv, Watch PROVE CountInv'
  OBVIOUS
<1>1. Consumer \in Actors /\ UNCHANGED <<nextDec, counted>> /\ (~overlap' => ~overlap)
  <2>1. CASE WatchStart
    BY <2>1, Nulls DEF WatchStart, Enter
  <2>2. ASSUME NEW s \in Symbols, WatchKeep(s) \/ WatchExit(s) \/ ReconcileClose(s)
        PROVE  UNCHANGED <<nextDec, counted, overlap>>
    BY <2>2 DEF WatchKeep, WatchExit, ReconcileClose, history
  <2>3. CASE \/ ReconcileRead \/ ReconcileEnd \/ \E due \in BOOLEAN : WatchEnd(due)
             \/ \E ok \in BOOLEAN : ReconcileFetch(ok) \/ Retry(ok)
    BY <2>3, Nulls DEF WatchEnd, ReconcileRead, ReconcileEnd, ReconcileFetch, Retry, history
  <2> QED BY <2>1, <2>2, <2>3, Nulls DEF Watch
<1>2. ASSUME NEW l \in Idling \cup {"close", "ext"}, NEW v, Step(Consumer, l, v),
             l \in Idling \/ v.caller # "flip",
             \A s \in Symbols : positions'[s].dec = positions[s].dec
      PROVE  CountInv'
  <2>1. /\ pc'[Consumer] = l /\ work'[Consumer] = v
        /\ \A b \in Actors \ {Consumer} : pc'[b] = pc[b] /\ work'[b] = work[b]
    BY <1>1, <1>2, StepAt
  <2>2. ~Deciding' /\ pc'[Consumer] # "total"
    BY <1>2, <2>1 DEF Deciding, Idling, Closing
  <2> QED BY <1>1, <1>2, <2>1, <2>2, CountMoves
<1>3. \A l \in {"idle", "watch", "recon_read", "fetch", "recon", "retry"} : l \in Idling
  BY DEF Idling
<1>4. CASE WatchStart \/ ReconcileRead \/ ReconcileEnd
           \/ (\E due \in BOOLEAN : WatchEnd(due)) \/ \E ok \in BOOLEAN : ReconcileFetch(ok)
  <2>1. PICK l \in {"idle", "watch", "recon_read", "fetch", "recon", "retry"} : Goto(Consumer, l)
    BY <1>4 DEF WatchStart, ReconcileRead, ReconcileEnd, WatchEnd, ReconcileFetch
  <2>2. positions' = positions
    BY <1>4 DEF WatchStart, ReconcileRead, ReconcileEnd, WatchEnd, ReconcileFetch, redis
  <2> QED BY <1>2, <1>3, <2>1, <2>2 DEF Goto
<1>5. ASSUME NEW s \in Symbols, WatchKeep(s) PROVE CountInv'
  <2>1. UNCHANGED <<pc, work>> /\ (~overlap => positions' = positions)
    BY <1>5, WatchKeeps DEF WatchKeep
  <2> QED BY <1>1, <2>1, CountMoves DEF Deciding
<1>6. ASSUME NEW s \in Symbols, WatchExit(s) \/ ReconcileClose(s) PROVE CountInv'
  <2>1. PICK l \in {"close", "ext"}, c \in {"watch", "recon"} :
          Step(Consumer, l, [NoWork EXCEPT !.sym = s, !.caller = c])
    BY <1>6 DEF WatchExit, ReconcileClose
  <2>2. positions' = positions /\ [NoWork EXCEPT !.sym = s, !.caller = c].caller = c
    BY <1>6 DEF WatchExit, ReconcileClose, redis, NoWork
  <2> QED BY <1>2, <2>1, <2>2
<1>7. ASSUME NEW ok \in BOOLEAN, Retry(ok) PROVE CountInv'
  <2>1. \A s \in Symbols : positions'[s].dec = positions[s].dec
    BY <1>7, AdoptedDecs DEF Retry
  <2> QED BY <1>2, <1>3, <1>7, <2>1 DEF Retry, Goto
<1> QED BY <1>4, <1>5, <1>6, <1>7 DEF Watch

(* A decision, a manual close, a crash and a restart.                      *)
LEMMA CountOther ==
  ASSUME Types, SoleInv, CountInv,
         \/ \E s \in Symbols, side \in Sides : Decide(s, side)
         \/ \E r \in Requests, s \in Symbols : ManualClose(r, s)
         \/ Crash \/ \E ok \in BOOLEAN : Restart(ok)
  PROVE  CountInv'
<1>1. Consumer \in Actors /\ Requests \subseteq Actors /\ Consumer \notin Requests
      /\ pc \in [Actors -> Labels] /\ work \in [Actors -> Work]
  BY LiveAssumption, Nulls DEF Types, TypeOK
<1>2. ASSUME NEW s \in Symbols, NEW side \in Sides, Decide(s, side) PROVE CountInv'
  <2>1. /\ UNCHANGED <<positions, counted>> /\ nextDec' = nextDec + 1 /\ nextDec <= MaxDecisions
        /\ overlap' = (overlap \/ \E b \in Actors \ {Consumer} : Busy(b)) /\ pc[Consumer] = "idle"
    BY <1>2 DEF Decide, Enter, redis
  <2>2. SUFFICES ASSUME ~overlap' PROVE CountBody'
    BY DEF CountInv
  <2>3. CountBody /\ \A b \in Actors : pc[b] # "total"
    BY <2>1, <2>2 DEF CountInv, Busy
  <2>4. /\ pc'[Consumer] \in {"gate", "close"} /\ work'[Consumer].dec = nextDec
        /\ \A b \in Actors \ {Consumer} : pc'[b] = pc[b] /\ work'[b] = work[b]
    <3> DEFINE v == [NoWork EXCEPT !.sym = s, !.side = side, !.dec = nextDec]
    <3>1. v.dec = nextDec /\ [v EXCEPT !.caller = "flip"].dec = nextDec
      BY DEF NoWork
    <3>2. \/ Step(Consumer, "gate", v)
          \/ Step(Consumer, "close", [v EXCEPT !.caller = "flip"])
      BY <1>2 DEF Decide
    <3> DEFINE u == [v EXCEPT !.caller = "flip"]
    <3> HIDE DEF v, u
    <3>3. PICK l \in {"gate", "close"}, x \in {u, v} : Step(Consumer, l, x)
      BY <3>2 DEF u
    <3>4. x.dec = nextDec
      BY <3>1 DEF u
    <3> QED BY <1>1, <3>3, <3>4, StepAt
  <2>5. \A b \in Actors : pc'[b] # "total"
    BY <2>3, <2>4
  <2>6. \A i \in Ids : Unused(i) => Unused(i)'
    BY <2>1, <2>5 DEF Unused
  <2>7. \A i \in Ids : i >= nextDec => Unused(i)
    BY <2>3 DEF CountBody
  <2>8. \A i \in Ids : i >= nextDec' \/ i = work'[Consumer].dec => i >= nextDec
    BY <2>1, <2>4, Decs
  <2>9. \A i \in Ids : i >= nextDec' \/ (Deciding' /\ i = work'[Consumer].dec) => Unused(i)'
    BY <2>6, <2>7, <2>8
  <2>10. work'[Consumer].dec < nextDec'
    BY <2>1, <2>4, Decs
  <2> QED BY <2>1, <2>3, <2>5, <2>9, <2>10 DEF CountBody
<1>3. ASSUME NEW r \in Requests, NEW s \in Symbols, ManualClose(r, s) PROVE CountInv'
  <2>1. /\ UNCHANGED <<positions, counted, nextDec>> /\ (~overlap' => ~overlap) /\ pc'[r] = "close"
        /\ \A b \in Actors \ {r} : pc'[b] = pc[b] /\ work'[b] = work[b]
    BY <1>1, <1>3, StepAt DEF ManualClose, Enter, redis
  <2>2. pc'[Consumer] = pc[Consumer] /\ work'[Consumer] = work[Consumer]
    BY <1>1, <2>1
  <2> QED BY <2>1, <2>2, CountMoves DEF Deciding
<1>4. CASE Crash
  <2>1. UNCHANGED <<positions, counted, nextDec, overlap>>
    BY <1>4 DEF Crash, redis
  <2>2. pc'[Consumer] = "idle" /\ \A b \in Actors : pc'[b] # "total"
    BY <1>1, <1>4 DEF Crash, Busy
  <2> QED BY <2>1, <2>2, CountMoves DEF Deciding, Closing
<1>5. ASSUME NEW ok \in BOOLEAN, Restart(ok) PROVE CountInv'
  <2>1. UNCHANGED <<pc, work, counted, nextDec, overlap>> /\ StartupReconcile(ok)
    BY <1>5 DEF Restart
  <2> QED BY <2>1, AdoptedDecs, CountMoves DEF Deciding
<1> QED BY <1>2, <1>3, <1>4, <1>5

(* CountInv holds at the start.                                            *)
LEMMA CountInit == Init => CountInv
<1> SUFFICES ASSUME Init PROVE CountBody
  BY DEF CountInv
<1>1. /\ \A s \in Symbols : positions[s].dec = 0
      /\ \A a \in Actors : pc[a] = "idle"
      /\ \A i \in Ids : counted[i] = 0 /\ i # 0
  BY LiveAssumption DEF Init, NoBook, NoPos, Ids
<1>2. ~Deciding
  BY <1>1, Nulls DEF Deciding, Closing
<1> QED BY <1>1, <1>2 DEF CountBody, Unused

(* CountInv is inductive.                                                  *)
LEMMA CountStep == Types /\ SoleInv /\ CountInv /\ [Next]_vars => CountInv'
<1> SUFFICES ASSUME Types, SoleInv, CountInv, [Next]_vars PROVE CountInv'
  OBVIOUS
<1>1. ASSUME Exchange \/ (\E o \in Options : UserSale(o))
               \/ (\E s \in Symbols : Age(s) \/ ExpirePending(s)) \/ UNCHANGED vars
      PROVE  CountInv'
  <2>1. UNCHANGED <<positions, pc, work, nextDec, counted, overlap>>
    BY <1>1 DEF Exchange, Traded, Rejected, Refresh, UserSale, Age, ExpirePending, redis, control,
       history, vars
  <2> QED BY <2>1, CountMoves DEF Deciding
<1> QED BY <1>1, CountOpen, CountClose, CountWatch, CountOther DEF Next

(* RealizedOnce: as long as handlers do not run at the same time, the P&L  *)
(* of a trade goes into pnl:realized:total at most once, through crashes,  *)
(* refused exits, external closes and restarts (live_broker.py:313-418).   *)
THEOREM CountedOnce == Spec => []RealizedOnce
<1>1. CountInv => RealizedOnce
  BY DEF CountInv, CountBody, RealizedOnce
<1> QED BY <1>1, TypesInit, TypesStep, SoleInit, SoleStep, CountInit, CountStep, PTL DEF Spec

-----------------------------------------------------------------------------
(* The index and the closed trades.                                        *)

(* Labels between which records and index differ.                          *)
Marked   == {"index", "unindex", "log", "remove", "total"}
Alone(a) == \A b \in Actors \ {a} : pc'[b] = pc[b] /\ work'[b] = work[b] /\ pc[b] \notin Marked

(* Steps that neither enter nor leave such a label.                        *)
LEMMA IndexMoves ==
  ASSUME IndexInv, ~overlap' => ~overlap, crashes' = 0 => crashes = 0,
         UNCHANGED <<openId, trades, counted>>,
         ~overlap => \A s \in Symbols : positions'[s].dec = positions[s].dec,
         \A a \in Actors : \/ pc'[a] = pc[a] /\ work'[a] = work[a]
                           \/ pc[a] \notin Marked /\ pc'[a] \notin Marked
  PROVE  IndexInv'
<1> SUFFICES ASSUME ~overlap, IndexBody PROVE IndexBody'
  BY DEF IndexInv
<1>1. \A s \in Symbols : Unlisted(s)' <=> Unlisted(s)
  BY Nulls DEF Unlisted, OpenSym, Marked
<1>2. \A i \in Ids : Closed(i)' <=> Closed(i)
  BY DEF Closed, Marked
<1>3. \A s \in Symbols : openId'[s] = IF Unlisted(s)' THEN 0 ELSE positions'[s].dec
  BY <1>1 DEF IndexBody
<1>4. \A i \in Ids : trades'[i] = "CLOSED" <=> counted'[i] > 0 \/ Closed(i)'
  BY <1>2 DEF IndexBody
<1>5. /\ \A a \in Actors : pc'[a] \in {"unindex", "log"} => work'[a].tid = work'[a].pos.dec
      /\ \A a \in Actors : pc'[a] = "log" => work'[a].tid # 0
  BY DEF IndexBody, Marked
<1> QED BY <1>3, <1>4, <1>5 DEF IndexBody

LEMMA IndexGoes ==
  ASSUME IndexInv, NEW a \in Actors, UNCHANGED <<openId, trades, counted, overlap, crashes>>,
         ~overlap => \A s \in Symbols : positions'[s].dec = positions[s].dec,
         \A b \in Actors \ {a} : pc'[b] = pc[b] /\ work'[b] = work[b],
         pc[a] \notin Marked, pc'[a] \notin Marked
  PROVE  IndexInv'
  BY IndexMoves

(* Steps of open_position.                                                 *)
LEMMA IndexesOpen == Types /\ SoleInv /\ CountInv /\ IndexInv /\ Open => IndexInv'
<1> SUFFICES ASSUME Types, SoleInv, CountInv, IndexInv, Open PROVE IndexInv'
  OBVIOUS
<1>1. /\ Consumer \in Actors /\ work[Consumer] \in Work /\ UNCHANGED <<overlap, crashes>>
      /\ pc[Consumer] \in Opening
  BY Nulls DEF Types, TypeOK, Open, OpenGate, PlaceBuy, AwaitBuy, RecordOpen, IndexOpen, history,
     Opening
<1>2. ASSUME NEW l \in {"buy", "await", "record", "idle"}, NEW v, Step(Consumer, l, v),
             pc[Consumer] \in {"gate", "buy", "await"},
             UNCHANGED <<positions, openId, trades, counted>>
      PROVE  IndexInv'
  BY <1>1, <1>2, StepAt, IndexGoes DEF Marked
<1>3. ASSUME NEW funds \in BOOLEAN, OpenGate(funds) PROVE IndexInv'
  BY <1>2, <1>3 DEF OpenGate, Goto, Finish, history
<1>4. ASSUME NEW reply \in Replies, PlaceBuy(reply) PROVE IndexInv'
  BY <1>2, <1>4 DEF PlaceBuy, Finish
<1>5. ASSUME NEW seen \in Fills, AwaitBuy(seen) PROVE IndexInv'
  BY <1>2, <1>5 DEF AwaitBuy, Goto, Finish
<1>6. ASSUME ~overlap, NEW l, NEW v, Step(Consumer, l, v) PROVE Alone(Consumer)
  <2>1. \A b \in Actors \ {Consumer} : ~Busy(b)
    BY <1>1, <1>6 DEF SoleInv, Sole, Busy, Opening
  <2>2. \A b \in Actors \ {Consumer} : pc'[b] = pc[b] /\ work'[b] = work[b]
    BY <1>1, <1>6, StepAt
  <2> QED BY <2>1, <2>2 DEF Alone, Marked, Busy
<1>7. OpenSym \in Symbols /\ work[Consumer].dec \in Ids /\ Opened.dec = work[Consumer].dec
      /\ positions \in [Symbols -> Position]
  BY <1>1 DEF Types, TypeOK, Callers, OpenSym, Opened
<1>8. CASE RecordOpen
  <2>1. /\ Step(Consumer, "index", work[Consumer]) /\ UNCHANGED <<openId, trades, counted>>
        /\ positions' = [positions EXCEPT ![OpenSym] = Opened] /\ pc[Consumer] = "record"
    BY <1>8 DEF RecordOpen, Goto, history, OpenSym, Opened
  <2>2. SUFFICES ASSUME ~overlap, IndexBody PROVE IndexBody'
    BY <1>1 DEF IndexInv
  <2>3. /\ pc'[Consumer] = "index" /\ work'[Consumer] = work[Consumer] /\ Alone(Consumer)
    BY <1>1, <1>6, <2>1, <2>2, StepAt
  <2>4. positions[OpenSym].dec = 0
    BY <2>1, <2>2 DEF SoleInv, Free, NoPos
  <2>5. \A s \in Symbols : ~Unlisted(s) /\ (Unlisted(s)' <=> s = OpenSym)
    BY <2>1, <2>3 DEF Unlisted, Alone, Marked, OpenSym
  <2>6. \A i \in Ids : ~Closed(i) /\ ~Closed(i)'
    BY <2>1, <2>3 DEF Closed, Alone, Marked
  <2>7. \A s \in Symbols : openId'[s] = IF Unlisted(s)' THEN 0 ELSE positions'[s].dec
    BY <1>7, <2>1, <2>2, <2>4, <2>5 DEF IndexBody
  <2>8. \A b \in Actors : pc'[b] \notin {"unindex", "log"}
    BY <2>3 DEF Alone, Marked
  <2>9. \A i \in Ids : trades'[i] = "CLOSED" <=> counted'[i] > 0 \/ Closed(i)'
    BY <2>1, <2>2, <2>6 DEF IndexBody
  <2> QED BY <2>7, <2>8, <2>9 DEF IndexBody
<1>9. CASE IndexOpen
  <2> DEFINE d == work[Consumer].dec
  <2>1. /\ Step(Consumer, "idle", NoWork) /\ UNCHANGED <<positions, counted>>
        /\ openId' = [openId EXCEPT ![OpenSym] = d] /\ pc[Consumer] = "index"
        /\ trades' = [trades EXCEPT ![d] = "OPEN"]
    BY <1>9 DEF IndexOpen, Finish, history, OpenSym
  <2>2. SUFFICES ASSUME ~overlap, IndexBody PROVE IndexBody'
    BY <1>1 DEF IndexInv
  <2>3. pc'[Consumer] = "idle" /\ Alone(Consumer)
    BY <1>1, <1>6, <2>1, <2>2, StepAt
  <2>4. /\ openId \in [Symbols -> 0..MaxDecisions] /\ trades \in [Ids -> {"NONE", "OPEN", "CLOSED"}]
        /\ d \in Ids /\ d # 0
    BY <1>7, Decs DEF Types, TypeOK
  <2>5. positions[OpenSym] = Opened
    BY <2>1, <2>2 DEF SoleInv, Free
  <2>6. counted[d] = 0
    BY <1>7, <2>2, <2>4, <2>5 DEF CountInv, CountBody
  <2>7. \A s \in Symbols : ~Unlisted(s)' /\ (Unlisted(s) <=> s = OpenSym)
    BY <1>1, <2>1, <2>3 DEF Unlisted, Alone, Marked
  <2>8. \A i \in Ids : ~Closed(i) /\ ~Closed(i)'
    BY <2>1, <2>3 DEF Closed, Alone, Marked
  <2> HIDE DEF d
  <2>9. \A s \in Symbols : openId'[s] = positions'[s].dec
    BY <1>7, <2>1, <2>2, <2>4, <2>5, <2>7 DEF IndexBody, d
  <2>10. \A b \in Actors : pc'[b] \notin {"unindex", "log"}
    BY <2>3 DEF Alone, Marked
  <2>11. \A i \in Ids : trades'[i] = "CLOSED" <=> counted'[i] > 0
    <3>1. ASSUME NEW i \in Ids, i # d PROVE trades'[i] = "CLOSED" <=> counted'[i] > 0
      BY <2>1, <2>2, <2>4, <2>8, <3>1 DEF IndexBody
    <3>2. trades'[d] = "OPEN" /\ ~(counted'[d] > 0)
      BY <2>1, <2>4, <2>6
    <3> QED BY <3>1, <3>2
  <2> QED BY <2>7, <2>8, <2>9, <2>10, <2>11 DEF IndexBody
<1> QED BY <1>3, <1>4, <1>5, <1>8, <1>9 DEF Open

(* Steps of a close.                                                       *)
LEMMA IndexesClose ==
  ASSUME Types, SoleInv, CountInv, IndexInv, NEW a \in Actors, Close(a) PROVE IndexInv'
<1> DEFINE w == work[a]
           d == w.pos.dec
<1>1. /\ w \in Work /\ pc[a] \in Closing /\ w.sym \in Symbols /\ UNCHANGED <<overlap, crashes>>
      /\ positions \in [Symbols -> Position] /\ openId \in [Symbols -> 0..MaxDecisions]
      /\ trades \in [Ids -> {"NONE", "OPEN", "CLOSED"}]
  <2>1. pc[a] \in Closing /\ UNCHANGED <<overlap, crashes>>
    BY DEF Close, ReadPosition, PlaceSell, AwaitSell, FindTrade, Unindex, LogClose,
           RemovePosition, AddRealized, Closing, history
  <2> QED BY <2>1 DEF Types, TypeOK, Callers, Actors
<1>2. ASSUME NEW l \in {"sell", "sold", "find"}, NEW v, Step(a, l, v),
             pc[a] \in {"close", "ext", "sell", "sold"},
             UNCHANGED <<positions, openId, trades, counted>>
      PROVE  IndexInv'
  BY <1>1, <1>2, StepAt, IndexGoes DEF Marked
<1>3. ASSUME AfterClose(a), pc[a] \in {"close", "ext", "sell"},
             UNCHANGED <<positions, openId, trades, counted>>
      PROVE  IndexInv'
  BY <1>1, <1>3, ReturnedAt, IndexGoes DEF Marked
<1>4. CASE ReadPosition(a)
  <2>1. UNCHANGED <<positions, openId, trades, counted>> /\ pc[a] \in {"close", "ext"}
    BY <1>4 DEF ReadPosition, redis, history
  <2>2. CASE positions[w.sym] = NoPos
    BY <1>3, <1>4, <2>1, <2>2 DEF ReadPosition
  <2>3. CASE positions[w.sym] # NoPos
    <3>1. PICK l \in {"sell", "find"} : Step(a, l, [w EXCEPT !.pos = positions[w.sym]])
      BY <1>4, <2>3 DEF ReadPosition
    <3> QED BY <1>2, <2>1, <3>1
  <2> QED BY <2>2, <2>3
<1>5. ASSUME NEW reply \in Replies, PlaceSell(a, reply) PROVE IndexInv'
  <2>1. UNCHANGED <<positions, openId, trades, counted>> /\ pc[a] = "sell"
    BY <1>5 DEF PlaceSell, redis
  <2> QED BY <1>2, <1>3, <1>5, <2>1 DEF PlaceSell
<1>6. ASSUME NEW seen \in Fills, AwaitSell(a, seen) PROVE IndexInv'
  <2>1. UNCHANGED <<positions, openId, trades, counted>> /\ pc[a] = "sold" /\ Step(a, "find", w)
    BY <1>6 DEF AwaitSell, redis, Goto
  <2> QED BY <1>2, <2>1
<1>7. SUFFICES ASSUME ~overlap, crashes = 0, IndexBody PROVE IndexBody'
  BY <1>1 DEF IndexInv
<1>8. /\ \A b \in Actors \ {a} : pc[b] \notin Marked
      /\ pc[a] \in Holding => positions[w.sym].dec = d
  <2>1. \A b \in Actors \ {a} : ~Busy(b)
    BY <1>1, <1>7 DEF SoleInv, Sole, Busy, Closing
  <2> QED BY <1>7, <2>1 DEF SoleInv, Held, Busy, Marked
<1>9. ASSUME NEW l, NEW v, Step(a, l, v) PROVE pc'[a] = l /\ work'[a] = v /\ Alone(a)
  BY <1>8, <1>9, StepAt DEF Alone
<1>10. /\ \A s \in Symbols : Unlisted(s) <=> pc[a] \in {"log", "remove"} /\ w.sym = s
       /\ \A i \in Ids : Closed(i) <=> pc[a] \in {"remove", "total"} /\ d = i
  <2>1. pc[Consumer] # "index"
    BY <1>1, <1>8, Nulls DEF Marked, Closing
  <2> QED BY <1>8, <2>1 DEF Unlisted, Closed, Marked
<1>11. ASSUME Alone(a), pc'[a] # "index"
       PROVE  /\ \A s \in Symbols :
                   Unlisted(s)' <=> pc'[a] \in {"log", "remove"} /\ work'[a].sym = s
              /\ \A i \in Ids : Closed(i)' <=> pc'[a] \in {"remove", "total"} /\ work'[a].pos.dec = i
              /\ \A b \in Actors \ {a} : pc'[b] \notin {"unindex", "log"}
  <2>1. pc'[Consumer] # "index"
    BY <1>11, Nulls DEF Alone, Marked
  <2> QED BY <1>11, <2>1 DEF Unlisted, Closed, Marked, Alone
<1>12. d \in 0..MaxDecisions /\ w.tid \in 0..MaxDecisions /\ (d # 0 => d \in Ids)
       /\ \A i \in Ids : i # 0
  BY Decs
<1> HIDE DEF d
<1>13. CASE FindTrade(a)
  <2> DEFINE v == [w EXCEPT !.tid = openId[w.sym]]
  <2>1. /\ Step(a, "unindex", v) /\ pc[a] = "find"
        /\ UNCHANGED <<positions, openId, trades, counted>>
    BY <1>13 DEF FindTrade, redis, history
  <2>2. v.tid = openId[w.sym] /\ v.pos = w.pos
    BY <1>1 DEF Work
  <2> HIDE DEF v
  <2>3. pc'[a] = "unindex" /\ work'[a] = v /\ Alone(a)
    BY <1>9, <2>1
  <2>4. v.tid = d
    BY <1>1, <1>7, <1>8, <1>10, <2>1, <2>2 DEF IndexBody, Holding
  <2>5. \A s \in Symbols : openId'[s] = IF Unlisted(s)' THEN 0 ELSE positions'[s].dec
    BY <1>7, <1>10, <1>11, <2>1, <2>3 DEF IndexBody
  <2>6. \A i \in Ids : trades'[i] = "CLOSED" <=> counted'[i] > 0 \/ Closed(i)'
    BY <1>7, <1>10, <1>11, <2>1, <2>3 DEF IndexBody
  <2> QED BY <1>11, <2>2, <2>3, <2>4, <2>5, <2>6 DEF IndexBody, d
<1>14. CASE Unindex(a)
  <2> DEFINE l == IF w.tid = 0 THEN "remove" ELSE "log"
  <2>1. /\ Step(a, l, w) /\ pc[a] = "unindex" /\ UNCHANGED <<positions, trades, counted>>
        /\ openId' = [openId EXCEPT ![w.sym] = 0]
    BY <1>14 DEF Unindex, Told, Goto, history
  <2>2. w.tid = d
    BY <1>7, <2>1 DEF IndexBody, d
  <2>3. pc'[a] = l /\ work'[a] = w /\ Alone(a)
    BY <1>9, <2>1
  <2>4. \A s \in Symbols : Unlisted(s)' <=> w.sym = s
    BY <1>11, <2>3
  <2>5. \A s \in Symbols : openId'[s] = IF Unlisted(s)' THEN 0 ELSE positions'[s].dec
    BY <1>1, <1>7, <1>10, <2>1, <2>4 DEF IndexBody
  <2>6. \A i \in Ids : ~Closed(i)' /\ ~Closed(i)
    BY <1>10, <1>11, <1>12, <2>1, <2>2, <2>3 DEF d
  <2>7. \A i \in Ids : trades'[i] = "CLOSED" <=> counted'[i] > 0 \/ Closed(i)'
    BY <1>7, <2>1, <2>6 DEF IndexBody
  <2>8. /\ \A b \in Actors : pc'[b] \in {"unindex", "log"} => work'[b].tid = work'[b].pos.dec
        /\ \A b \in Actors : pc'[b] = "log" => work'[b].tid # 0
    BY <1>11, <2>2, <2>3 DEF d
  <2> QED BY <2>5, <2>7, <2>8 DEF IndexBody
<1>15. CASE LogClose(a)
  <2>1. /\ Step(a, "remove", w) /\ pc[a] = "log" /\ UNCHANGED <<positions, openId, counted>>
        /\ trades' = [trades EXCEPT ![w.tid] = "CLOSED"]
    BY <1>15 DEF LogClose, Goto, history
  <2>2. w.tid = d /\ d # 0
    BY <1>7, <2>1 DEF IndexBody, d
  <2>3. pc'[a] = "remove" /\ work'[a] = w /\ Alone(a)
    BY <1>9, <2>1
  <2>4. \A s \in Symbols : openId'[s] = IF Unlisted(s)' THEN 0 ELSE positions'[s].dec
    BY <1>7, <1>10, <1>11, <2>1, <2>3 DEF IndexBody
  <2>5. \A i \in Ids : ~Closed(i) /\ (Closed(i)' <=> i = d)
    BY <1>10, <1>11, <2>1, <2>3 DEF d
  <2>6. \A i \in Ids : trades'[i] = IF i = d THEN "CLOSED" ELSE trades[i]
    BY <1>1, <2>1, <2>2
  <2>7. \A i \in Ids : trades'[i] = "CLOSED" <=> counted'[i] > 0 \/ Closed(i)'
    BY <1>7, <2>1, <2>5, <2>6 DEF IndexBody
  <2>8. \A b \in Actors : pc'[b] \notin {"unindex", "log"}
    BY <1>11, <2>3
  <2> QED BY <2>4, <2>7, <2>8 DEF IndexBody
<1>16. CASE RemovePosition(a)
  <2>1. /\ Step(a, "total", w) /\ pc[a] = "remove" /\ UNCHANGED <<trades, openId, counted>>
        /\ positions' = [positions EXCEPT ![w.sym] = NoPos]
    BY <1>16 DEF RemovePosition, Without, Goto, history
  <2>2. pc'[a] = "total" /\ work'[a] = w /\ Alone(a)
    BY <1>9, <2>1
  <2>3. \A s \in Symbols : openId'[s] = positions'[s].dec /\ ~Unlisted(s)'
    BY <1>1, <1>7, <1>10, <1>11, <2>1, <2>2, Decs DEF IndexBody
  <2>4. \A i \in Ids : Closed(i)' <=> Closed(i)
    BY <1>10, <1>11, <2>1, <2>2 DEF d
  <2>5. \A i \in Ids : trades'[i] = "CLOSED" <=> counted'[i] > 0 \/ Closed(i)'
    BY <1>7, <2>1, <2>4 DEF IndexBody
  <2>6. \A b \in Actors : pc'[b] \notin {"unindex", "log"}
    BY <1>11, <2>2
  <2> QED BY <2>3, <2>5, <2>6 DEF IndexBody
<1>17. CASE AddRealized(a)
  <2>1. /\ AfterClose(a) /\ UNCHANGED <<positions, trades, openId>> /\ pc[a] = "total"
        /\ counted' = [i \in Ids |-> IF i = d THEN counted[i] + 1 ELSE counted[i]]
    BY <1>17 DEF AddRealized, redis, d
  <2>2. pc'[a] \in {"gate", "watch", "recon", "done"} /\ Alone(a)
    BY <1>1, <1>8, <2>1, ReturnedAt DEF Alone
  <2>3. \A s \in Symbols : openId'[s] = IF Unlisted(s)' THEN 0 ELSE positions'[s].dec
    BY <1>7, <1>10, <1>11, <2>1, <2>2 DEF IndexBody
  <2>4. \A i \in Ids : (Closed(i) <=> i = d) /\ ~Closed(i)'
    BY <1>10, <1>11, <2>1, <2>2
  <2>5. \A i \in Ids : trades'[i] = "CLOSED" <=> counted'[i] > 0 \/ Closed(i)'
    <3>1. ASSUME NEW i \in Ids, i = d PROVE trades'[i] = "CLOSED" /\ counted'[i] > 0
      BY <1>7, <2>1, <2>4, <3>1, Decs DEF IndexBody
    <3>2. ASSUME NEW i \in Ids, i # d PROVE trades'[i] = "CLOSED" <=> counted'[i] > 0
      BY <1>7, <2>1, <2>4, <3>2 DEF IndexBody
    <3> QED BY <2>4, <3>1, <3>2
  <2>6. \A b \in Actors : pc'[b] \notin {"unindex", "log"}
    BY <1>11, <2>2
  <2> QED BY <2>3, <2>5, <2>6 DEF IndexBody
<1>18. IndexInv' => IndexBody'
  BY <1>1, <1>7 DEF IndexInv
<1> QED BY <1>4, <1>5, <1>6, <1>13, <1>14, <1>15, <1>16, <1>17, <1>18 DEF Close

(* Steps of the watcher, decisions, manual closes, crashes and restarts.   *)
LEMMA IndexesOther ==
  ASSUME Types, SoleInv, IndexInv,
         \/ Watch
         \/ \E s \in Symbols, side \in Sides : Decide(s, side)
         \/ \E r \in Requests, s \in Symbols : ManualClose(r, s)
         \/ Crash \/ \E ok \in BOOLEAN : Restart(ok)
  PROVE  IndexInv'
<1>1. Consumer \in Actors /\ Requests \subseteq Actors
  BY Nulls
<1>2. \A l \in Idling \cup {"done", "gate", "close", "ext"} : l \notin Marked
  BY DEF Idling, Marked
<1>3. ASSUME NEW a \in Actors, pc[a] \in Idling, NEW l \in Idling \cup {"gate", "close", "ext"},
             NEW v, Step(a, l, v), UNCHANGED <<openId, trades, counted, crashes>>,
             ~overlap' => ~overlap, \A s \in Symbols : positions'[s].dec = positions[s].dec
      PROVE  IndexInv'
  <2>1. pc'[a] = l /\ \A b \in Actors \ {a} : pc'[b] = pc[b] /\ work'[b] = work[b]
    BY <1>3, StepAt
  <2> QED BY <1>2, <1>3, <2>1, IndexMoves
<1>4. \A l \in {"idle", "watch", "recon_read", "fetch", "recon", "retry"} : l \in Idling
  BY DEF Idling
<1>5. CASE WatchStart
  BY <1>1, <1>3, <1>4, <1>5 DEF WatchStart, Enter, Goto, redis
<1>6. CASE ReconcileRead \/ ReconcileEnd
           \/ (\E due \in BOOLEAN : WatchEnd(due)) \/ \E ok \in BOOLEAN : ReconcileFetch(ok)
  <2>1. PICK l \in {"idle", "watch", "recon_read", "fetch", "recon", "retry"} : Goto(Consumer, l)
    BY <1>6 DEF ReconcileRead, ReconcileEnd, WatchEnd, ReconcileFetch
  <2>2. UNCHANGED <<positions, openId, trades, counted, crashes, overlap>> /\ pc[Consumer] \in Idling
    BY <1>4, <1>6 DEF ReconcileRead, ReconcileEnd, WatchEnd, ReconcileFetch, redis, history
  <2> QED BY <1>1, <1>3, <1>4, <2>1, <2>2 DEF Goto
<1>7. ASSUME NEW s \in Symbols, WatchKeep(s) PROVE IndexInv'
  <2>1. UNCHANGED <<pc, work, openId, trades, counted, crashes, overlap>>
    BY <1>7 DEF WatchKeep, history
  <2>2. ~overlap => positions' = positions
    BY <1>7, WatchKeeps
  <2> QED BY <2>1, <2>2, IndexMoves
<1>8. ASSUME NEW s \in Symbols, WatchExit(s) \/ ReconcileClose(s) PROVE IndexInv'
  <2>1. PICK l \in {"close", "ext"}, v \in {[NoWork EXCEPT !.sym = s, !.caller = "watch"],
                                             [NoWork EXCEPT !.sym = s, !.caller = "recon"]} :
          Step(Consumer, l, v)
    BY <1>8 DEF WatchExit, ReconcileClose
  <2>2. UNCHANGED <<positions, openId, trades, counted, crashes, overlap>> /\ pc[Consumer] \in Idling
    BY <1>4, <1>8 DEF WatchExit, ReconcileClose, Visited, redis, history
  <2> QED BY <1>1, <1>3, <2>1, <2>2
<1>9. ASSUME NEW ok \in BOOLEAN, Retry(ok) PROVE IndexInv'
  <2>1. \A s \in Symbols : positions'[s].dec = positions[s].dec
    BY <1>9, AdoptedDecs DEF Retry
  <2> QED BY <1>1, <1>3, <1>4, <1>9, <2>1 DEF Retry, Goto
<1>10. ASSUME NEW s \in Symbols, NEW side \in Sides, Decide(s, side) PROVE IndexInv'
  <2>1. PICK l \in {"gate", "close"} : \E v : Step(Consumer, l, v)
    BY <1>10 DEF Decide
  <2>2. /\ UNCHANGED <<positions, openId, trades, counted, crashes>> /\ pc[Consumer] = "idle"
        /\ (~overlap' => ~overlap)
    BY <1>10 DEF Decide, Enter, redis
  <2> QED BY <1>1, <1>3, <1>4, <2>1, <2>2
<1>11. ASSUME NEW r \in Requests, NEW s \in Symbols, ManualClose(r, s) PROVE IndexInv'
  BY <1>1, <1>3, <1>4, <1>11 DEF ManualClose, Enter, redis
<1>12. CASE Crash
  <2>1. crashes' # 0
    BY <1>12 DEF Crash, Types, TypeOK
  <2> QED BY <2>1 DEF IndexInv
<1>13. ASSUME NEW ok \in BOOLEAN, Restart(ok) PROVE IndexInv'
  <2>1. UNCHANGED <<pc, work, openId, trades, counted, crashes, overlap>> /\ StartupReconcile(ok)
    BY <1>13 DEF Restart
  <2> QED BY <2>1, AdoptedDecs, IndexMoves
<1> QED BY <1>5, <1>6, <1>7, <1>8, <1>9, <1>10, <1>11, <1>12, <1>13 DEF Watch

(* IndexInv holds at the start.                                            *)
LEMMA IndexInit == Init => IndexInv
<1> SUFFICES ASSUME Init PROVE IndexBody
  BY DEF IndexInv
<1>1. \A s \in Symbols : openId[s] = 0 /\ positions[s].dec = 0
  BY DEF Init, NoBook, NoPos
<1>2. \A a \in Actors : pc[a] = "idle"
  BY DEF Init
<1>3. \A i \in Ids : trades[i] # "CLOSED" /\ counted[i] = 0
  BY DEF Init
<1> QED BY <1>1, <1>2, <1>3 DEF IndexBody, Closed

(* IndexInv is inductive.                                                  *)
LEMMA IndexStep == Types /\ SoleInv /\ CountInv /\ IndexInv /\ [Next]_vars => IndexInv'
<1> SUFFICES ASSUME Types, SoleInv, CountInv, IndexInv, [Next]_vars PROVE IndexInv'
  OBVIOUS
<1>1. ASSUME Exchange \/ (\E o \in Options : UserSale(o))
               \/ (\E s \in Symbols : Age(s) \/ ExpirePending(s)) \/ UNCHANGED vars
      PROVE  IndexInv'
  <2>1. UNCHANGED <<positions, openId, trades, pc, work, counted, overlap, crashes>>
    BY <1>1 DEF Exchange, Traded, Rejected, Refresh, UserSale, Age, ExpirePending, redis, control,
       history, vars
  <2> QED BY <2>1, IndexMoves
<1> QED BY <1>1, IndexesOpen, IndexesClose, IndexesOther DEF Next

(* ClosedIffCounted: between handlers, a trade is recorded as closed if    *)
(* and only if its P&L was counted, whatever happened to its orders, as    *)
(* long as the process did not crash (live_broker.py:313-418).             *)
THEOREM CloseCounted == Spec => []ClosedIffCounted
<1>1. IndexInv => ClosedIffCounted
  BY DEF IndexInv, IndexBody, ClosedIffCounted, Quiet, Closed, Busy
<1> QED BY <1>1, TypesInit, TypesStep, SoleInit, SoleStep, CountInit, CountStep, IndexInit,
           IndexStep, PTL DEF Spec

-----------------------------------------------------------------------------
(* Counting the lots of a book.                                            *)

LEMMA LotsAre ==
  ASSUME NEW b, NEW o, NEW s, NEW n
  PROVE  <<s, n>> \in Lots(b, o) <=> s \in Symbols /\ b[s].opt = o /\ n \in 1..b[s].qty
  BY DEF Lots

LEMMA LotsFinite ==
  ASSUME NEW b \in [Symbols -> Position], NEW o PROVE IsFiniteSet(Lots(b, o))
<1> DEFINE S     == {t \in Symbols : b[t].opt = o}
           piece == [s \in S |-> {s} \X (1..b[s].qty)]
           P     == {piece[s] : s \in S}
<1>1. IsFiniteSet(S)
  BY LiveAssumption, FS_Subset
<1>2. piece \in Surjection(S, P)
  BY DEF Surjection
<1>3. IsFiniteSet(P)
  BY <1>1, <1>2, FS_Surjection
<1>4. ASSUME NEW s \in S PROVE IsFiniteSet(piece[s])
  <2>1. b[s].qty \in Int /\ 1 \in Int
    BY DEF Position
  <2>2. IsFiniteSet(1..b[s].qty) /\ IsFiniteSet({s})
    BY <2>1, FS_Interval, FS_Singleton
  <2>3. IsFiniteSet({s} \X (1..b[s].qty))
    BY <2>2, FS_Product
  <2> QED BY <2>3
<1>5. \A T \in P : IsFiniteSet(T)
  BY <1>4
<1>6. IsFiniteSet(UNION P)
  BY <1>3, <1>5, FS_UNION
<1>7. UNION P = Lots(b, o)
  BY DEF Lots
<1> QED BY <1>6, <1>7

(* A position put on a free symbol adds its quantity to its option.        *)
LEMMA LotsPut ==
  ASSUME NEW b \in [Symbols -> Position], NEW c \in [Symbols -> Position], NEW s \in Symbols,
         b[s] = NoPos, c[s].opt \in Options, \A t \in Symbols \ {s} : c[t] = b[t],
         NEW o \in Options
  PROVE  Cardinality(Lots(c, o)) =
           Cardinality(Lots(b, o)) + (IF o = c[s].opt THEN c[s].qty ELSE 0)
<1> DEFINE q == c[s].qty
           D == {s} \X (1..q)
<1>0. o # NoOpt /\ b[s].opt = NoOpt /\ q \in Nat
  BY Nulls DEF NoPos, Position
<1>1. CASE o # c[s].opt
  <2>1. {t \in Symbols : c[t].opt = o} = {t \in Symbols : b[t].opt = o}
    BY <1>0, <1>1
  <2>2. \A t \in {u \in Symbols : b[u].opt = o} : c[t] = b[t]
    BY <1>0
  <2>3. Lots(c, o) = Lots(b, o)
    BY <2>1, <2>2 DEF Lots
  <2>4. Cardinality(Lots(b, o)) \in Nat
    BY LotsFinite, FS_CardinalityType
  <2> QED BY <1>1, <2>3, <2>4
<1>2. CASE o = c[s].opt
  <2>1. Lots(c, o) = Lots(b, o) \cup D
    <3>1. {t \in Symbols : c[t].opt = o} = {t \in Symbols : b[t].opt = o} \cup {s}
      BY <1>2
    <3>2. \A t \in {u \in Symbols : b[u].opt = o} : c[t] = b[t]
      BY <1>0
    <3> QED BY <3>1, <3>2 DEF Lots
  <2>2. Lots(b, o) \cap D = {}
    BY <1>0 DEF Lots
  <2>3. IsFiniteSet(D) /\ Cardinality(D) = q
    <3>1. IsFiniteSet(1..q) /\ Cardinality(1..q) = q
      BY <1>0, FS_Interval
    <3>2. IsFiniteSet({s}) /\ Cardinality({s}) = 1
      BY FS_Singleton
    <3>3. IsFiniteSet(D) /\ Cardinality(D) = Cardinality({s}) * Cardinality(1..q)
      <4> HIDE DEF q
      <4> QED BY <3>1, <3>2, FS_Product
    <3>4. 1 * q = q
      BY <1>0
    <3> HIDE DEF D, q
    <3> QED BY <3>1, <3>2, <3>3, <3>4
  <2>4. IsFiniteSet(Lots(b, o)) /\ Cardinality(Lots(b, o)) \in Nat
    BY LotsFinite, FS_CardinalityType
  <2>5. Cardinality(Lots(b, o) \cup D) =
          Cardinality(Lots(b, o)) + Cardinality(D) - Cardinality(Lots(b, o) \cap D)
    BY <2>3, <2>4, FS_Union
  <2>6. Cardinality({}) = 0
    BY FS_EmptySet
  <2>7. Cardinality(Lots(c, o)) = Cardinality(Lots(b, o)) + q
    <3>1. q \in Nat
      BY <1>0
    <3> HIDE DEF D, q
    <3>2. Cardinality(Lots(c, o)) = Cardinality(Lots(b, o)) + q - 0
      BY <2>1, <2>2, <2>3, <2>5, <2>6
    <3> QED BY <2>4, <3>1, <3>2
  <2> QED BY <1>2, <2>7 DEF q
<1> QED BY <1>1, <1>2

LEMMA LotsPositive ==
  ASSUME NEW b \in [Symbols -> Position], NEW s \in Symbols, b[s].qty > 0
  PROVE  Cardinality(Lots(b, b[s].opt)) > 0
<1>1. <<s, 1>> \in Lots(b, b[s].opt)
  <2>1. b[s].qty \in Nat
    BY DEF Position
  <2>2. 1 \in 1..b[s].qty
    BY <2>1
  <2> QED BY <2>2, LotsAre
<1>2. IsFiniteSet(Lots(b, b[s].opt))
  BY LotsFinite
<1> QED BY <1>1, <1>2, FS_EmptySet, FS_CardinalityType

LEMMA LotsEmpty == \A o \in Options : Cardinality(Lots(NoBook, o)) = 0
<1> SUFFICES ASSUME NEW o \in Options PROVE Cardinality(Lots(NoBook, o)) = 0
  OBVIOUS
<1>1. {t \in Symbols : NoBook[t].opt = o} = {}
  BY Nulls DEF NoBook, NoPos
<1>2. Lots(NoBook, o) = {}
  BY <1>1 DEF Lots
<1> QED BY <1>2, FS_EmptySet

-----------------------------------------------------------------------------
(* The account and the book.                                               *)

(* What the account should hold: the book, with a fill that is not yet     *)
(* recorded put in or taken out.                                           *)
Selling     == {"find", "unindex", "log", "remove"}
Trading     == {"await", "record", "sold"} \cup Selling
Filled(a)   == orders[work[a].ord].status = "TRADED"
Buys        == pc[Consumer] = "record" \/ (pc[Consumer] = "await" /\ Filled(Consumer))
Sells(a)    == pc[a] \in Selling \/ (pc[a] = "sold" /\ Filled(a))
BoughtAt(s) == OpenSym = s /\ Buys
SoldAt(s)   == \E a \in Actors : work[a].sym = s /\ Sells(a)
Owned == [s \in Symbols |-> IF SoldAt(s) THEN NoPos
                            ELSE IF BoughtAt(s) THEN Opened ELSE positions[s]]

(* Before the first start: an empty Redis, at most one holding.            *)
Fresh == /\ positions = NoBook /\ shown = net /\ placed = 0
         /\ \A o \in Options : net[o] \in {0, 1}
         /\ \A o, p \in Options : net[o] # 0 /\ net[p] # 0 => o = p

(* An order that still works is that of the handler which waits for it.    *)
Placed ==
  /\ \A i \in 1..placed : orders[i].status = "WORKING" =>
       \E a \in Actors : pc[a] \in {"await", "sold"} /\ work[a].ord = i
  /\ pc[Consumer] = "await" =>
       LET o == orders[work[Consumer].ord]
       IN  /\ work[Consumer].ord \in 1..placed
           /\ o.opt = Opened.opt /\ o.side = "BUY" /\ o.qty = 1
  /\ \A a \in Actors : pc[a] = "sold" =>
       LET o == orders[work[a].ord]
       IN  /\ work[a].ord \in 1..placed
           /\ o.opt = work[a].pos.opt /\ o.side = "SELL" /\ o.qty = work[a].pos.qty
           /\ o.status \in {"WORKING", "TRADED"}

(* An aged position is one that the positions API shows: none is missing.  *)
Visible == \A s \in Symbols \ young :
             positions[s] # NoPos /\ ~SoldAt(s) => shown[positions[s].opt] > 0
NoneMissing == /\ \A a \in Actors : pc[a] # "ext"
               /\ pc[Consumer] = "recon" => todo = NoBook
               /\ pc[Consumer] \in Closing => work[Consumer].caller # "recon"
Lotted == \A s \in Symbols : positions[s] # NoPos =>
            positions[s].opt \in Options /\ positions[s].qty > 0

BookBody ==
  /\ ~retry /\ Placed /\ NoneMissing /\ Lotted
  /\ ~up => Fresh
  /\ up => Visible /\ \A o \in Options : net[o] = Cardinality(Lots(Owned, o))
Clean   == ~overlap /\ mishaps + crashes = 0
BookInv == Clean => BookBody

(* A mishap ends what BookInv is about.                                    *)
LEMMA Unclean == Types /\ Mishap /\ UNCHANGED crashes => ~Clean'
  BY DEF Types, TypeOK, Mishap, Clean

(* The position an entry opens, and what is owned, are positions.          *)
LEMMA OpenedType ==
  ASSUME Types, pc[Consumer] \in Opening
  PROVE  Opened \in Position /\ Opened.opt \in Options /\ Opened.qty = 1 /\ OpenSym \in Symbols
         /\ Opened # NoPos /\ Opened.opt = <<OpenSym, work[Consumer].side>>
<1>1. OpenSym \in Symbols /\ work[Consumer].side \in Sides /\ work[Consumer].dec \in Ids
  BY DEF Types, Callers, OpenSym
<1>2. Opened.qty = 1 /\ NoPos.qty = 0
  BY DEF Opened, NoPos
<1> QED BY <1>1, <1>2 DEF Opened, Position, Options, Ids

LEMMA OwnedType == Types => Owned \in [Symbols -> Position]
<1> SUFFICES ASSUME Types PROVE Owned \in [Symbols -> Position]
  OBVIOUS
<1>1. Buys => Opened \in Position
  BY OpenedType DEF Buys, Opening
<1>2. positions \in [Symbols -> Position]
  BY DEF Types, TypeOK
<1> QED BY <1>1, <1>2, Nulls DEF Owned, BoughtAt

(* While a handler runs, the others do not trade.                          *)
LEMMA OthersRest ==
  ASSUME SoleInv, ~overlap, NEW a \in Actors, Busy(a)
  PROVE  up /\ \A b \in Actors \ {a} : ~Busy(b) /\ pc[b] \notin Trading
  BY DEF SoleInv, Downed, Sole, Busy, Trading, Selling

(* A recorded position that is not being sold is in the account.           *)
LEMMA OwnedShows ==
  ASSUME Types, SoleInv, ~overlap, BookBody, up,
         NEW s \in Symbols, positions[s] # NoPos, ~SoldAt(s)
  PROVE  net[positions[s].opt] > 0
<1>1. ~BoughtAt(s)
  BY DEF SoleInv, Free, BoughtAt, Buys
<1>2. Owned[s] = positions[s] /\ positions[s].opt \in Options /\ positions[s].qty > 0
  BY <1>1 DEF Owned, BookBody, Lotted
<1>3. Cardinality(Lots(Owned, Owned[s].opt)) > 0
  BY <1>2, OwnedType, LotsPositive
<1> QED BY <1>2, <1>3 DEF BookBody

(* A step that changes neither what is owned nor what is held.             *)
LEMMA BookSame ==
  ASSUME BookBody, up, up', UNCHANGED <<net, shown, retry>>, Owned' = Owned,
         Placed', NoneMissing', Lotted', Visible'
  PROVE  BookBody'
  BY DEF BookBody

(* A step of a handler between labels at which it does not trade.          *)
LEMMA BookGoes ==
  ASSUME Types, BookBody, up, up', NEW a \in Actors,
         \A b \in Actors \ {a} : pc'[b] = pc[b] /\ work'[b] = work[b],
         pc[a] \notin Trading, pc'[a] \notin Trading \cup {"ext"},
         UNCHANGED <<net, shown, orders, placed, retry, positions, young>>,
         a # Consumer => todo' = todo,
         a = Consumer /\ pc'[a] = "recon" => todo' = NoBook,
         a = Consumer /\ pc'[a] \in Closing => work'[a].caller # "recon"
  PROVE  BookBody'
<1>1. \A s : SoldAt(s)' <=> SoldAt(s)
  BY DEF SoldAt, Sells, Filled, Trading
<1>2. /\ Buys' <=> Buys
      /\ Buys => Opened' = Opened /\ OpenSym' = OpenSym
  BY Nulls DEF Buys, Opened, OpenSym, Filled, Trading
<1>3. Owned' = Owned
  BY <1>1, <1>2 DEF Owned, BoughtAt
<1>4. \A b \in Actors : pc'[b] \in {"await", "sold"} \/ pc[b] \in {"await", "sold"} =>
        pc'[b] = pc[b] /\ work'[b] = work[b]
  BY DEF Trading
<1>5. Placed'
  BY <1>4, Nulls DEF BookBody, Placed, Opened, OpenSym
<1>6. NoneMissing'
  BY Nulls DEF BookBody, NoneMissing
<1>7. Lotted' /\ Visible'
  BY <1>1 DEF BookBody, Lotted, Visible
<1> QED BY <1>3, <1>5, <1>6, <1>7, BookSame

(* Nothing works once nobody waits.                                        *)
LEMMA PlacedIdle ==
  ASSUME \A b \in Actors : pc'[b] \notin {"await", "sold"},
         \A i \in 1..placed' : orders'[i].status # "WORKING"
  PROVE  Placed'
  BY Nulls DEF Placed

(* An entry under way that neither buys nor records what it has bought, or *)
(* does record it.                                                         *)
LEMMA BookBuys ==
  ASSUME Types, BookBody, up, up', pc[Consumer] \in Opening, pc'[Consumer] \in Opening \cup {"idle"},
         \A b \in Actors \ {Consumer} : pc'[b] = pc[b] /\ work'[b] = work[b] /\ pc[b] \notin Trading,
         UNCHANGED <<net, shown, retry>>, Placed',
         \/ /\ UNCHANGED <<positions, young>> /\ (Buys' <=> Buys)
            /\ Buys => Opened' = Opened /\ OpenSym' = OpenSym
         \/ /\ Buys /\ ~Buys'
            /\ positions' = [positions EXCEPT ![OpenSym] = Opened] /\ young' = young \cup {OpenSym}
  PROVE  BookBody'
<1>1. \A s : ~SoldAt(s)' /\ ~SoldAt(s)
  BY DEF SoldAt, Sells, Trading, Selling, Opening
<1>2. positions \in [Symbols -> Position] /\ Opened.opt \in Options /\ Opened.qty > 0
      /\ OpenSym \in Symbols
  BY OpenedType DEF Types, TypeOK
<1>3. NoneMissing'
  BY Nulls DEF BookBody, NoneMissing, Opening, Closing, Trading, Selling
<1>4. Owned' = Owned
  BY <1>1, <1>2 DEF Owned, BoughtAt
<1>5. Lotted' /\ Visible'
  BY <1>1, <1>2 DEF BookBody, Lotted, Visible
<1> QED BY <1>3, <1>4, <1>5, BookSame

(* A close under way that neither sells nor removes what it has sold, or   *)
(* does remove it.                                                         *)
LEMMA BookSells ==
  ASSUME Types, BookBody, up, up', NEW a \in Actors, pc[a] \in Closing, pc'[a] \in Closing \ {"ext"},
         \A b \in Actors \ {a} : pc'[b] = pc[b] /\ work'[b] = work[b] /\ pc[b] \notin Trading,
         work'[a].sym = work[a].sym, work'[a].caller = work[a].caller,
         UNCHANGED <<net, shown, retry, todo, young>>, Placed',
         \/ UNCHANGED positions /\ (Sells(a)' <=> Sells(a))
         \/ /\ positions' = [positions EXCEPT ![work[a].sym] = NoPos]
            /\ work[a].sym \in Symbols /\ Sells(a) /\ ~Sells(a)'
  PROVE  BookBody'
<1>1. \A s : /\ SoldAt(s) <=> work[a].sym = s /\ Sells(a)
             /\ SoldAt(s)' <=> work[a].sym = s /\ Sells(a)'
  BY DEF SoldAt, Sells, Trading, Selling
<1>2. ~Buys /\ ~Buys'
  BY Nulls DEF Buys, Trading, Closing
<1>3. positions \in [Symbols -> Position]
  BY DEF Types, TypeOK
<1>4. NoneMissing'
  BY Nulls DEF BookBody, NoneMissing, Closing
<1>5. Owned' = Owned
  BY <1>1, <1>2, <1>3 DEF Owned, BoughtAt
<1>6. Lotted' /\ Visible'
  BY <1>1, <1>3 DEF BookBody, Lotted, Visible
<1> QED BY <1>4, <1>5, <1>6, BookSame

(* What an accepted order leaves in the list.                              *)
LEMMA PlacedOrder ==
  ASSUME Types, NEW o, NEW side, NEW qty, NEW reply \in {"ok", "lost"},
         PlaceOrder(o, side, qty, reply)
  PROVE  /\ placed' = placed + 1 /\ placed + 1 \in 1..placed' /\ placed \in Nat
         /\ orders'[placed + 1] = [opt |-> o, side |-> side, qty |-> qty, status |-> "WORKING"]
         /\ \A i \in 1..placed : orders'[i] = orders[i]
         /\ \A i \in 1..placed' : i \in 1..placed \/ i = placed + 1
<1>1. /\ placed < MaxOrders /\ placed' = placed + 1 /\ placed \in Nat /\ MaxOrders \in Nat
      /\ orders \in [1..MaxOrders -> Order]
      /\ orders' = [orders EXCEPT ![placed + 1] =
                      [opt |-> o, side |-> side, qty |-> qty, status |-> "WORKING"]]
  BY LiveAssumption DEF PlaceOrder, Types, TypeOK
<1>2. placed + 1 \in 1..MaxOrders /\ \A i \in 1..placed : i \in 1..MaxOrders /\ i # placed + 1
  BY <1>1
<1> QED BY <1>1, <1>2

(* A reply that is lost and an order of unknown fate are mishaps.          *)
LEMMA CleanOrder ==
  ASSUME Types, Clean', UNCHANGED crashes, NEW o, NEW side, NEW qty, NEW reply \in Replies,
         PlaceOrder(o, side, qty, reply)
  PROVE  /\ UNCHANGED mishaps /\ reply # "lost"
         /\ reply # "ok" => UNCHANGED <<orders, placed>>
  BY Unclean DEF PlaceOrder, Replies

LEMMA CleanPoll ==
  ASSUME Types, Clean', UNCHANGED crashes, NEW i, NEW seen, Polled(i, seen)
  PROVE  UNCHANGED mishaps /\ seen # "TIMEOUT" /\ seen = orders[i].status
  BY Unclean DEF Polled

(* Steps of open_position.                                                 *)
LEMMA BookOpen == Types /\ SoleInv /\ BookInv /\ Open => BookInv'
<1> SUFFICES ASSUME Types, SoleInv, BookInv, Open, Clean' PROVE BookBody'
  BY DEF BookInv
<1> DEFINE w == work[Consumer]
<1>1. /\ pc[Consumer] \in Opening /\ UNCHANGED <<up, overlap, crashes, net, shown, retry, todo>>
      /\ Consumer \in Actors /\ w \in Work
  BY Nulls DEF Types, TypeOK, Open, OpenGate, PlaceBuy, AwaitBuy, RecordOpen, IndexOpen, Opening,
     account, history
<1>2. UNCHANGED mishaps
  <2>1. ASSUME NEW reply \in Replies, PlaceBuy(reply) PROVE UNCHANGED mishaps
    BY <1>1, <2>1, CleanOrder DEF PlaceBuy
  <2>2. ASSUME NEW seen \in Fills, AwaitBuy(seen) PROVE UNCHANGED mishaps
    BY <1>1, <2>2, CleanPoll DEF AwaitBuy
  <2> QED BY <2>1, <2>2 DEF Open, OpenGate, RecordOpen, IndexOpen, history
<1>3. BookBody /\ up /\ \A b \in Actors \ {Consumer} : pc[b] \notin Trading
  <2>1. BookBody /\ ~overlap
    BY <1>1, <1>2 DEF BookInv, Clean
  <2>2. Busy(Consumer)
    BY <1>1 DEF Busy, Opening
  <2> QED BY <1>1, <2>1, <2>2, OthersRest
<1>4. pc[Consumer] # "await" => \A i \in 1..placed : orders[i].status # "WORKING"
  BY <1>1, <1>3 DEF BookBody, Placed, Trading, Opening
<1>5. ASSUME NEW l \in {"buy", "idle"}, NEW v, Step(Consumer, l, v),
             pc[Consumer] \in {"gate", "buy", "index"},
             UNCHANGED <<orders, placed, positions, young>>
      PROVE  BookBody'
  <2>1. pc'[Consumer] = l /\ \A b \in Actors \ {Consumer} : pc'[b] = pc[b] /\ work'[b] = work[b]
    BY <1>1, <1>5, StepAt
  <2>2. l \notin Trading \cup {"ext", "recon"} \cup Closing /\ pc[Consumer] \notin Trading
    BY <1>5 DEF Trading, Selling, Closing
  <2> QED BY <1>1, <1>3, <1>5, <2>1, <2>2, BookGoes
<1>6. ASSUME NEW funds \in BOOLEAN, OpenGate(funds) PROVE BookBody'
  BY <1>5, <1>6 DEF OpenGate, Goto, Finish, account
<1>7. ASSUME NEW l \in {"idle", "await", "record", "index"}, NEW v, Step(Consumer, l, v)
      PROVE  /\ pc'[Consumer] = l /\ work'[Consumer] = v /\ pc'[Consumer] \in Opening \cup {"idle"}
             /\ \A b \in Actors \ {Consumer} : /\ pc'[b] = pc[b] /\ work'[b] = work[b]
                                               /\ pc[b] \notin Trading /\ pc'[b] # "sold"
  BY <1>1, <1>3, <1>7, StepAt DEF Opening, Trading
<1>8. ASSUME NEW reply \in Replies, PlaceBuy(reply) PROVE BookBody'
  <2>1. /\ PlaceOrder(<<w.sym, w.side>>, "BUY", 1, reply) /\ pc[Consumer] = "buy"
        /\ UNCHANGED <<positions, young>>
    BY <1>8 DEF PlaceBuy
  <2>2. reply # "lost" /\ (reply # "ok" => UNCHANGED <<orders, placed>>)
    BY <1>1, <2>1, CleanOrder
  <2>3. CASE reply = "ok"
    <3> DEFINE v == [w EXCEPT !.ord = placed + 1]
    <3>1. Step(Consumer, "await", v)
      BY <1>8, <2>3 DEF PlaceBuy
    <3>2. v.ord = placed + 1 /\ v.sym = w.sym /\ v.side = w.side
      BY <1>1 DEF Work
    <3> HIDE DEF v
    <3>3. /\ pc'[Consumer] = "await" /\ work'[Consumer] = v
          /\ \A b \in Actors \ {Consumer} : /\ pc'[b] = pc[b] /\ work'[b] = work[b]
                                            /\ pc[b] \notin Trading /\ pc'[b] # "sold"
      BY <1>7, <3>1
    <3>4. /\ placed' = placed + 1 /\ placed + 1 \in 1..placed'
          /\ orders'[placed + 1] = [opt |-> <<w.sym, w.side>>, side |-> "BUY", qty |-> 1,
                                    status |-> "WORKING"]
          /\ \A i \in 1..placed : orders'[i] = orders[i]
          /\ \A i \in 1..placed' : i \in 1..placed \/ i = placed + 1
      BY <2>1, <2>3, PlacedOrder
    <3>5. Opened'.opt = <<w.sym, w.side>>
      BY <3>2, <3>3 DEF Opened, OpenSym
    <3>6. \A i \in 1..placed' : orders'[i].status = "WORKING" => work'[Consumer].ord = i
      BY <1>4, <2>1, <3>2, <3>3, <3>4
    <3>7. Placed'
      BY <1>1, <3>2, <3>3, <3>4, <3>5, <3>6 DEF Placed
    <3>8. ~Buys /\ ~Buys'
      BY <2>1, <3>2, <3>3, <3>4 DEF Buys, Filled
    <3>9. pc'[Consumer] \in Opening \cup {"idle"}
      BY <3>3 DEF Opening
    <3> QED BY <1>1, <1>3, <2>1, <3>3, <3>7, <3>8, <3>9, BookBuys
  <2>4. CASE reply # "ok"
    BY <1>5, <1>8, <2>1, <2>2, <2>4 DEF PlaceBuy, Finish
  <2> QED BY <2>3, <2>4
<1>9. ASSUME NEW seen \in Fills, AwaitBuy(seen) PROVE BookBody'
  <2>1. /\ pc[Consumer] = "await" /\ UNCHANGED <<orders, placed, positions, young>>
        /\ seen = orders[w.ord].status /\ seen \in {"TRADED", "REJECTED"}
    BY <1>1, <1>9, CleanPoll DEF AwaitBuy, account, Fills
  <2>2. \A i \in 1..placed : orders[i].status # "WORKING"
    BY <1>3, <2>1 DEF BookBody, Placed, Trading
  <2>3. CASE seen = "REJECTED"
    <3>1. Step(Consumer, "idle", NoWork)
      BY <1>9, <2>3 DEF AwaitBuy, Finish
    <3>2. /\ pc'[Consumer] = "idle" /\ pc'[Consumer] \in Opening \cup {"idle"}
          /\ \A b \in Actors \ {Consumer} : /\ pc'[b] = pc[b] /\ work'[b] = work[b]
                                            /\ pc[b] \notin Trading /\ pc'[b] # "sold"
      BY <1>7, <3>1
    <3>3. Placed'
      BY <2>1, <2>2, <3>2, PlacedIdle DEF Trading
    <3>4. ~Buys /\ ~Buys'
      BY <2>1, <2>3, <3>2 DEF Buys, Filled
    <3> QED BY <1>1, <1>3, <2>1, <3>2, <3>3, <3>4, BookBuys
  <2>4. CASE seen = "TRADED"
    <3>1. Step(Consumer, "record", w)
      BY <1>9, <2>4 DEF AwaitBuy, Goto
    <3>2. /\ pc'[Consumer] = "record" /\ pc'[Consumer] \in Opening \cup {"idle"}
          /\ work'[Consumer] = w
          /\ \A b \in Actors \ {Consumer} : /\ pc'[b] = pc[b] /\ work'[b] = work[b]
                                            /\ pc[b] \notin Trading /\ pc'[b] # "sold"
      BY <1>7, <3>1
    <3>3. Placed'
      BY <2>1, <2>2, <3>2, PlacedIdle DEF Trading
    <3>4. Buys /\ Buys' /\ Opened' = Opened /\ OpenSym' = OpenSym
      BY <2>1, <2>4, <3>2 DEF Buys, Filled, Opened, OpenSym
    <3> QED BY <1>1, <1>3, <2>1, <3>2, <3>3, <3>4, BookBuys
  <2> QED BY <2>1, <2>3, <2>4
<1>10. CASE RecordOpen
  <2>1. /\ Step(Consumer, "index", w) /\ UNCHANGED <<orders, placed>> /\ pc[Consumer] = "record"
        /\ positions' = [positions EXCEPT ![OpenSym] = Opened] /\ young' = young \cup {OpenSym}
    BY <1>10 DEF RecordOpen, Goto, account, OpenSym, Opened
  <2>2. /\ pc'[Consumer] = "index" /\ pc'[Consumer] \in Opening \cup {"idle"}
        /\ \A b \in Actors \ {Consumer} : /\ pc'[b] = pc[b] /\ work'[b] = work[b]
                                          /\ pc[b] \notin Trading /\ pc'[b] # "sold"
    BY <1>7, <2>1
  <2>3. Placed'
    BY <1>4, <2>1, <2>2, PlacedIdle DEF Trading
  <2>4. Buys /\ ~Buys'
    BY <2>1, <2>2 DEF Buys
  <2> QED BY <1>1, <1>3, <2>1, <2>2, <2>3, <2>4, BookBuys
<1>11. CASE IndexOpen
  BY <1>5, <1>11 DEF IndexOpen, Finish, account
<1> QED BY <1>6, <1>8, <1>9, <1>10, <1>11 DEF Open

(* Steps of a close.                                                       *)
LEMMA BookClose ==
  ASSUME Types, SoleInv, BookInv, NEW a \in Actors, Close(a) PROVE BookInv'
<1> SUFFICES ASSUME Clean' PROVE BookBody'
  BY DEF BookInv
<1> DEFINE w == work[a]
<1>1. /\ pc[a] \in Closing /\ UNCHANGED <<up, overlap, crashes, net, shown, retry, todo, young>>
      /\ w \in Work /\ w.sym \in Symbols
  <2>1. pc[a] \in Closing /\ UNCHANGED <<up, overlap, crashes, net, shown, retry, todo, young>>
    BY DEF Close, ReadPosition, PlaceSell, AwaitSell, FindTrade, Unindex, LogClose,
           RemovePosition, AddRealized, Closing, account, redis, history
  <2> QED BY <2>1 DEF Types, TypeOK, Callers, Actors
<1>2. UNCHANGED mishaps
  <2>1. ASSUME NEW reply \in Replies, PlaceSell(a, reply) PROVE UNCHANGED mishaps
    BY <1>1, <2>1, CleanOrder DEF PlaceSell
  <2>2. ASSUME NEW seen \in Fills, AwaitSell(a, seen) PROVE UNCHANGED mishaps
    BY <1>1, <2>2, CleanPoll DEF AwaitSell
  <2> QED BY <2>1, <2>2 DEF Close, ReadPosition, FindTrade, Unindex, LogClose, RemovePosition,
                            AddRealized, history
<1>3. BookBody /\ up /\ \A b \in Actors \ {a} : pc[b] \notin Trading
  <2>1. BookBody /\ ~overlap
    BY <1>1, <1>2 DEF BookInv, Clean
  <2>2. Busy(a)
    BY <1>1 DEF Busy, Closing
  <2> QED BY <1>1, <2>1, <2>2, OthersRest
<1>4. pc[a] # "sold" => \A i \in 1..placed : orders[i].status # "WORKING"
  BY <1>1, <1>3 DEF BookBody, Placed, Trading, Closing
<1>5. pc[a] # "ext" /\ (a = Consumer => w.caller # "recon")
  BY <1>1, <1>3 DEF BookBody, NoneMissing
<1>6. ASSUME NEW l \in Closing \ {"ext"}, NEW v, Step(a, l, v)
      PROVE  /\ pc'[a] = l /\ work'[a] = v /\ pc'[a] \in Closing \ {"ext"}
             /\ \A b \in Actors \ {a} : pc'[b] = pc[b] /\ work'[b] = work[b] /\ pc[b] \notin Trading
  BY <1>3, <1>6, StepAt
<1>7. \A l \in {"sell", "sold", "find", "unindex", "log", "remove", "total"} : l \in Closing \ {"ext"}
  BY DEF Closing
<1>8. ASSUME AfterClose(a), pc[a] \in {"close", "sell", "total"},
             UNCHANGED <<orders, placed, positions>>
      PROVE  BookBody'
  <2>1. /\ pc'[a] \in {"gate", "watch", "recon", "done"} /\ (pc'[a] = "recon" => w.caller = "recon")
        /\ (pc'[a] = "recon" => a = Consumer)
        /\ \A b \in Actors \ {a} : pc'[b] = pc[b] /\ work'[b] = work[b]
    BY <1>1, <1>8, ReturnedAt
  <2>2. pc[a] \notin Trading /\ pc'[a] \notin Trading \cup Closing \cup {"ext"} /\ pc'[a] # "recon"
    BY <1>5, <1>8, <2>1 DEF Trading, Selling, Closing
  <2> QED BY <1>1, <1>3, <1>8, <2>1, <2>2, BookGoes
<1>9. CASE ReadPosition(a)
  <2>1. UNCHANGED <<orders, placed, positions>> /\ pc[a] = "close"
    BY <1>5, <1>9 DEF ReadPosition, account, redis
  <2>2. CASE positions[w.sym] = NoPos
    BY <1>8, <1>9, <2>1, <2>2 DEF ReadPosition
  <2>3. CASE positions[w.sym] # NoPos
    <3> DEFINE v == [w EXCEPT !.pos = positions[w.sym]]
    <3>1. Step(a, "sell", v)
      BY <1>9, <2>1, <2>3 DEF ReadPosition
    <3>2. v.sym = w.sym /\ v.caller = w.caller
      BY <1>1 DEF Work
    <3> HIDE DEF v
    <3>3. /\ pc'[a] = "sell" /\ work'[a] = v
          /\ \A b \in Actors \ {a} : pc'[b] = pc[b] /\ work'[b] = work[b]
      BY <1>6, <1>7, <3>1
    <3>4. {"close", "sell"} \cap Trading = {}
      BY DEF Trading, Selling
    <3> QED BY <1>1, <1>3, <1>5, <2>1, <3>2, <3>3, <3>4, BookGoes
  <2> QED BY <2>2, <2>3
<1>10. ASSUME NEW reply \in Replies, PlaceSell(a, reply) PROVE BookBody'
  <2>1. /\ PlaceOrder(w.pos.opt, "SELL", w.pos.qty, reply) /\ pc[a] = "sell" /\ UNCHANGED positions
    BY <1>10 DEF PlaceSell, redis
  <2>2. reply # "lost" /\ (reply # "ok" => UNCHANGED <<orders, placed>>)
    BY <1>1, <2>1, CleanOrder
  <2>3. CASE reply = "ok"
    <3> DEFINE v == [w EXCEPT !.ord = placed + 1]
    <3>1. Step(a, "sold", v)
      BY <1>10, <2>3 DEF PlaceSell
    <3>2. v.ord = placed + 1 /\ v.sym = w.sym /\ v.caller = w.caller /\ v.pos = w.pos
      BY <1>1 DEF Work
    <3> HIDE DEF v
    <3>3. /\ pc'[a] = "sold" /\ work'[a] = v /\ pc'[a] \in Closing \ {"ext"}
          /\ \A b \in Actors \ {a} : pc'[b] = pc[b] /\ work'[b] = work[b] /\ pc[b] \notin Trading
      BY <1>6, <1>7, <3>1
    <3>4. /\ placed' = placed + 1 /\ placed + 1 \in 1..placed'
          /\ orders'[placed + 1] = [opt |-> w.pos.opt, side |-> "SELL", qty |-> w.pos.qty,
                                    status |-> "WORKING"]
          /\ \A i \in 1..placed : orders'[i] = orders[i]
          /\ \A i \in 1..placed' : i \in 1..placed \/ i = placed + 1
      BY <2>1, <2>3, PlacedOrder
    <3>5. \A i \in 1..placed' : orders'[i].status = "WORKING" => work'[a].ord = i
      BY <1>4, <2>1, <3>2, <3>3, <3>4
    <3>6. \A b \in Actors : (pc'[b] = "sold" => b = a) /\ pc'[b] # "await"
      BY <3>3 DEF Trading
    <3>7. Placed'
      BY <3>2, <3>3, <3>4, <3>5, <3>6, Nulls DEF Placed
    <3>8. ~Sells(a) /\ ~Sells(a)'
      BY <2>1, <3>2, <3>3, <3>4 DEF Sells, Selling, Filled
    <3> QED BY <1>1, <1>3, <2>1, <3>2, <3>3, <3>7, <3>8, BookSells
  <2>4. CASE reply # "ok"
    BY <1>8, <1>10, <2>1, <2>2, <2>4 DEF PlaceSell
  <2> QED BY <2>3, <2>4
<1>11. ASSUME NEW l \in Selling, NEW v, Step(a, l, v), v.sym = w.sym, v.caller = w.caller, Sells(a),
              UNCHANGED <<orders, placed, positions>>,
              \A i \in 1..placed : orders[i].status # "WORKING"
       PROVE  BookBody'
  <2>1. l \in Closing \ {"ext"}
    BY <1>7 DEF Selling
  <2>2. /\ pc'[a] = l /\ work'[a] = v /\ pc'[a] \in Closing \ {"ext"}
        /\ \A b \in Actors \ {a} : pc'[b] = pc[b] /\ work'[b] = work[b] /\ pc[b] \notin Trading
    BY <1>6, <1>11, <2>1
  <2>3. Placed'
    BY <1>11, <2>2, PlacedIdle DEF Trading, Selling
  <2>4. Sells(a)'
    BY <2>2 DEF Sells
  <2> QED BY <1>1, <1>3, <1>11, <2>2, <2>3, <2>4, BookSells
<1>12. ASSUME NEW seen \in Fills, AwaitSell(a, seen) PROVE BookBody'
  <2>1. /\ pc[a] = "sold" /\ UNCHANGED <<orders, placed, positions>> /\ Step(a, "find", w)
        /\ seen = orders[w.ord].status /\ seen \in {"TRADED", "REJECTED"}
    BY <1>1, <1>12, CleanPoll DEF AwaitSell, account, redis, Fills, Goto
  <2>2. orders[w.ord].status = "TRADED"
    BY <1>3, <2>1 DEF BookBody, Placed
  <2>3. \A i \in 1..placed : orders[i].status # "WORKING"
    BY <1>3, <2>1, <2>2 DEF BookBody, Placed, Trading
  <2> QED BY <1>11, <2>1, <2>2, <2>3 DEF Sells, Filled, Selling
<1>13. CASE FindTrade(a)
  <2> DEFINE v == [w EXCEPT !.tid = openId[w.sym]]
  <2>1. Step(a, "unindex", v) /\ pc[a] = "find" /\ UNCHANGED <<orders, placed, positions>>
    BY <1>13 DEF FindTrade, account, redis
  <2>2. v.sym = w.sym /\ v.caller = w.caller
    BY <1>1 DEF Work
  <2> HIDE DEF v
  <2> QED BY <1>4, <1>11, <2>1, <2>2 DEF Sells, Selling
<1>14. CASE Unindex(a)
  <2>1. PICK l \in {"remove", "log"} : Goto(a, l)
    BY <1>14 DEF Unindex, Told
  <2> QED BY <1>4, <1>11, <1>14, <2>1 DEF Unindex, account, Sells, Selling, Goto
<1>15. CASE LogClose(a)
  BY <1>4, <1>11, <1>15 DEF LogClose, account, Sells, Selling, Goto
<1>16. CASE RemovePosition(a)
  <2>1. /\ Step(a, "total", w) /\ pc[a] = "remove" /\ UNCHANGED <<orders, placed>>
        /\ positions' = [positions EXCEPT ![w.sym] = NoPos]
    BY <1>16 DEF RemovePosition, Without, Goto, account
  <2>2. /\ pc'[a] = "total" /\ work'[a] = w /\ pc'[a] \in Closing \ {"ext"}
        /\ \A b \in Actors \ {a} : pc'[b] = pc[b] /\ work'[b] = work[b] /\ pc[b] \notin Trading
    BY <1>6, <1>7, <2>1
  <2>3. Placed'
    BY <1>4, <2>1, <2>2, PlacedIdle DEF Trading
  <2>4. Sells(a) /\ ~Sells(a)'
    BY <2>1, <2>2 DEF Sells, Selling
  <2> QED BY <1>1, <1>3, <2>1, <2>2, <2>3, <2>4, BookSells
<1>17. CASE AddRealized(a)
  BY <1>8, <1>17 DEF AddRealized, account, redis
<1> QED BY <1>9, <1>10, <1>12, <1>13, <1>14, <1>15, <1>16, <1>17 DEF Close

(* Steps of the watcher: no recorded position is missing in the account.   *)
LEMMA BookWatch == Types /\ SoleInv /\ BookInv /\ Watch => BookInv'
<1> SUFFICES ASSUME Types, SoleInv, BookInv, Watch, Clean' PROVE BookBody'
  BY DEF BookInv
<1>1. Consumer \in Actors /\ pc[Consumer] \in Idling /\ todo \in [Symbols -> Position]
  BY Nulls DEF Types, TypeOK, Watch, WatchStart, WatchKeep, WatchExit, ReconcileClose, WatchEnd,
     ReconcileRead, ReconcileEnd, ReconcileFetch, Retry, Visited, Idling
<1>2. ASSUME BookBody, up, up', UNCHANGED <<account, retry, positions, young>>,
             NEW l \in Idling \cup {"close"}, NEW v, Step(Consumer, l, v),
             l = "recon" => todo' = NoBook, l = "close" => v.caller # "recon"
      PROVE  BookBody'
  <2>1. /\ pc'[Consumer] = l /\ work'[Consumer] = v
        /\ \A b \in Actors \ {Consumer} : pc'[b] = pc[b] /\ work'[b] = work[b]
    BY <1>1, <1>2, StepAt
  <2>2. /\ pc[Consumer] \notin Trading /\ pc'[Consumer] \notin Trading \cup {"ext"}
        /\ pc'[Consumer] \in Closing => l = "close"
    BY <1>1, <1>2, <2>1 DEF Trading, Selling, Closing, Idling
  <2> QED BY <1>1, <1>2, <2>1, <2>2, BookGoes DEF account
<1>3. \A l \in {"idle", "watch", "recon_read", "fetch", "recon", "retry"} : l \in Idling
  BY DEF Idling
<1>4. pc[Consumer] # "idle" => up
  BY <1>1 DEF SoleInv, Downed, Busy, Idling
<1>5. CASE WatchStart
  <2>1. BookBody
    BY <1>5 DEF WatchStart, Enter, BookInv, Clean
  <2> QED BY <1>2, <1>3, <1>5, <2>1 DEF WatchStart, Goto, redis
<1>6. UNCHANGED <<overlap, mishaps, crashes>> => BookBody /\ ~overlap
  BY DEF BookInv, Clean
<1>7. CASE ReconcileRead \/ ReconcileEnd \/ \E due \in BOOLEAN : WatchEnd(due)
  <2>1. PICK l \in {"idle", "recon_read", "fetch", "retry"} : Goto(Consumer, l)
    BY <1>7 DEF ReconcileRead, ReconcileEnd, WatchEnd
  <2>2. UNCHANGED <<account, redis, up, young, history>> /\ pc[Consumer] # "idle"
    BY <1>7 DEF ReconcileRead, ReconcileEnd, WatchEnd
  <2> QED BY <1>2, <1>3, <1>4, <1>6, <2>1, <2>2 DEF Goto, redis, history
<1>8. ASSUME NEW s \in Symbols, WatchKeep(s) PROVE BookBody'
  <2>1. UNCHANGED <<account, retry, up, pc, work, young, history>> /\ pc[Consumer] = "watch"
    BY <1>8 DEF WatchKeep, Visited
  <2>2. BookBody /\ up /\ positions' = positions
    BY <1>4, <1>6, <1>8, <2>1, WatchKeeps DEF history
  <2>3. {"watch"} \cap (Trading \cup Closing \cup {"ext", "recon"}) = {}
    BY DEF Trading, Selling, Closing
  <2> QED BY <1>1, <2>1, <2>2, <2>3, BookGoes DEF account
<1>9. ASSUME NEW s \in Symbols, WatchExit(s) PROVE BookBody'
  <2> DEFINE v == [NoWork EXCEPT !.sym = s, !.caller = "watch"]
  <2>1. /\ Step(Consumer, "close", v) /\ UNCHANGED <<account, redis, up, young, history>>
        /\ pc[Consumer] # "idle" /\ v.caller = "watch"
    BY <1>9 DEF WatchExit, Visited, NoWork
  <2> HIDE DEF v
  <2> QED BY <1>2, <1>4, <1>6, <2>1 DEF redis, history
<1>10. ASSUME NEW s \in Symbols, ReconcileClose(s) PROVE BookBody'
  <2>1. pc[Consumer] = "recon" /\ todo # NoBook /\ UNCHANGED <<overlap, mishaps, crashes>>
    BY <1>10 DEF ReconcileClose, history, NoBook
  <2> QED BY <1>6, <2>1 DEF BookBody, NoneMissing
<1>11. ASSUME NEW ok \in BOOLEAN, ReconcileFetch(ok) PROVE BookBody'
  <2>1. /\ pc[Consumer] = "fetch" /\ Goto(Consumer, "recon")
        /\ todo' = [s \in Symbols |-> IF ok /\ Missing(s, todo[s]) THEN todo[s] ELSE NoPos]
        /\ UNCHANGED <<account, redis, up, young, history>>
    BY <1>11 DEF ReconcileFetch
  <2>2. BookBody /\ up /\ ~overlap
    BY <1>4, <1>6, <2>1 DEF history
  <2>3. \A b \in Actors \ {Consumer} : pc[b] \notin Trading
    BY <1>1, <2>1, <2>2, OthersRest DEF Busy
  <2>4. \A s : ~SoldAt(s)
    BY <2>1, <2>3 DEF SoldAt, Sells, Trading, Selling
  <2>5. ASSUME NEW s \in Symbols PROVE ~Missing(s, todo[s])
    <3>1. todo[s] # NoPos => todo[s] = positions[s]
      BY <2>2 DEF SoleInv, Seen
    <3> QED BY <2>2, <2>4, <3>1 DEF Missing, BookBody, Visible
  <2>6. todo' = NoBook
    BY <2>1, <2>5 DEF NoBook
  <2> QED BY <1>2, <1>3, <2>1, <2>2, <2>6 DEF Goto, redis, history
<1>12. ASSUME NEW ok \in BOOLEAN, Retry(ok) PROVE BookBody'
  <2>1. /\ pc[Consumer] = "retry" /\ Step(Consumer, "idle", work[Consumer])
        /\ UNCHANGED <<account, up, overlap, crashes>>
        /\ IF retry THEN StartupReconcile(ok) ELSE UNCHANGED <<positions, retry, young, mishaps>>
    BY <1>12 DEF Retry, Goto
  <2>2. UNCHANGED mishaps
    BY <2>1, Unclean DEF StartupReconcile
  <2>3. BookBody /\ up /\ ~retry
    BY <1>4, <1>6, <2>1, <2>2 DEF BookBody
  <2> QED BY <1>2, <1>3, <2>1, <2>3
<1> QED BY <1>5, <1>7, <1>8, <1>9, <1>10, <1>11, <1>12 DEF Watch

(* A fill is put into the account, or taken out of it, with its position.  *)
LEMMA BookTraded ==
  ASSUME Types, SoleInv, BookInv, NEW i \in 1..placed, Traded(i) PROVE BookInv'
<1> SUFFICES ASSUME Clean' PROVE BookBody'
  BY DEF BookInv
<1>1. /\ UNCHANGED <<shown, placed, positions, retry, up, pc, work, todo, young>>
      /\ UNCHANGED <<overlap, mishaps, crashes>> /\ orders[i].status = "WORKING"
      /\ orders' = [orders EXCEPT ![i].status = "TRADED"]
      /\ net' = [net EXCEPT ![orders[i].opt] =
                   IF orders[i].side = "BUY" THEN net[orders[i].opt] + orders[i].qty
                   ELSE net[orders[i].opt] - orders[i].qty]
  BY DEF Traded, redis, control, history
<1>2. BookBody /\ ~overlap
  BY <1>1 DEF BookInv, Clean
<1>3. PICK a \in Actors : pc[a] \in {"await", "sold"} /\ work[a].ord = i
  BY <1>1, <1>2 DEF BookBody, Placed
<1>4. up /\ \A b \in Actors \ {a} : pc[b] \notin Trading
  BY <1>2, <1>3, OthersRest DEF Busy
<1>5. /\ orders \in [1..MaxOrders -> Order] /\ i \in 1..MaxOrders /\ net \in [Options -> Int]
      /\ \A j \in 1..placed : j \in 1..MaxOrders /\ positions \in [Symbols -> Position]
      /\ work \in [Actors -> Work]
  BY LiveAssumption DEF Types, TypeOK
<1>6. /\ orders'[i].status = "TRADED" /\ orders'[i].opt = orders[i].opt
      /\ orders'[i].side = orders[i].side /\ orders'[i].qty = orders[i].qty
      /\ \A j \in (1..placed) \ {i} : orders'[j] = orders[j]
  BY <1>1, <1>5 DEF Order
<1>7. NoneMissing' /\ Lotted'
  BY <1>1, <1>2 DEF BookBody, NoneMissing, Lotted
<1>8. Opened' = Opened /\ OpenSym' = OpenSym
  BY <1>1 DEF Opened, OpenSym
<1>9. Placed'
  <2>1. \A j \in 1..placed : orders'[j].status = "WORKING" =>
          j # i /\ \E b \in Actors : pc[b] \in {"await", "sold"} /\ work[b].ord = j
    BY <1>2, <1>6 DEF BookBody, Placed
  <2>2. pc[Consumer] = "await" =>
          LET o == orders'[work[Consumer].ord]
          IN  /\ work[Consumer].ord \in 1..placed
              /\ o.opt = Opened.opt /\ o.side = "BUY" /\ o.qty = 1
    BY <1>2, <1>6 DEF BookBody, Placed
  <2>3. \A b \in Actors : pc[b] = "sold" =>
          LET o == orders'[work[b].ord]
          IN  /\ work[b].ord \in 1..placed
              /\ o.opt = work[b].pos.opt /\ o.side = "SELL" /\ o.qty = work[b].pos.qty
              /\ o.status \in {"WORKING", "TRADED"}
    BY <1>2, <1>6 DEF BookBody, Placed
  <2> QED BY <1>1, <1>8, <2>1, <2>2, <2>3 DEF Placed
<1>10. Owned \in [Symbols -> Position]
  BY OwnedType
<1>11. CASE pc[a] = "await"
  <2>1. a = Consumer
    BY <1>11 DEF Types, Callers, Actors, Closing
  <2>2. \A s : ~SoldAt(s) /\ ~SoldAt(s)'
    BY <1>1, <1>4, <1>11 DEF SoldAt, Sells, Trading, Selling
  <2>3. ~Buys /\ Buys'
    BY <1>1, <1>3, <1>6, <1>11, <2>1 DEF Buys, Filled
  <2>4. /\ positions[OpenSym] = NoPos /\ OpenSym \in Symbols /\ Opened \in Position
        /\ Opened.opt \in Options /\ Opened.qty = 1
    BY <1>2, <1>11, <2>1, OpenedType DEF SoleInv, Free, Opening
  <2>5. Owned = positions /\ Owned' = [positions EXCEPT ![OpenSym] = Opened]
    BY <1>1, <1>5, <1>8, <2>2, <2>3, <2>4 DEF Owned, BoughtAt
  <2>6. orders[i].opt = Opened.opt /\ orders[i].side = "BUY" /\ orders[i].qty = 1
    BY <1>2, <1>3, <1>11, <2>1 DEF BookBody, Placed
  <2>7. Owned' \in [Symbols -> Position] /\ Owned'[OpenSym] = Opened
        /\ \A t \in Symbols \ {OpenSym} : Owned'[t] = positions[t]
    BY <1>5, <2>4, <2>5
  <2>8. ASSUME NEW o \in Options PROVE net'[o] = Cardinality(Lots(Owned', o))
    <3>1. Cardinality(Lots(Owned', o)) =
            Cardinality(Lots(positions, o)) + (IF o = Opened.opt THEN 1 ELSE 0)
      BY <1>5, <2>4, <2>7, LotsPut
    <3>2. net[o] = Cardinality(Lots(positions, o)) /\ net[o] \in Int
      BY <1>2, <1>4, <1>5, <2>5 DEF BookBody
    <3>3. net'[o] = net[o] + (IF o = Opened.opt THEN 1 ELSE 0)
      BY <1>1, <1>5, <2>4, <2>6, <3>2
    <3> QED BY <3>1, <3>2, <3>3
  <2>9. Visible'
    BY <1>1, <1>2, <1>4, <2>2 DEF BookBody, Visible
  <2> QED BY <1>1, <1>2, <1>4, <1>7, <1>9, <2>8, <2>9 DEF BookBody
<1>12. CASE pc[a] = "sold"
  <2> DEFINE s == work[a].sym
             p == work[a].pos
  <2>1. /\ s \in Symbols /\ positions[s] = p /\ p # NoPos /\ p.opt \in Options
        /\ p.qty \in Nat
    <3>1. s \in Symbols /\ Held(a)
      BY <1>2, <1>12 DEF Types, Callers, Actors, Closing, SoleInv
    <3> QED BY <1>2, <1>5, <1>12, <3>1 DEF Held, Holding, BookBody, Lotted, Position
  <2>2. ~Buys /\ ~Buys'
    BY <1>1, <1>4, <1>12, Nulls DEF Buys, Trading
  <2>3. \A t : ~SoldAt(t) /\ (SoldAt(t)' <=> t = s)
    BY <1>1, <1>3, <1>4, <1>6, <1>12 DEF SoldAt, Sells, Filled, Trading, Selling
  <2>4. Owned = positions /\ Owned' = [positions EXCEPT ![s] = NoPos]
    BY <1>1, <1>5, <2>1, <2>2, <2>3 DEF Owned, BoughtAt
  <2>5. orders[i].opt = p.opt /\ orders[i].side = "SELL" /\ orders[i].qty = p.qty
    BY <1>2, <1>3, <1>12 DEF BookBody, Placed
  <2> HIDE DEF s, p
  <2>6. Owned' \in [Symbols -> Position] /\ Owned'[s] = NoPos
        /\ \A t \in Symbols \ {s} : positions[t] = Owned'[t]
    BY <1>5, <2>1, <2>4, Nulls
  <2>7. ASSUME NEW o \in Options PROVE net'[o] = Cardinality(Lots(Owned', o))
    <3>1. Cardinality(Lots(positions, o)) =
            Cardinality(Lots(Owned', o)) + (IF o = p.opt THEN p.qty ELSE 0)
      BY <1>5, <2>1, <2>6, LotsPut
    <3>2. net[o] = Cardinality(Lots(positions, o)) /\ net[o] \in Int
      BY <1>2, <1>4, <1>5, <2>4 DEF BookBody
    <3>3. net'[o] = net[o] - (IF o = p.opt THEN p.qty ELSE 0)
      BY <1>1, <1>5, <2>1, <2>5, <3>2
    <3>4. Cardinality(Lots(Owned', o)) \in Nat
      BY <2>6, LotsFinite, FS_CardinalityType
    <3> QED BY <2>1, <3>1, <3>2, <3>3, <3>4
  <2>8. Visible'
    BY <1>1, <1>2, <1>4, <2>3 DEF BookBody, Visible
  <2> QED BY <1>1, <1>2, <1>4, <1>7, <1>9, <2>7, <2>8 DEF BookBody
<1> QED BY <1>3, <1>11, <1>12

(* The other steps of the exchange, the user and time.                     *)
LEMMA BookExchange ==
  ASSUME Types, SoleInv, BookInv,
         Exchange \/ (\E o \in Options : UserSale(o)) \/ \E s \in Symbols : Age(s) \/ ExpirePending(s)
  PROVE  BookInv'
<1>1. ASSUME NEW i \in 1..placed, Rejected(i), Clean' PROVE BookBody'
  <2>1. /\ UNCHANGED <<net, shown, placed, positions, retry, up, pc, work, todo, young>>
        /\ UNCHANGED <<overlap, crashes>> /\ orders[i].status = "WORKING"
        /\ orders' = [orders EXCEPT ![i].status = "REJECTED"]
        /\ IF orders[i].side = "SELL" THEN Mishap ELSE UNCHANGED mishaps
    BY <1>1 DEF Rejected, redis, control
  <2>2. orders[i].side # "SELL" /\ UNCHANGED mishaps
    BY <1>1, <2>1, Unclean
  <2>3. BookBody
    BY <1>1, <2>1, <2>2 DEF BookInv, Clean
  <2>4. /\ orders \in [1..MaxOrders -> Order] /\ i \in 1..MaxOrders
        /\ \A j \in 1..placed : j \in 1..MaxOrders
    BY LiveAssumption DEF Types, TypeOK
  <2>5. /\ orders'[i].status = "REJECTED" /\ orders'[i].opt = orders[i].opt
        /\ orders'[i].side = orders[i].side /\ orders'[i].qty = orders[i].qty
        /\ \A j \in (1..placed) \ {i} : orders'[j] = orders[j]
    BY <2>1, <2>4 DEF Order
  <2>6. \A b \in Actors : pc[b] = "sold" => work[b].ord \in (1..placed) \ {i}
    BY <2>2, <2>3 DEF BookBody, Placed
  <2>7. Opened' = Opened /\ OpenSym' = OpenSym
    BY <2>1 DEF Opened, OpenSym
  <2>8. \A b \in Actors : Sells(b)' <=> Sells(b)
    BY <2>1, <2>5, <2>6 DEF Sells, Filled
  <2>9. Buys' <=> Buys
    <3>1. pc[Consumer] = "await" => work[Consumer].ord \in 1..placed
      BY <2>3 DEF BookBody, Placed
    <3> QED BY <2>1, <2>5, <3>1 DEF Buys, Filled
  <2>10. Placed'
    <3>1. \A j \in 1..placed : orders'[j].status = "WORKING" =>
            \E b \in Actors : pc[b] \in {"await", "sold"} /\ work[b].ord = j
      BY <2>3, <2>5 DEF BookBody, Placed
    <3>2. pc[Consumer] = "await" =>
            LET o == orders'[work[Consumer].ord]
            IN  /\ work[Consumer].ord \in 1..placed
                /\ o.opt = Opened.opt /\ o.side = "BUY" /\ o.qty = 1
      BY <2>3, <2>5 DEF BookBody, Placed
    <3>3. \A b \in Actors : pc[b] = "sold" =>
            LET o == orders'[work[b].ord]
            IN  /\ work[b].ord \in 1..placed
                /\ o.opt = work[b].pos.opt /\ o.side = "SELL" /\ o.qty = work[b].pos.qty
                /\ o.status \in {"WORKING", "TRADED"}
      BY <2>3, <2>5, <2>6 DEF BookBody, Placed
    <3> QED BY <2>1, <2>7, <3>1, <3>2, <3>3 DEF Placed
  <2>11. \A s : SoldAt(s)' <=> SoldAt(s)
    BY <2>1, <2>8 DEF SoldAt
  <2>12. Owned' = Owned
    BY <2>1, <2>7, <2>9, <2>11 DEF Owned, BoughtAt
  <2>13. NoneMissing' /\ Lotted' /\ (up => Visible')
    BY <2>1, <2>3, <2>11 DEF BookBody, NoneMissing, Lotted, Visible
  <2>14. up
    BY <2>3, LiveAssumption DEF BookBody, Fresh
  <2> QED BY <2>1, <2>3, <2>10, <2>12, <2>13, <2>14, BookSame
<1>2. ASSUME UNCHANGED <<net, orders, placed, positions, retry, up, pc, work, todo, overlap, mishaps,
                         crashes>>,
             BookBody => (~up => shown' = shown) /\ (up => Visible')
      PROVE  BookInv'
  <2> SUFFICES ASSUME BookBody PROVE BookBody'
    BY <1>2 DEF BookInv, Clean
  <2>1. Owned' = Owned
    BY <1>2 DEF Owned, SoldAt, BoughtAt, Sells, Buys, Filled, Opened, OpenSym
  <2>2. Placed' /\ NoneMissing' /\ Lotted'
    BY <1>2 DEF BookBody, Placed, NoneMissing, Lotted, Opened, OpenSym
  <2> QED BY <1>2, <2>1, <2>2 DEF BookBody, Fresh
<1>3. CASE ~overlap /\ Refresh
  <2>1. /\ shown # net /\ shown' = net
        /\ UNCHANGED <<net, orders, placed, positions, retry, up, pc, work, todo, young, overlap,
                       mishaps, crashes>>
    BY <1>3 DEF Refresh, redis, control, history
  <2>2. BookBody => up
    BY <2>1 DEF BookBody, Fresh
  <2>3. \A s : SoldAt(s)' <=> SoldAt(s)
    BY <2>1 DEF SoldAt, Sells, Filled
  <2>4. BookBody /\ up => Visible'
    BY <1>3, <2>1, <2>3, OwnedShows DEF Visible
  <2> QED BY <1>2, <2>1, <2>2, <2>4
<1>4. ASSUME ~overlap, NEW s \in Symbols, Age(s) PROVE BookInv'
  <2>1. /\ shown = net /\ shown' = shown
        /\ UNCHANGED <<net, orders, placed, positions, retry, up, pc, work, todo, overlap, mishaps,
                       crashes>>
    BY <1>4 DEF Age, account, redis, control, history
  <2>2. \A t : SoldAt(t)' <=> SoldAt(t)
    BY <2>1 DEF SoldAt, Sells, Filled
  <2>3. BookBody /\ up => Visible'
    BY <1>4, <2>1, <2>2, OwnedShows DEF Visible
  <2> QED BY <1>2, <2>1, <2>3
<1>5. ASSUME NEW s \in Symbols, ExpirePending(s) PROVE BookInv'
  <2>1. UNCHANGED <<net, shown, orders, placed, positions, retry, up, pc, work, todo, young, overlap,
                    mishaps, crashes>>
    BY <1>5 DEF ExpirePending, account, control, history
  <2>2. BookBody /\ up => Visible'
    BY <2>1 DEF BookBody, Visible, SoldAt, Sells, Filled
  <2> QED BY <1>2, <2>1, <2>2
<1>6. ASSUME NEW o \in Options, UserSale(o) PROVE ~Clean'
  BY <1>6, Unclean DEF UserSale
<1>7. CASE overlap
  <2>1. overlap' = overlap
    BY DEF Exchange, Traded, Rejected, Refresh, UserSale, Age, ExpirePending, history
  <2> QED BY <1>7, <2>1 DEF BookInv, Clean
<1> QED BY <1>1, <1>3, <1>4, <1>5, <1>6, <1>7, BookTraded DEF Exchange, BookInv

(* What the first start adopts is what the account holds.                  *)
LEMMA BookRestart ==
  ASSUME Types, SoleInv, BookInv, NEW ok \in BOOLEAN, Restart(ok) PROVE BookInv'
<1> SUFFICES ASSUME Clean' PROVE BookBody'
  BY DEF BookInv
<1>1. /\ ~up /\ up' /\ StartupReconcile(ok)
      /\ UNCHANGED <<net, shown, orders, placed, pc, work, todo, overlap, crashes>>
  BY DEF Restart, account
<1>2. ok \/ positions # NoBook
  BY <1>1, Unclean DEF StartupReconcile
<1>3. UNCHANGED mishaps
  BY <1>1, <1>2 DEF StartupReconcile
<1>4. BookBody /\ Fresh
  BY <1>1, <1>3 DEF BookInv, Clean, BookBody
<1>5. ~retry' /\ positions' \in Books
  BY <1>1, <1>2, <1>4 DEF StartupReconcile, Fresh
<1>6. /\ \A b \in Actors : pc[b] \in {"idle", "done"}
      /\ \A s : ~SoldAt(s)' /\ ~BoughtAt(s)'
  <2>1. \A b \in Actors : pc[b] \in {"idle", "done"}
    BY <1>1 DEF SoleInv, Downed, Busy
  <2> QED BY <1>1, <2>1, Nulls DEF SoldAt, BoughtAt, Sells, Buys, Selling
<1>7. positions' \in [Symbols -> Position]
  BY <1>1, StartupTypes
<1>8. Owned' = positions'
  BY <1>6, <1>7 DEF Owned
<1>9. Placed' /\ NoneMissing'
  BY <1>1, <1>4, <1>6, Nulls DEF Placed, NoneMissing, Fresh, Closing
<1>10. CASE \A o \in Options : net[o] = 0
  <2>1. \A s \in Symbols : positions'[s] = NoPos
    BY <1>4, <1>5, <1>10 DEF Books, Fresh
  <2>2. positions' = NoBook
    BY <1>7, <2>1 DEF NoBook
  <2> QED BY <1>1, <1>5, <1>8, <1>9, <1>10, <2>1, <2>2, LotsEmpty DEF BookBody, Lotted, Visible
<1>11. ASSUME NEW h \in Options, net[h] # 0 PROVE BookBody'
  <2>1. /\ net[h] = 1 /\ shown[h] = 1 /\ \A o \in Options \ {h} : net[o] = 0 /\ shown[o] = 0
    BY <1>4, <1>11 DEF Fresh
  <2>2. Adopted(h).opt = h /\ Adopted(h).qty = 1
    BY <2>1 DEF Adopted, Qty, Abs
  <2>3. /\ positions'[Nifty] = Adopted(h)
        /\ \A s \in Symbols \ {Nifty} : positions'[s] = NoPos
    BY <1>5, <2>1, LiveAssumption DEF Books, KeyOf
  <2>4. ASSUME NEW o \in Options PROVE net[o] = Cardinality(Lots(positions', o))
    <3>1. NoBook \in [Symbols -> Position] /\ \A s \in Symbols : NoBook[s] = NoPos
      BY Nulls DEF NoBook
    <3>2. Cardinality(Lots(positions', o)) =
            Cardinality(Lots(NoBook, o)) + (IF o = h THEN 1 ELSE 0)
      BY <1>7, <2>2, <2>3, <3>1, LotsPut, LiveAssumption
    <3> QED BY <2>1, <3>2, LotsEmpty
  <2>5. Lotted'
    BY <2>2, <2>3 DEF Lotted
  <2>6. Visible'
    BY <1>1, <2>1, <2>2, <2>3 DEF Visible
  <2> QED BY <1>1, <1>5, <1>8, <1>9, <2>4, <2>5, <2>6 DEF BookBody
<1> QED BY <1>10, <1>11

(* A decision, a manual close and a crash.                                 *)
LEMMA BookOther ==
  ASSUME Types, SoleInv, BookInv,
         \/ \E s \in Symbols, side \in Sides : Decide(s, side)
         \/ \E r \in Requests, s \in Symbols : ManualClose(r, s)
         \/ Crash \/ \E ok \in BOOLEAN : Restart(ok)
  PROVE  BookInv'
<1>1. Consumer \in Actors /\ Requests \subseteq Actors /\ Consumer \notin Requests
  BY LiveAssumption, Nulls
<1>2. ASSUME NEW s \in Symbols, NEW side \in Sides, Decide(s, side), Clean' PROVE BookBody'
  <2> DEFINE v == [NoWork EXCEPT !.sym = s, !.side = side, !.dec = nextDec]
             u == [v EXCEPT !.caller = "flip"]
  <2>1. /\ up /\ up' /\ pc[Consumer] = "idle" /\ UNCHANGED <<mishaps, crashes, todo, young>>
        /\ UNCHANGED <<net, shown, orders, placed, retry, positions>> /\ (~overlap' => ~overlap)
    BY <1>2 DEF Decide, Enter, account, redis
  <2>2. v.caller = "NONE" /\ u.caller = "flip"
    BY DEF NoWork
  <2>3. PICK l \in {"gate", "close"}, x \in {u, v} : Step(Consumer, l, x)
    BY <1>2 DEF Decide
  <2> HIDE DEF u, v
  <2>4. /\ pc'[Consumer] = l /\ work'[Consumer] = x
        /\ \A b \in Actors \ {Consumer} : pc'[b] = pc[b] /\ work'[b] = work[b]
    BY <1>1, <2>3, StepAt
  <2>5. {"idle", "gate", "close"} \cap (Trading \cup {"ext", "recon"}) = {}
    BY DEF Trading, Selling
  <2>6. BookBody
    BY <1>2, <2>1 DEF BookInv, Clean
  <2> QED BY <1>1, <2>1, <2>2, <2>4, <2>5, <2>6, BookGoes
<1>3. ASSUME NEW r \in Requests, NEW s \in Symbols, ManualClose(r, s), Clean' PROVE BookBody'
  <2>1. /\ up /\ up' /\ pc[r] = "idle" /\ UNCHANGED <<mishaps, crashes, todo, young>>
        /\ UNCHANGED <<net, shown, orders, placed, retry, positions>> /\ (~overlap' => ~overlap)
    BY <1>3 DEF ManualClose, Enter, account, redis
  <2>2. /\ pc'[r] = "close" /\ \A b \in Actors \ {r} : pc'[b] = pc[b] /\ work'[b] = work[b]
    BY <1>1, <1>3, StepAt DEF ManualClose
  <2>3. {"idle", "close"} \cap (Trading \cup {"ext"}) = {}
    BY DEF Trading, Selling
  <2>4. BookBody
    BY <1>3, <2>1 DEF BookInv, Clean
  <2> QED BY <1>1, <2>1, <2>2, <2>3, <2>4, BookGoes
<1>4. Crash => ~Clean'
  BY DEF Crash, Clean, Types, TypeOK
<1> QED BY <1>2, <1>3, <1>4, BookRestart DEF BookInv

(* BookInv holds at the start.                                             *)
LEMMA BookInit == Init => BookInv
<1> SUFFICES ASSUME Init PROVE BookBody
  BY DEF BookInv
<1>1. PICK held \in SUBSET Options : /\ Cardinality(held) <= 1
                                     /\ net = [o \in Options |-> IF o \in held THEN 1 ELSE 0]
  BY DEF Init
<1>2. ASSUME NEW o \in held, NEW p \in held, o # p PROVE FALSE
  <2>1. IsFiniteSet(Sides)
    <3>1. IsFiniteSet({"BUY"})
      BY FS_Singleton
    <3>2. IsFiniteSet({"BUY"} \cup {"SELL"})
      BY <3>1, FS_AddElement
    <3>3. Sides = {"BUY"} \cup {"SELL"}
      BY DEF Sides
    <3> QED BY <3>2, <3>3
  <2>2. IsFiniteSet(Options)
    BY <2>1, LiveAssumption, FS_Product DEF Options
  <2>3. IsFiniteSet(held) /\ Cardinality(held) \in Nat
    BY <2>2, FS_Subset, FS_CardinalityType
  <2>4. IsFiniteSet({o}) /\ Cardinality({o}) = 1
    BY FS_Singleton
  <2>5. Cardinality({o} \cup {p}) = 2
    BY <1>2, <2>4, FS_AddElement
  <2>6. Cardinality({o} \cup {p}) <= Cardinality(held)
    <3>1. {o} \cup {p} \in SUBSET held
      OBVIOUS
    <3> QED BY <2>3, <3>1, FS_Subset
  <2> QED BY <1>1, <2>3, <2>5, <2>6
<1>3. Fresh
  BY <1>1, <1>2 DEF Init, Fresh
<1>4. Placed /\ NoneMissing /\ Lotted
  BY Nulls DEF Init, Placed, NoneMissing, Lotted, NoBook, Closing
<1> QED BY <1>3, <1>4 DEF Init, BookBody

(* BookInv is inductive.                                                   *)
LEMMA BookStep == Types /\ SoleInv /\ BookInv /\ [Next]_vars => BookInv'
<1> SUFFICES ASSUME Types, SoleInv, BookInv, [Next]_vars PROVE BookInv'
  OBVIOUS
<1>1. CASE UNCHANGED vars
  <2>1. UNCHANGED <<net, shown, orders, placed, positions, retry, up, pc, work, todo, young, overlap,
                    mishaps, crashes>>
    BY <1>1 DEF vars, account, redis, control, history
  <2>2. Owned' = Owned
    BY <2>1 DEF Owned, SoldAt, BoughtAt, Sells, Buys, Filled, Opened, OpenSym
  <2>3. BookBody => Placed' /\ NoneMissing' /\ Lotted' /\ (up => Visible')
    BY <2>1 DEF BookBody, Placed, NoneMissing, Lotted, Visible, Opened, OpenSym, SoldAt, Sells, Filled
  <2> QED BY <2>1, <2>2, <2>3 DEF BookInv, Clean, BookBody, Fresh
<1> QED BY <1>1, BookExchange, BookOpen, BookClose, BookWatch, BookOther DEF Next

(* BookIsAccount: between handlers, and while nothing went wrong at the    *)
(* broker, the book in Redis is the account, for any number of underlyings *)
(* and decisions (main.py:88-91, 124-135; live_broker.py).                 *)
THEOREM AccountMirrored == Spec => []BookIsAccount
<1>1. BookInv => BookIsAccount
  <2> SUFFICES ASSUME BookInv, Quiet, Clean PROVE \A o \in Options : net[o] = Booked(o)
    BY DEF BookIsAccount, Clean
  <2>1. \A s : ~SoldAt(s) /\ ~BoughtAt(s)
    BY Nulls DEF Quiet, Busy, SoldAt, BoughtAt, Sells, Buys, Selling
  <2>2. \A o \in Options : net[o] = Cardinality(Lots(Owned, o))
    BY DEF BookInv, BookBody, Quiet
  <2>3. \A s \in Symbols : Owned[s] = positions[s]
    BY <2>1 DEF Owned
  <2>4. \A o : Lots(Owned, o) = Lots(positions, o)
    BY <2>3 DEF Lots
  <2> QED BY <2>2, <2>4 DEF Booked
<1> QED BY <1>1, TypesInit, TypesStep, SoleInit, SoleStep, BookInit, BookStep, PTL DEF Spec
=============================================================================
