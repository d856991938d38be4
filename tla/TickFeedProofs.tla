--------------------------- MODULE TickFeedProofs ---------------------------
(***************************************************************************)
(* Proofs about TickFeed for any symbols, sockets, reconcilers and bounds. *)
(* Four small operators change most of the state (Send, Change, TearDown   *)
(* and Dial), so each gets a lemma and the actions follow from those.      *)
(***************************************************************************)
EXTENDS TickFeed, TLAPS

(* The variables TypeOK speaks of, in parts that the actions share.        *)
SocketType  == /\ link \in [Sockets -> {"closed", "dialing", "open", "dead"}]
               /\ wire \in [Sockets -> SUBSET Symbols]
SdkType     == sdk \in Sockets \cup {NoSocket}
ZombieType  == zombies \in SUBSET Sockets
CounterType == trades \in Nat /\ faults \in Nat

-----------------------------------------------------------------------------
(* The operators.                                                          *)

LEMMA UnlessType ==
  ASSUME NEW ok, faults \in Nat, Unless(ok)
  PROVE  faults' \in Nat
BY DEF Unless, Fault

(* A tear-down leaves _fyers empty, and the old socket closed or a zombie. *)
LEMMA TearDownEmpties ==
  ASSUME SocketType, SdkType, ZombieType, faults \in Nat, TearDown
  PROVE  /\ sdk' = NoSocket
         /\ link' \in [Sockets -> {"closed", "dialing", "open", "dead"}]
         /\ wire' \in [Sockets -> SUBSET Symbols]
         /\ zombies' \in SUBSET Sockets
         /\ faults' \in Nat
         /\ OneSocket => OneSocket'
<1>1. CASE sdk = NoSocket
  BY <1>1 DEF TearDown, SocketType, SdkType, ZombieType, OneSocket
<1>2. CASE sdk # NoSocket
  <2>1. sdk \in Sockets /\ sdk' = NoSocket BY <1>2 DEF SdkType, TearDown
  <2>2. CASE /\ link' = [link EXCEPT ![sdk] = "closed"]
             /\ wire' = [wire EXCEPT ![sdk] = {}]
             /\ UNCHANGED <<zombies, faults>>
    BY <2>1, <2>2 DEF SocketType, ZombieType, OneSocket
  <2>3. CASE Fault /\ zombies' = zombies \cup {sdk} /\ UNCHANGED <<link, wire>>
    BY <2>1, <2>3 DEF SocketType, ZombieType, OneSocket, Fault
  <2>4. QED BY <1>2, <2>2, <2>3 DEF TearDown
<1>3. QED BY <1>1, <1>2

(* What is sent streams on the current socket or is missed.                *)
LEMMA SendType ==
  ASSUME NEW add \in SUBSET Symbols, NEW remove \in SUBSET Symbols, NEW raises,
         SocketType, SdkType, missed \in SUBSET Symbols, Send(add, remove, raises)
  PROVE  wire' \in [Sockets -> SUBSET Symbols] /\ missed' \in SUBSET Symbols
<1>1. CASE sdk = NoSocket BY <1>1 DEF Send, SocketType
<1>2. CASE sdk # NoSocket
  <2>1. missed' \in SUBSET Symbols BY <1>2 DEF Send
  <2>2. CASE link[sdk] = "open"
    <3>1. wire' = [wire EXCEPT ![sdk] = (@ \cup (add \ raises)) \ (remove \ raises)]
      BY <1>2, <2>2 DEF Send
    <3>2. wire[sdk] \in SUBSET Symbols BY <1>2 DEF SocketType, SdkType
    <3>3. QED BY <2>1, <3>1, <3>2 DEF SocketType
  <2>3. CASE link[sdk] # "open" BY <1>2, <2>1, <2>3 DEF Send, SocketType
  <2>4. QED BY <2>2, <2>3
<1>3. QED BY <1>1, <1>2

(* A new socket: it was closed, and it is now the one in _fyers.           *)
LEMMA DialOne ==
  ASSUME SocketType, Dial
  PROVE  /\ sdk' \in Sockets /\ sdk' # sdk /\ link[sdk'] = "closed"
         /\ link' = [link EXCEPT ![sdk'] = "dialing"]
         /\ link' \in [Sockets -> {"closed", "dialing", "open", "dead"}]
<1>1. sdk' = CHOOSE c \in Sockets : Free(c) BY DEF Dial
<1>2. PICK c \in Sockets : Free(c) BY DEF Dial
<1>3. sdk' \in Sockets /\ Free(sdk') BY <1>1, <1>2
<1>4. QED BY <1>3 DEF Dial, Free, SocketType

(* subscribe_symbol and unsubscribe_symbol keep the types, and whatever is *)
(* subscribed streams, is missed, or is about to be sent.                  *)
LEMMA ChangeType ==
  ASSUME NEW add \in SUBSET Symbols, NEW remove, NEW ok, TypeOK, Change(add, remove, ok)
  PROVE  /\ subscribed' \in SUBSET Symbols
         /\ wire' \in [Sockets -> SUBSET Symbols]
         /\ missed' \in SUBSET Symbols
         /\ faults' \in Nat
<1> DEFINE new  == add \ subscribed
           gone == (remove \cap subscribed) \ Underlyings
<1>1. new \in SUBSET Symbols /\ gone \in SUBSET Symbols BY DEF TypeOK
<1>2. subscribed' = (subscribed \cup new) \ gone BY DEF Change
<1>3. PICK raises : Send(new, gone, raises) /\ Unless(ok /\ raises = {}) BY DEF Change
<1>4. SocketType /\ SdkType BY DEF TypeOK, SocketType, SdkType
<1>5. wire' \in [Sockets -> SUBSET Symbols] /\ missed' \in SUBSET Symbols
  <2> HIDE DEF new, gone
  <2>1. QED BY <1>1, <1>3, <1>4, SendType DEF TypeOK
<1>6. faults' \in Nat BY <1>3, UnlessType DEF TypeOK
<1>7. QED BY <1>1, <1>2, <1>5, <1>6 DEF TypeOK

-----------------------------------------------------------------------------
(* Types.                                                                  *)

(* Everything outside core-engine, and the requests it serves.             *)
LEMMA TradingTypes ==
  ASSUME TypeOK, Trading
  PROVE  TypeOK'
<1>1. CASE \E o \in Options : OpenPosition(o) \/ ClosePosition(o)
  <2>1. PICK o \in Options : OpenPosition(o) \/ ClosePosition(o) BY <1>1
  <2>2. <<"subscribe", o>> \in Posts /\ <<"unsubscribe", o>> \in Posts BY DEF Posts
  <2>3. CASE OpenPosition(o)
    BY <2>2, <2>3 DEF OpenPosition, TypeOK, control, reconcile, sockets, history
  <2>4. CASE ClosePosition(o)
    BY <2>2, <2>4 DEF ClosePosition, TypeOK, control, reconcile, sockets, history
  <2>5. QED BY <2>1, <2>3, <2>4
<1>2. CASE \E p \in Posts : LosePost(p) \/ ServePost(p)
  <2>1. PICK p \in Posts : LosePost(p) \/ ServePost(p) BY <1>2
  <2>2. CASE LosePost(p)
    BY <2>2 DEF LosePost, TypeOK, control, reconcile, sockets, history
  <2>3. CASE ServePost(p)
    <3>1. p[2] \in Symbols BY DEF Posts, Symbols
    <3>2. Change({p[2]}, {}, TRUE) \/ Change({}, {p[2]}, TRUE) BY <2>3 DEF ServePost
    <3>3. /\ subscribed' \in SUBSET Symbols
          /\ wire' \in [Sockets -> SUBSET Symbols]
          /\ missed' \in SUBSET Symbols
          /\ faults' \in Nat
      BY <3>1, <3>2, ChangeType
    <3>4. QED BY <2>3, <3>3 DEF ServePost, TypeOK, control, reconcile
  <2>4. QED BY <2>1, <2>2, <2>3
<1>3. QED BY <1>1, <1>2 DEF Trading

LEMMA ReconcilingTypes ==
  ASSUME TypeOK, Reconciling
  PROVE  TypeOK'
<1>1. PICK r \in Reconcilers : ReadBook(r) \/ Reconcile(r) BY DEF Reconciling
<1>2. CASE ReadBook(r)
  <2>1. PICK ok \in BOOLEAN : Unless(ok) /\ read' = [read EXCEPT ![r] = ReadOf(ok)]
    BY <1>2 DEF ReadBook
  <2>2. faults' \in Nat BY <2>1, UnlessType DEF TypeOK
  <2>3. ReadOf(ok) \in SUBSET Options BY DEF ReadOf, TypeOK
  <2>4. read' \in [Reconcilers -> SUBSET Options] BY <2>1, <2>3 DEF TypeOK
  <2>5. QED BY <1>2, <2>2, <2>4 DEF ReadBook, TypeOK, outside, control, sockets
<1>3. CASE Reconcile(r)
  <2>1. PICK acc \in {account, {}} :
          Change(Wanted(read[r], acc) \ subscribed, Unwanted(Wanted(read[r], acc)), acc = account)
    BY <1>3 DEF Reconcile
  <2>2. Wanted(read[r], acc) \in SUBSET Symbols BY DEF Wanted, Symbols, TypeOK
  <2>3. /\ subscribed' \in SUBSET Symbols
        /\ wire' \in [Sockets -> SUBSET Symbols]
        /\ missed' \in SUBSET Symbols
        /\ faults' \in Nat
    BY <2>1, <2>2, ChangeType
  <2>4. read' \in [Reconcilers -> SUBSET Options] BY <1>3 DEF Reconcile, TypeOK
  <2>5. QED BY <1>3, <2>3, <2>4 DEF Reconcile, TypeOK, outside, control
<1>4. QED BY <1>1, <1>2, <1>3

(* A tear-down, by the supervisor or the watchdog.                         *)
LEMMA TearDownTypes ==
  ASSUME TypeOK, TearDown
  PROVE  /\ sdk' = NoSocket
         /\ link' \in [Sockets -> {"closed", "dialing", "open", "dead"}]
         /\ wire' \in [Sockets -> SUBSET Symbols]
         /\ zombies' \in SUBSET Sockets
         /\ faults' \in Nat
         /\ OneSocket => OneSocket'
BY TearDownEmpties DEF TypeOK, SocketType, SdkType, ZombieType

LEMMA ControlTypes ==
  ASSUME TypeOK, Supervise \/ Worker \/ Watchdog
  PROVE  TypeOK'
<1>1. CASE StartConnect
  BY <1>1 DEF StartConnect, ClearRequest, TypeOK, outside, reconcile, sockets, history
<1>2. CASE Abandon BY <1>2, TearDownTypes DEF Abandon, TypeOK, outside, reconcile
<1>3. CASE ConnectError BY <1>3, TearDownTypes DEF ConnectError, TypeOK, outside, reconcile
<1>4. CASE Connected BY <1>4 DEF Connected, TypeOK, outside, reconcile, sockets, history
<1>5. CASE Retry BY <1>5 DEF Retry, TypeOK, outside, reconcile, sockets, history
<1>6. CASE Rebuild BY <1>6, TearDownTypes DEF Rebuild, TypeOK, outside, reconcile
<1>7. CASE WorkerDials
  <2>1. /\ Dial /\ stray' \in BOOLEAN
        /\ worker' \in {"none", "token", "dialing", "raised", "returned"}
    BY <1>7 DEF WorkerDials, TypeOK
  <2>2. sdk' \in Sockets /\ link' \in [Sockets -> {"closed", "dialing", "open", "dead"}]
    BY <2>1, DialOne DEF TypeOK, SocketType
  <2>3. QED BY <2>1, <2>2 DEF Dial, TypeOK, outside, reconcile, history
<1>8. CASE NoToken BY <1>8 DEF NoToken, TypeOK, outside, reconcile, sockets, history
<1>9. CASE \E how \in {"raised", "returned"} : ConnectEnds(how)
  BY <1>9 DEF ConnectEnds, TypeOK, outside, reconcile, sockets, history
<1>10. CASE Watchdog BY <1>10, TearDownTypes DEF Watchdog, Request, TypeOK, outside, reconcile
<1>11. QED
  BY <1>1, <1>2, <1>3, <1>4, <1>5, <1>6, <1>7, <1>8, <1>9, <1>10 DEF Supervise, Worker

LEMMA SocketTypes ==
  ASSUME TypeOK, SDK \/ Time \/ Process
  PROVE  TypeOK'
<1>1. ASSUME NEW c \in Sockets, OnOpen(c) PROVE TypeOK'
  BY <1>1 DEF OnOpen, ToSubscribe, TypeOK, outside, control, reconcile
<1>2. ASSUME NEW c \in Sockets, Resubscribe(c) PROVE TypeOK'
  <2>1. PICK raises : Send(resending[c], {}, raises) /\ Unless(raises = {})
    BY <1>2 DEF Resubscribe
  <2>2. wire' \in [Sockets -> SUBSET Symbols] /\ missed' \in SUBSET Symbols
    BY <2>1, SendType DEF TypeOK, SocketType, SdkType
  <2>3. faults' \in Nat BY <2>1, UnlessType DEF TypeOK
  <2>4. QED BY <1>2, <2>2, <2>3 DEF Resubscribe, TypeOK, outside, control, reconcile
<1>3. ASSUME NEW c \in Sockets, Drop(c) PROVE TypeOK'
  BY <1>3 DEF Drop, Fault, TypeOK, outside, control, reconcile
<1>4. ASSUME NEW c \in Sockets, GiveUp(c) PROVE TypeOK'
  BY <1>4 DEF GiveUp, Fault, TypeOK, outside, control, reconcile
<1>5. CASE Tick BY <1>5 DEF Tick, TypeOK, outside, control, reconcile, sockets, history
<1>6. CASE Silence BY <1>6 DEF Silence, TypeOK, outside, control, reconcile, sockets, history
<1>7. CASE Start
  BY <1>7 DEF Start, Symbols, TypeOK, outside, control, reconcile, sockets, history
<1>8. CASE Crash
  <2>1. /\ read' \in [Reconcilers -> SUBSET Options]
        /\ link' \in [Sockets -> {"closed", "dialing", "open", "dead"}]
        /\ wire' \in [Sockets -> SUBSET Symbols]
        /\ resending' \in [Sockets -> SUBSET Symbols]
    BY <1>8 DEF Crash
  <2>2. /\ book' \in SUBSET Options /\ posts' \in SUBSET Posts /\ account' \in SUBSET Options
        /\ trades' \in Nat /\ faults' \in Nat
    BY <1>8 DEF Crash, Fault, TypeOK, outside
  <2>3. stray' \in BOOLEAN /\ requested' \in BOOLEAN /\ stale' \in BOOLEAN
    BY <1>8 DEF Crash
  <2>4. /\ feed' \in {"down", "off", "on"} /\ sdk' \in Sockets \cup {NoSocket}
        /\ supervisor' \in {"top", "race", "backoff", "parked"}
        /\ worker' \in {"none", "token", "dialing", "raised", "returned"}
        /\ subscribed' \in SUBSET Symbols /\ reading' \in SUBSET Reconcilers
        /\ missed' \in SUBSET Symbols /\ zombies' \in SUBSET Sockets
    BY <1>8 DEF Crash
  <2>5. QED BY <2>1, <2>2, <2>3, <2>4 DEF TypeOK
<1>9. QED BY <1>1, <1>2, <1>3, <1>4, <1>5, <1>6, <1>7, <1>8 DEF SDK, Time, Process

LEMMA InitTypes ==
  ASSUME Init
  PROVE  TypeOK
<1>1. /\ read \in [Reconcilers -> SUBSET Options]
      /\ link \in [Sockets -> {"closed", "dialing", "open", "dead"}]
      /\ wire \in [Sockets -> SUBSET Symbols]
      /\ resending \in [Sockets -> SUBSET Symbols]
  BY DEF Init
<1>2. QED BY <1>1 DEF Init, TypeOK

LEMMA StepTypes ==
  ASSUME TypeOK, [Next]_vars
  PROVE  TypeOK'
<1>1. CASE UNCHANGED vars
  BY <1>1 DEF TypeOK, vars, outside, control, reconcile, sockets, history
<1>2. QED BY <1>1, TradingTypes, ReconcilingTypes, ControlTypes, SocketTypes DEF Next

(* TypeOK holds in every reachable state.                                  *)
THEOREM TypeCorrect == Spec => []TypeOK
BY InitTypes, StepTypes, PTL DEF Spec

-----------------------------------------------------------------------------
(* One socket.                                                             *)

(* The supervisor starts a worker only with an empty _fyers and a cleared  *)
(* request, and the watchdog requests a reconnect only of a socket that is *)
(* there; so no worker is abandoned before it has put its socket there.    *)
ControlInv ==
  /\ feed # "on" => supervisor = "top" /\ worker = "none"
  /\ supervisor \in {"top", "backoff"} => sdk = NoSocket
  /\ worker # "none" => supervisor = "race"
  /\ worker = "token" => sdk = NoSocket /\ requested = FALSE
  /\ stray = FALSE

(* What is subscribed streams, was missed, or is about to be sent.         *)
StreamInv ==
  \A c \in Sockets : c = sdk /\ link[c] = "open" =>
    subscribed \subseteq wire[c] \cup missed \cup resending[c]

IndInv == TypeOK /\ ControlInv /\ OneSocket /\ StreamInv

(* A change of subscriptions on a feed that is on.                         *)
LEMMA ChangeStreams ==
  ASSUME NEW add, NEW remove, NEW ok, IndInv, Change(add, remove, ok),
         UNCHANGED <<sdk, link, resending>>
  PROVE  StreamInv'
<1> DEFINE new  == add \ subscribed
           gone == (remove \cap subscribed) \ Underlyings
<1>1. subscribed' = (subscribed \cup new) \ gone BY DEF Change
<1>2. PICK raises : Send(new, gone, raises) BY DEF Change
<1>3. SUFFICES ASSUME NEW c \in Sockets, c = sdk, link[c] = "open"
               PROVE  subscribed' \subseteq wire'[c] \cup missed' \cup resending[c]
  BY DEF StreamInv
<1>4. sdk # NoSocket BY <1>3, FeedAssumption
<1>5. missed' = missed \cup (new \cap raises) BY <1>2, <1>4 DEF Send
<1>6. wire'[c] = (wire[c] \cup (new \ raises)) \ (gone \ raises)
  <2>1. wire' = [wire EXCEPT ![sdk] = (@ \cup (new \ raises)) \ (gone \ raises)]
    BY <1>2, <1>3, <1>4 DEF Send
  <2> HIDE DEF new, gone
  <2>2. QED BY <2>1, <1>3 DEF IndInv, TypeOK
<1>7. subscribed \subseteq wire[c] \cup missed \cup resending[c]
  BY <1>3 DEF IndInv, StreamInv
<1>8. QED BY <1>1, <1>5, <1>6, <1>7

LEMMA OutsideSteps ==
  ASSUME IndInv, Trading \/ Reconciling
  PROVE  ControlInv' /\ OneSocket' /\ StreamInv'
<1>1. UNCHANGED <<feed, sdk, supervisor, worker, stray, requested, link, zombies, resending>>
  BY DEF Trading, Reconciling, OpenPosition, ClosePosition, LosePost, ServePost, ReadBook,
         Reconcile, control, sockets, history
<1>2. ControlInv' BY <1>1 DEF IndInv, ControlInv
<1>3. OneSocket' BY <1>1 DEF IndInv, OneSocket
<1>4. CASE UNCHANGED <<subscribed, wire, missed>>
  BY <1>1, <1>2, <1>3, <1>4 DEF IndInv, StreamInv
<1>5. CASE \E add, remove, ok : Change(add, remove, ok)
  BY <1>1, <1>2, <1>3, <1>5, ChangeStreams
<1>6. ASSUME NEW o \in Options, OpenPosition(o) \/ ClosePosition(o)
      PROVE  UNCHANGED <<subscribed, wire, missed>>
  BY <1>6 DEF OpenPosition, ClosePosition, sockets, history
<1>7. ASSUME NEW p \in Posts, LosePost(p) PROVE UNCHANGED <<subscribed, wire, missed>>
  BY <1>7 DEF LosePost, sockets, history
<1>8. ASSUME NEW p \in Posts, ServePost(p) PROVE \E add, remove, ok : Change(add, remove, ok)
  BY <1>8 DEF ServePost
<1>9. ASSUME NEW r \in Reconcilers, ReadBook(r) PROVE UNCHANGED <<subscribed, wire, missed>>
  BY <1>9 DEF ReadBook, sockets
<1>10. ASSUME NEW r \in Reconcilers, Reconcile(r)
       PROVE  \E add, remove, ok : Change(add, remove, ok)
  BY <1>10 DEF Reconcile
<1>11. QED BY <1>2, <1>3, <1>4, <1>5, <1>6, <1>7, <1>8, <1>9, <1>10 DEF Trading, Reconciling

(* Without a current socket StreamInv says nothing.                        *)
LEMMA EmptyStreams ==
  ASSUME sdk' = NoSocket
  PROVE  StreamInv'
BY FeedAssumption DEF StreamInv

LEMMA ControlSteps ==
  ASSUME IndInv, Supervise \/ Worker \/ Watchdog
  PROVE  ControlInv' /\ OneSocket' /\ StreamInv'
<1> USE DEF IndInv
<1>1. ASSUME UNCHANGED <<sdk, link, wire, resending, subscribed, missed, zombies>>
      PROVE  OneSocket' /\ StreamInv'
  BY <1>1 DEF OneSocket, StreamInv
<1>2. CASE StartConnect
  <2>1. ControlInv' BY <1>2 DEF StartConnect, ClearRequest, ControlInv
  <2>2. QED BY <1>1, <1>2, <2>1 DEF StartConnect, sockets, history
<1>3. CASE Abandon
  <2>1. worker # "token" BY <1>3 DEF Abandon, ControlInv
  <2>2. ControlInv' BY <1>3, <2>1, TearDownTypes DEF Abandon, ControlInv
  <2>3. QED BY <1>3, <2>2, TearDownTypes, EmptyStreams DEF Abandon
<1>4. CASE ConnectError
  <2>1. ControlInv' BY <1>4, TearDownTypes DEF ConnectError, ControlInv
  <2>2. QED BY <1>4, <2>1, TearDownTypes, EmptyStreams DEF ConnectError
<1>5. CASE Connected
  <2>1. ControlInv' BY <1>5 DEF Connected, ControlInv
  <2>2. QED BY <1>1, <1>5, <2>1 DEF Connected, sockets, history
<1>6. CASE Retry
  <2>1. ControlInv' BY <1>6 DEF Retry, ControlInv
  <2>2. QED BY <1>1, <1>6, <2>1 DEF Retry, sockets, history
<1>7. CASE Rebuild
  <2>1. worker = "none" BY <1>7 DEF Rebuild, ControlInv
  <2>2. ControlInv' BY <1>7, <2>1, TearDownTypes DEF Rebuild, ControlInv
  <2>3. QED BY <1>7, <2>2, TearDownTypes, EmptyStreams DEF Rebuild
<1>8. CASE WorkerDials
  <2>1. /\ Dial /\ worker = "token" /\ worker' = "dialing" /\ stray' = FALSE
        /\ sdk = NoSocket /\ supervisor = "race" /\ feed = "on"
    BY <1>8 DEF WorkerDials, ControlInv
  <2>2. sdk' \in Sockets /\ link' = [link EXCEPT ![sdk'] = "dialing"]
    BY <2>1, DialOne DEF TypeOK, SocketType
  <2>3. UNCHANGED <<feed, supervisor, requested, zombies, resending>>
    BY <2>1 DEF Dial, history
  <2>4. ControlInv' BY <2>1, <2>3 DEF ControlInv
  <2>5. OneSocket'
    <3>1. SUFFICES ASSUME NEW c \in Sockets, link'[c] # "closed"
                   PROVE  c = sdk' \/ c \in zombies
      BY <2>3 DEF OneSocket
    <3>2. CASE c = sdk' BY <3>2
    <3>3. CASE c # sdk'
      <4>1. link[c] # "closed" BY <2>2, <3>1, <3>3 DEF TypeOK
      <4>2. QED BY <2>1, <4>1, FeedAssumption DEF OneSocket
    <3>4. QED BY <3>2, <3>3
  <2>6. StreamInv' BY <2>2 DEF StreamInv, TypeOK
  <2>7. QED BY <2>4, <2>5, <2>6
<1>9. CASE NoToken
  <2>1. ControlInv' BY <1>9 DEF NoToken, ControlInv
  <2>2. QED BY <1>1, <1>9, <2>1 DEF NoToken, sockets, history
<1>10. CASE \E how \in {"raised", "returned"} : ConnectEnds(how)
  <2>1. ControlInv' BY <1>10 DEF ConnectEnds, ControlInv
  <2>2. QED BY <1>1, <1>10, <2>1 DEF ConnectEnds, sockets, history
<1>11. CASE Watchdog
  <2>1. worker # "token" BY <1>11 DEF Watchdog, ControlInv
  <2>2. ControlInv' BY <1>11, <2>1, TearDownTypes DEF Watchdog, ControlInv
  <2>3. QED BY <1>11, <2>2, TearDownTypes, EmptyStreams DEF Watchdog
<1>12. QED
  BY <1>2, <1>3, <1>4, <1>5, <1>6, <1>7, <1>8, <1>9, <1>10, <1>11 DEF Supervise, Worker

LEMMA SocketSteps ==
  ASSUME IndInv, SDK \/ Time \/ Process
  PROVE  ControlInv' /\ OneSocket' /\ StreamInv'
<1> USE DEF IndInv
<1>1. ASSUME UNCHANGED <<feed, sdk, control>> PROVE ControlInv'
  BY <1>1 DEF ControlInv, control
<1>2. ASSUME NEW c \in Sockets, OnOpen(c) PROVE ControlInv' /\ OneSocket' /\ StreamInv'
  <2>1. UNCHANGED <<feed, sdk, control, wire, zombies, subscribed>> BY <1>2 DEF OnOpen
  <2>2. OneSocket' BY <1>2, <2>1 DEF OnOpen, OneSocket, TypeOK
  <2>3. StreamInv'
    <3>1. SUFFICES ASSUME NEW d \in Sockets, d = sdk, link'[d] = "open"
                   PROVE  subscribed \subseteq wire[d] \cup missed' \cup resending'[d]
      BY <2>1 DEF StreamInv
    <3>2. CASE d = c BY <1>2, <3>2 DEF OnOpen, ToSubscribe, TypeOK
    <3>3. CASE d # c
      <4>1. link[d] = "open" /\ resending'[d] = resending[d] /\ missed' = missed
        BY <1>2, <3>1, <3>3 DEF OnOpen, TypeOK
      <4>2. QED BY <3>1, <4>1 DEF StreamInv
    <3>4. QED BY <3>2, <3>3
  <2>4. QED BY <1>1, <2>1, <2>2, <2>3
<1>3. ASSUME NEW c \in Sockets, Resubscribe(c) PROVE ControlInv' /\ OneSocket' /\ StreamInv'
  <2>1. UNCHANGED <<feed, sdk, control, link, zombies, subscribed>> BY <1>3 DEF Resubscribe
  <2>2. OneSocket' BY <2>1 DEF OneSocket
  <2>3. PICK raises : Send(resending[c], {}, raises) BY <1>3 DEF Resubscribe
  <2>4. StreamInv'
    <3>1. SUFFICES ASSUME NEW d \in Sockets, d = sdk, link[d] = "open"
                   PROVE  subscribed \subseteq wire'[d] \cup missed' \cup resending'[d]
      BY <2>1 DEF StreamInv
    <3>2. sdk # NoSocket BY <3>1, FeedAssumption
    <3>3. missed' = missed \cup (resending[c] \cap raises) BY <2>3, <3>2 DEF Send
    <3>4. wire'[d] = wire[d] \cup (resending[c] \ raises)
      <4>1. wire' = [wire EXCEPT ![sdk] = (@ \cup (resending[c] \ raises)) \ ({} \ raises)]
        BY <2>3, <3>1, <3>2 DEF Send
      <4>2. QED BY <4>1, <3>1 DEF TypeOK
    <3>5. subscribed \subseteq wire[d] \cup missed \cup resending[d] BY <3>1 DEF StreamInv
    <3>6. d = c \/ resending'[d] = resending[d] BY <1>3 DEF Resubscribe, TypeOK
    <3>7. QED BY <3>3, <3>4, <3>5, <3>6
  <2>5. QED BY <1>1, <2>1, <2>2, <2>4
<1>4. ASSUME NEW c \in Sockets, Drop(c) \/ GiveUp(c)
      PROVE  ControlInv' /\ OneSocket' /\ StreamInv'
  <2>1. UNCHANGED <<feed, sdk, control, zombies, subscribed, resending, missed>>
    BY <1>4 DEF Drop, GiveUp
  <2>2. PICK to \in {"dialing", "dead"} : link' = [link EXCEPT ![c] = to]
    BY <1>4 DEF Drop, GiveUp
  <2>3. link[c] # "closed" /\ wire' = [wire EXCEPT ![c] = {}] BY <1>4 DEF Drop, GiveUp
  <2>4. OneSocket' BY <2>1, <2>2, <2>3 DEF OneSocket, TypeOK
  <2>5. \A d \in Sockets : link'[d] = "open" => link[d] = "open" /\ wire'[d] = wire[d]
    BY <2>2, <2>3 DEF TypeOK
  <2>6. StreamInv' BY <2>1, <2>5 DEF StreamInv
  <2>7. QED BY <1>1, <2>1, <2>4, <2>6
<1>5. CASE Time
  <2>1. UNCHANGED <<feed, sdk, control, sockets, history, subscribed>>
    BY <1>5 DEF Time, Tick, Silence
  <2>2. OneSocket' /\ StreamInv' BY <2>1 DEF OneSocket, StreamInv, sockets, history
  <2>3. QED BY <1>1, <2>1, <2>2
<1>6. CASE Start
  <2>1. feed = "down" /\ UNCHANGED <<sdk, control, link, zombies>>
    BY <1>6 DEF Start, sockets, history
  <2>2. supervisor = "top" /\ sdk' = NoSocket BY <2>1 DEF ControlInv
  <2>3. ControlInv' BY <2>1, <2>2 DEF ControlInv, control
  <2>4. OneSocket' BY <2>1 DEF OneSocket
  <2>5. QED BY <2>2, <2>3, <2>4, EmptyStreams
<1>7. CASE Crash
  <2>1. OneSocket' /\ ControlInv' BY <1>7 DEF Crash, OneSocket, ControlInv
  <2>2. QED BY <1>7, <2>1, EmptyStreams DEF Crash
<1>8. QED BY <1>2, <1>3, <1>4, <1>5, <1>6, <1>7 DEF SDK, Process

LEMMA Inductive == Spec => []IndInv
<1>1. Init => IndInv
  <2> SUFFICES ASSUME Init PROVE IndInv OBVIOUS
  <2>1. ControlInv BY DEF Init, ControlInv
  <2>2. OneSocket BY DEF Init, OneSocket
  <2>3. StreamInv BY FeedAssumption DEF Init, StreamInv
  <2>4. QED BY <2>1, <2>2, <2>3, InitTypes DEF IndInv
<1>2. IndInv /\ [Next]_vars => IndInv'
  <2> SUFFICES ASSUME IndInv, [Next]_vars PROVE IndInv' OBVIOUS
  <2>1. TypeOK' BY StepTypes DEF IndInv
  <2>2. CASE UNCHANGED vars
    <3>1. ControlInv' /\ OneSocket' /\ StreamInv'
      BY <2>2 DEF IndInv, ControlInv, OneSocket, StreamInv, vars, control, sockets, history
    <3>2. QED BY <2>1, <3>1 DEF IndInv
  <2>3. CASE Next
    <3>1. ControlInv' /\ OneSocket' /\ StreamInv'
      BY <2>3, OutsideSteps, ControlSteps, SocketSteps DEF Next
    <3>2. QED BY <2>1, <3>1 DEF IndInv
  <2>4. QED BY <2>2, <2>3
<1>3. QED BY <1>1, <1>2, PTL DEF Spec

(* OneSocket: no reconnect, however it comes about, leaves a second socket *)
(* alive unless its close_connection raised.                               *)
THEOREM SingleSocket == Spec => []OneSocket
<1>1. IndInv => OneSocket BY DEF IndInv
<1>2. QED BY <1>1, Inductive, PTL

(* Streamed: the current socket streams all that is subscribed, but for    *)
(* symbols whose subscribe raised.                                         *)
THEOREM AllStreamed == Spec => []Streamed
<1>1. IndInv => Streamed BY DEF IndInv, StreamInv, Streamed
<1>2. QED BY <1>1, Inductive, PTL

=============================================================================
