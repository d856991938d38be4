------------------------------ MODULE TickFeed ------------------------------
(***************************************************************************)
(* The Fyers WebSocket feed of core-engine: one SDK socket kept alive by a *)
(* supervisor task, a connect worker thread and a watchdog task            *)
(* (fyers/tick_feed.py), and the set of symbols it streams, driven by the  *)
(* positions of simulation-engine (execution/ws_control.py, and lifespan,  *)
(* the /ws endpoints and _reconcile_option_subscriptions of main.py).      *)
(*                                                                         *)
(* Code of core-engine's event loop between two awaits is one action.  The *)
(* SDK's threads call _on_open beside it, hence its two steps.  What the   *)
(* ticks say is left out: only whether they flow matters here.  Positions  *)
(* without an option are left out.                                         *)
(***************************************************************************)
EXTENDS Integers, FiniteSets

CONSTANTS
  Underlyings,   \* settings.symbols
  Options,       \* option symbols that positions may hold
  Sockets,       \* bound: FyersDataSocket objects alive or about to be, reused
  NoSocket,      \* None
  Reconcilers,   \* callers of _reconcile_option_subscriptions
  MaxTrades,     \* bound: positions opened
  MaxFaults      \* bound: dropped sockets, failed SDK calls and reads, crashes

ASSUME FeedAssumption ==
  /\ Underlyings # {} /\ Underlyings \cap Options = {}
  /\ NoSocket \notin Sockets
  /\ MaxTrades \in Nat /\ MaxFaults \in Nat

Symbols == Underlyings \cup Options
Posts   == {"subscribe", "unsubscribe"} \X Options

VARIABLES
  \* simulation-engine, Redis and the account
  book,          \* options of positions:open
  posts,         \* POSTs to /ws/... not served yet
  account,       \* options that get_fyers_positions returns, never changed
  trades,        \* positions opened so far
  \* core-engine
  feed,          \* "down": no process, "off": tick_feed is None, "on"
  subscribed,    \* _subscribed
  sdk,           \* _fyers
  supervisor,    \* where _supervise is
  worker,        \* the connect worker that _supervise waits for
  stray,         \* a worker it no longer waits for is still before "_fyers = ..."
  requested,     \* _reconnect_requested
  stale,         \* over 60 s since _last_msg_monotonic
  reading,       \* reconcilers that have read positions:open ...
  read,          \* ... and the options they read
  \* the SDK's sockets
  link,          \* by socket: "closed", "dialing", "open", or "dead" and not telling
  wire,          \* by socket: the symbols Fyers streams on it
  resending,     \* by socket: what its running _on_open is about to subscribe
  \* history, read by no action
  missed,        \* symbols whose subscribe raised since the current socket opened
  zombies,       \* sockets whose close_connection raised
  faults

outside   == <<book, posts, account, trades>>
sockets   == <<link, wire, resending>>
control   == <<supervisor, worker, stray, requested>>
history   == <<missed, zombies, faults>>
reconcile == <<reading, read>>
vars      == <<outside, feed, subscribed, sdk, control, stale, reconcile, sockets, history>>

Fault      == faults < MaxFaults /\ faults' = faults + 1
Unless(ok) == IF ok THEN UNCHANGED faults ELSE Fault
Flowing(c) == link[c] = "open" /\ wire[c] # {}

Init ==
  /\ book = {} /\ posts = {} /\ account \in SUBSET Options /\ trades = 0
  /\ feed = "down" /\ subscribed = {} /\ sdk = NoSocket
  /\ supervisor = "top" /\ worker = "none" /\ stray = FALSE
  /\ requested = FALSE /\ stale = FALSE
  /\ reading = {} /\ read = [r \in Reconcilers |-> {}]
  /\ link = [c \in Sockets |-> "closed"] /\ wire = [c \in Sockets |-> {}]
  /\ resending = [c \in Sockets |-> {}]
  /\ missed = {} /\ zombies = {} /\ faults = 0

-----------------------------------------------------------------------------
(* Simulation-engine.  A POST that times out after 2 s may have been lost  *)
(* or may still be served, and the POSTs of two handlers pass each other.  *)

OpenPosition(o) ==
  /\ trades < MaxTrades /\ o \notin book
  /\ trades' = trades + 1
  /\ book' = book \cup {o}
  /\ posts' = posts \cup {<<"subscribe", o>>}
  /\ UNCHANGED <<account, feed, subscribed, sdk, control, stale, reconcile, sockets, history>>

ClosePosition(o) ==
  /\ o \in book
  /\ book' = book \ {o}
  /\ posts' = posts \cup {<<"unsubscribe", o>>}
  /\ UNCHANGED <<account, trades, feed, subscribed, sdk, control, stale, reconcile, sockets,
                 history>>

(* Lost, refused by a process that is down, or answered with 503 by one    *)
(* without a tick feed.                                                    *)
LosePost(p) ==
  /\ p \in posts
  /\ posts' = posts \ {p}
  /\ UNCHANGED <<book, account, trades, feed, subscribed, sdk, control, stale, reconcile,
                 sockets, history>>

-----------------------------------------------------------------------------
(* Subscriptions.                                                          *)

(* self._fyers.subscribe and .unsubscribe, once for each symbol.  On a     *)
(* socket that is not open they reach nobody; raises is the set of symbols *)
(* for which the SDK raises, which is logged and forgotten.                *)
Send(add, remove, raises) ==
  /\ raises \subseteq add \cup remove
  /\ IF sdk # NoSocket
       THEN /\ IF link[sdk] = "open"
                 THEN wire' = [wire EXCEPT ![sdk] = (@ \cup (add \ raises)) \ (remove \ raises)]
                 ELSE UNCHANGED wire
            /\ missed' = missed \cup (add \cap raises)
       ELSE raises = {} /\ UNCHANGED <<wire, missed>>

(* subscribe_symbol for each of add, then unsubscribe_symbol for each of   *)
(* remove; both do nothing for a symbol already there, already gone, or an *)
(* underlying to be removed.  A fault unless ok.                           *)
Change(add, remove, ok) ==
  LET new  == add \ subscribed
      gone == (remove \cap subscribed) \ Underlyings
  IN  /\ subscribed' = (subscribed \cup new) \ gone
      /\ \E raises \in SUBSET (new \cup gone) :
           Send(new, gone, raises) /\ Unless(ok /\ raises = {})

ServePost(p) ==
  /\ p \in posts /\ feed = "on"
  /\ posts' = posts \ {p}
  /\ IF p[1] = "subscribe" THEN Change({p[2]}, {}, TRUE) ELSE Change({}, {p[2]}, TRUE)
  /\ UNCHANGED <<book, account, trades, feed, sdk, control, stale, reconcile, link, resending,
                 zombies>>

(* HGETALL positions:open; an exception counts as an empty book.           *)
ReadOfAll(ok) == IF ok THEN book ELSE Symbols
ReadOf(ok)    == IF ok THEN book ELSE {}

ReadBook(r) ==
  /\ feed = "on" /\ r \notin reading
  /\ reading' = reading \cup {r}
  /\ \E ok \in BOOLEAN :
       /\ Unless(ok)
       /\ read' = [read EXCEPT ![r] = ReadOf(ok)]
  /\ UNCHANGED <<outside, feed, subscribed, sdk, control, stale, sockets, missed, zombies>>

(* The rest has no await: get_fyers_positions, asked for an empty book,    *)
(* blocks the loop, and an error there counts as an empty account.         *)
Wanted(b, acc) == Underlyings \cup (IF b # {} THEN b ELSE acc)

UnwantedNone(want) == {}
Unwanted(want)     == subscribed \ want

Reconcile(r) ==
  /\ r \in reading
  /\ reading' = reading \ {r}
  /\ read' = [read EXCEPT ![r] = {}]
  /\ \E acc \in IF read[r] = {} THEN {account, {}} ELSE {account} :
       LET want == Wanted(read[r], acc)
       IN  Change(want \ subscribed, Unwanted(want), acc = account)
  /\ UNCHANGED <<outside, feed, sdk, control, stale, link, resending, zombies>>

-----------------------------------------------------------------------------
(* The supervisor and its worker.                                          *)

(* _tear_down_sdk.  Closing a socket that is still dialing stops it; what  *)
(* close_connection raises is swallowed, and the socket may live on.       *)
TearDown ==
  IF sdk = NoSocket
    THEN UNCHANGED <<sdk, link, wire, zombies, faults>>
    ELSE /\ sdk' = NoSocket
         /\ \/ /\ link' = [link EXCEPT ![sdk] = "closed"]
               /\ wire' = [wire EXCEPT ![sdk] = {}]
               /\ UNCHANGED <<zombies, faults>>
            \/ Fault /\ zombies' = zombies \cup {sdk} /\ UNCHANGED <<link, wire>>

(* _reconnect_requested.set() and .clear().                                *)
RequestNone  == UNCHANGED requested
Request      == requested' = TRUE
ClearNone    == UNCHANGED requested
ClearRequest == requested' = FALSE

(* Top of the loop of _supervise: clear the request, refresh the heartbeat *)
(* and start a connect worker.                                             *)
StartConnect ==
  /\ feed = "on" /\ supervisor = "top"
  /\ supervisor' = "race" /\ worker' = "token"
  /\ ClearRequest /\ stale' = FALSE
  /\ UNCHANGED <<outside, feed, subscribed, sdk, stray, reconcile, sockets, history>>

(* The watchdog's request wins the race: the worker is left to itself.     *)
Abandon ==
  /\ supervisor = "race" /\ requested
  /\ TearDown
  /\ stray' = (stray \/ worker = "token")
  /\ supervisor' = "top" /\ worker' = "none"
  /\ UNCHANGED <<outside, feed, subscribed, requested, stale, reconcile, resending,
                 missed>>

ConnectError ==
  /\ supervisor = "race" /\ worker = "raised"
  /\ TearDown
  /\ supervisor' = "backoff" /\ worker' = "none"
  /\ UNCHANGED <<outside, feed, subscribed, stray, requested, stale, reconcile, resending,
                 missed>>

Connected ==
  /\ supervisor = "race" /\ worker = "returned"
  /\ supervisor' = "parked" /\ worker' = "none"
  /\ UNCHANGED <<outside, feed, subscribed, sdk, stray, requested, stale, reconcile, sockets,
                 history>>

(* The end of the sleep, 1 s doubled up to 60 s.                           *)
Retry ==
  /\ supervisor = "backoff"
  /\ supervisor' = "top"
  /\ UNCHANGED <<outside, feed, subscribed, sdk, worker, stray, requested, stale, reconcile,
                 sockets, history>>

Rebuild ==
  /\ supervisor = "parked" /\ requested
  /\ TearDown
  /\ supervisor' = "top"
  /\ UNCHANGED <<outside, feed, subscribed, worker, stray, requested, stale, reconcile,
                 resending, missed>>

(* _connect_blocking: get_valid_token, then a new socket in self._fyers    *)
(* and connect(), which may return, raise, or do neither.  An abandoned    *)
(* worker does the same, over the head of the next one.                    *)
Free(c) == link[c] = "closed" /\ resending[c] = {} /\ c # sdk

Dial ==
  /\ \E c \in Sockets : Free(c)
  /\ sdk' = CHOOSE c \in Sockets : Free(c)
  /\ link' = [link EXCEPT ![sdk'] = "dialing"]
  /\ UNCHANGED <<outside, feed, subscribed, supervisor, requested, stale, reconcile, wire,
                 resending, history>>

WorkerDials ==
  \E abandoned \in BOOLEAN :
    /\ IF abandoned
         THEN stray /\ stray' = FALSE /\ UNCHANGED worker
         ELSE worker = "token" /\ worker' = "dialing" /\ UNCHANGED stray
    /\ Dial

NoToken ==
  /\ worker = "token"
  /\ worker' = "raised"
  /\ UNCHANGED <<outside, feed, subscribed, sdk, supervisor, stray, requested, stale,
                 reconcile, sockets, history>>

ConnectEnds(how) ==
  /\ worker = "dialing"
  /\ how = "raised" /\ sdk # NoSocket => link[sdk] # "open"
  /\ worker' = how
  /\ UNCHANGED <<outside, feed, subscribed, sdk, supervisor, stray, requested, stale,
                 reconcile, sockets, history>>

(* _watchdog, every 15 s, when the market is open.                         *)
Watchdog ==
  /\ feed = "on" /\ stale /\ sdk # NoSocket
  /\ TearDown
  /\ Request /\ stale' = FALSE
  /\ UNCHANGED <<outside, feed, subscribed, supervisor, worker, stray, reconcile, resending,
                 missed>>

-----------------------------------------------------------------------------
(* SDK threads and time.                                                   *)

(* _on_open: the list is built, then sent on whatever socket is in _fyers. *)
ToSubscribeFixed == Underlyings
ToSubscribe      == subscribed

OnOpen(c) ==
  /\ link[c] = "dialing" /\ resending[c] = {}
  /\ link' = [link EXCEPT ![c] = "open"]
  /\ resending' = [resending EXCEPT ![c] = ToSubscribe]
  /\ missed' = IF c = sdk THEN {} ELSE missed
  /\ UNCHANGED <<outside, feed, subscribed, sdk, control, stale, reconcile, wire, zombies,
                 faults>>

Resubscribe(c) ==
  /\ resending[c] # {}
  /\ resending' = [resending EXCEPT ![c] = {}]
  /\ \E raises \in {{}, resending[c]} : Send(resending[c], {}, raises) /\ Unless(raises = {})
  /\ UNCHANGED <<outside, feed, subscribed, sdk, control, stale, reconcile, link, zombies>>

(* A drop the SDK dials again by itself (reconnect=True) without its       *)
(* subscriptions, and one it gives up on.                                  *)
Drop(c) ==
  /\ link[c] = "open" /\ Fault
  /\ link' = [link EXCEPT ![c] = "dialing"]
  /\ wire' = [wire EXCEPT ![c] = {}]
  /\ UNCHANGED <<outside, feed, subscribed, sdk, control, stale, reconcile, resending,
                 missed, zombies>>

GiveUp(c) ==
  /\ link[c] \in {"dialing", "open"} /\ Fault
  /\ link' = [link EXCEPT ![c] = "dead"]
  /\ wire' = [wire EXCEPT ![c] = {}]
  /\ UNCHANGED <<outside, feed, subscribed, sdk, control, stale, reconcile, resending,
                 missed, zombies>>

(* _on_message refreshes the heartbeat, whichever socket and symbol it is. *)
Tick ==
  /\ stale /\ \E c \in Sockets : Flowing(c)
  /\ stale' = FALSE
  /\ UNCHANGED <<outside, feed, subscribed, sdk, control, reconcile, sockets, history>>

(* 60 s without a tick, on a dead feed or because no market is open.  A    *)
(* token is a local file, read in far less.                                *)
Silence ==
  /\ feed = "on" /\ ~stale
  /\ supervisor # "top" /\ worker # "token"
  /\ stale' = TRUE
  /\ UNCHANGED <<outside, feed, subscribed, sdk, control, reconcile, sockets, history>>

-----------------------------------------------------------------------------
(* The process.  lifespan starts the feed if there is a token; otherwise   *)
(* tick_feed stays None until the next start.  A crash, or stop(), ends    *)
(* every task, thread and socket.                                          *)

Start ==
  /\ feed = "down"
  /\ feed' \in {"on", "off"}
  /\ subscribed' = Underlyings
  /\ UNCHANGED <<outside, sdk, control, stale, reconcile, sockets, history>>

Crash ==
  /\ feed # "down" /\ Fault
  /\ feed' = "down" /\ subscribed' = {} /\ sdk' = NoSocket
  /\ supervisor' = "top" /\ worker' = "none" /\ stray' = FALSE
  /\ requested' = FALSE /\ stale' = FALSE
  /\ reading' = {} /\ read' = [r \in Reconcilers |-> {}]
  /\ link' = [c \in Sockets |-> "closed"] /\ wire' = [c \in Sockets |-> {}]
  /\ resending' = [c \in Sockets |-> {}]
  /\ missed' = {} /\ zombies' = {}
  /\ UNCHANGED outside

Trading ==
  \/ \E o \in Options : OpenPosition(o) \/ ClosePosition(o)
  \/ \E p \in Posts : LosePost(p) \/ ServePost(p)
Reconciling == \E r \in Reconcilers : ReadBook(r) \/ Reconcile(r)
Supervise   == StartConnect \/ Abandon \/ ConnectError \/ Connected \/ Retry \/ Rebuild
Worker      ==
  WorkerDials \/ NoToken \/ \E how \in {"raised", "returned"} : ConnectEnds(how)
SDK         == \E c \in Sockets : OnOpen(c) \/ Resubscribe(c) \/ Drop(c) \/ GiveUp(c)
Time        == Tick \/ Silence
Process     == Start \/ Crash

Next == Trading \/ Reconciling \/ Supervise \/ Worker \/ Watchdog \/ SDK \/ Time \/ Process
Spec == Init /\ [][Next]_vars

(* Ready tasks and threads run, the container restarts, time passes and    *)
(* the market opens again; a dial succeeds and a token is there again and  *)
(* again (SF), and _on_open is not always overtaken by the watchdog, which *)
(* looks every 15 s.                                                       *)
Quiet           == Silence /\ \A c \in Sockets : ~Flowing(c)
ResubscribeLive == \E c \in Sockets : c = sdk /\ link[c] = "open" /\ Resubscribe(c)
AnyOnOpen       == \E c \in Sockets : OnOpen(c)
AnyResubscribe  == \E c \in Sockets : Resubscribe(c)

FairSpec ==
  /\ Spec
  /\ WF_vars(Supervise) /\ WF_vars(Watchdog) /\ WF_vars(Quiet) /\ WF_vars(Start)
  /\ SF_vars(WorkerDials) /\ SF_vars(AnyOnOpen) /\ SF_vars(ResubscribeLive)
  /\ WF_vars(AnyResubscribe)
  /\ \A r \in Reconcilers : WF_vars(ReadBook(r)) /\ WF_vars(Reconcile(r))

-----------------------------------------------------------------------------
TypeOK ==
  /\ book \in SUBSET Options /\ posts \in SUBSET Posts /\ account \in SUBSET Options
  /\ trades \in Nat /\ faults \in Nat
  /\ feed \in {"down", "off", "on"}
  /\ subscribed \in SUBSET Symbols
  /\ sdk \in Sockets \cup {NoSocket}
  /\ supervisor \in {"top", "race", "backoff", "parked"}
  /\ worker \in {"none", "token", "dialing", "raised", "returned"}
  /\ stray \in BOOLEAN /\ requested \in BOOLEAN /\ stale \in BOOLEAN
  /\ reading \in SUBSET Reconcilers /\ read \in [Reconcilers -> SUBSET Options]
  /\ link \in [Sockets -> {"closed", "dialing", "open", "dead"}]
  /\ wire \in [Sockets -> SUBSET Symbols]
  /\ resending \in [Sockets -> SUBSET Symbols]
  /\ missed \in SUBSET Symbols /\ zombies \in SUBSET Sockets

(* OneSocket: every socket that is not closed is the one in _fyers, unless *)
(* its close_connection raised.  A second one would feed the same          *)
(* callbacks and heartbeat and hide that the current one is dead           *)
(* (_supervise, _connect_blocking, _watchdog, _tear_down_sdk).             *)
OneSocket == \A c \in Sockets : link[c] # "closed" => c = sdk \/ c \in zombies

(* Streamed: when the current socket is open and its _on_open is done,     *)
(* Fyers streams every subscribed symbol on it, whatever subscribe,        *)
(* unsubscribe or reconcile ran beside _on_open and however often the      *)
(* connection was rebuilt, except those whose subscribe raised.            *)
Streamed ==
  \A c \in Sockets : c = sdk /\ link[c] = "open" /\ resending[c] = {} =>
    subscribed \subseteq wire[c] \cup missed

(* Recovers: while the process runs, a feed without ticks comes back on    *)
(* its current socket, wherever the supervisor and the connect worker are  *)
(* stuck.                                                                  *)
Live == \E c \in Sockets : c = sdk /\ link[c] = "open" /\ wire[c] # {}
Recovers ==
  (feed = "on" /\ ~Live) ~> (Live \/ feed # "on" \/ zombies # {})

(* Converges: once trading is over, the periodic reconcile makes           *)
(* _subscribed what the book, or else the account, asks for, whatever was  *)
(* lost, late or out of order.                                             *)
Converges == <>[](feed = "on" => subscribed = Wanted(book, account))
=============================================================================
