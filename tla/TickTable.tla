------------------------------ MODULE TickTable ------------------------------
(***************************************************************************)
(* What FyersTickFeed does with the ticks (tick_feed.py): _on_message, on  *)
(* the SDK's thread, fills the tables _latest, _forming_bars and           *)
(* _finalized_bars and wakes the consumer; _consume, on the event loop,    *)
(* writes them to Redis.  No lock: a step of the one falls between any two *)
(* dict operations or awaits of the other.  TickFeed models the socket.    *)
(*                                                                         *)
(* A tick is [min, no]: the minute of its exch_feed_time, which never goes *)
(* back, and its number.  A bar is [min, ticks]: the ticks it is made of   *)
(* (open, high, low, close and n are functions of those).  That the Redis  *)
(* keys expire, after 10, 90 and 120 s, is left out.                       *)
(***************************************************************************)
EXTENDS Integers, FiniteSets

CONSTANTS
  Symbols,
  None,
  MaxMinute,   \* bounds
  MaxTicks,
  MaxFailures

Tick      == [min : Nat, no : Nat]
MinuteBar == [min : Nat, ticks : SUBSET Tick]

ASSUME TickAssumption ==
  /\ None \notin Tick \cup MinuteBar
  /\ MaxMinute \in Nat /\ MaxTicks \in Nat /\ MaxFailures \in Nat

Keys == {"ltp", "forming_bar", "last_bar"}

VARIABLES
  minute,     \* of the exchange
  ticks,      \* by symbol: all that have arrived (history)
  latest,     \* _latest
  forming,    \* _forming_bars
  finalized,  \* _finalized_bars
  sdk,        \* the SDK's thread in _on_message
  wakes,      \* call_soon_threadsafe(_tick_event.set) not run yet
  event,      \* _tick_event
  consumer,   \* where _consume is, and the keys it has still to visit
  hot,        \* symbols written less than 200 ms ago
  redis,      \* by key and symbol: what Redis holds
  dropped,    \* symbols whose newest tick was throttled or failed to be written (history)
  failures

tables == <<latest, forming, finalized>>
tickVars == <<minute, ticks, tables, sdk, wakes, event, consumer, hot, redis, dropped, failures>>

Bar(m, set) == [min |-> m, ticks |-> set]
Ready == [pc |-> "ready"]
Sleep == [pc |-> "wait", todo |-> {}]

TickInit ==
  /\ minute = 1 /\ ticks = [s \in Symbols |-> {}]
  /\ latest = [s \in Symbols |-> None] /\ forming = latest /\ finalized = latest
  /\ sdk = Ready /\ wakes = FALSE /\ event = FALSE
  /\ consumer = Sleep /\ hot = {}
  /\ redis = [k \in Keys |-> latest] /\ dropped = {} /\ failures = 0

-----------------------------------------------------------------------------
(* _on_message.                                                            *)

Latest(s) ==
  LET t == [min |-> minute, no |-> Cardinality(ticks[s]) + 1]
  IN  /\ sdk = Ready /\ Cardinality(ticks[s]) < MaxTicks
      /\ ticks' = [ticks EXCEPT ![s] = @ \cup {t}]
      /\ latest' = [latest EXCEPT ![s] = t]
      /\ sdk' = [pc |-> "bar", sym |-> s, tick |-> t]
      /\ UNCHANGED <<minute, forming, finalized, wakes, event, consumer, hot, redis, dropped,
                     failures>>

Same(bar, t) == bar # None /\ bar.min = t.min

(* The tick joins the forming bar, or the bar of an earlier minute is      *)
(* handed over first.                                                      *)
Join ==
  LET s == sdk.sym
  IN  /\ sdk.pc = "bar" /\ Same(forming[s], sdk.tick)
      /\ forming' = [forming EXCEPT ![s].ticks = @ \cup {sdk.tick}]
      /\ sdk' = [sdk EXCEPT !.pc = "wake"]
      /\ UNCHANGED <<minute, ticks, latest, finalized, wakes, event, consumer, hot, redis,
                     dropped, failures>>

HandOver ==
  LET s == sdk.sym
  IN  /\ sdk.pc = "bar" /\ ~Same(forming[s], sdk.tick)
      /\ finalized' = IF forming[s] = None THEN finalized
                      ELSE [finalized EXCEPT ![s] = forming[s]]
      /\ sdk' = [sdk EXCEPT !.pc = "fresh"]
      /\ UNCHANGED <<minute, ticks, latest, forming, wakes, event, consumer, hot, redis,
                     dropped, failures>>

StartBar ==
  /\ sdk.pc = "fresh"
  /\ forming' = [forming EXCEPT ![sdk.sym] = Bar(sdk.tick.min, {sdk.tick})]
  /\ sdk' = [sdk EXCEPT !.pc = "wake"]
  /\ UNCHANGED <<minute, ticks, latest, finalized, wakes, event, consumer, hot, redis,
                 dropped, failures>>

Wake ==
  /\ sdk.pc = "wake"
  /\ wakes' = TRUE
  /\ sdk' = Ready
  /\ UNCHANGED <<minute, ticks, tables, event, consumer, hot, redis, dropped, failures>>

-----------------------------------------------------------------------------
(* The event loop.                                                         *)

SetEvent ==
  /\ wakes
  /\ wakes' = FALSE /\ event' = TRUE
  /\ UNCHANGED <<minute, ticks, tables, sdk, consumer, hot, redis, dropped, failures>>

(* wait, clear, then the keys of _finalized_bars.                          *)
Begin ==
  /\ consumer.pc = "wait" /\ event
  /\ event' = FALSE
  /\ consumer' = [pc |-> "final", todo |-> {s \in Symbols : finalized[s] # None}]
  /\ UNCHANGED <<minute, ticks, tables, sdk, wakes, hot, redis, dropped, failures>>

(* setex, which may fail: that is logged.                                  *)
SetEx(key, s, value, ok) ==
  /\ ok \/ failures < MaxFailures
  /\ redis' = IF ok THEN [redis EXCEPT ![key][s] = value] ELSE redis
  /\ failures' = IF ok THEN failures ELSE failures + 1

WriteFinal(s, ok) ==
  /\ consumer.pc = "final" /\ s \in consumer.todo
  /\ finalized' = [finalized EXCEPT ![s] = None]
  /\ SetEx("last_bar", s, finalized[s], ok)
  /\ consumer' = [consumer EXCEPT !.todo = @ \ {s}]
  /\ UNCHANGED <<minute, ticks, latest, forming, sdk, wakes, event, hot, dropped>>

(* The keys of _latest.                                                    *)
Turn ==
  /\ consumer.pc = "final" /\ consumer.todo = {}
  /\ consumer' = [pc |-> "latest", todo |-> {s \in Symbols : latest[s] # None}]
  /\ UNCHANGED <<minute, ticks, tables, sdk, wakes, event, hot, redis, dropped, failures>>

(* A tick within 200 ms of the last write is dropped.                      *)
Throttle(s) ==
  /\ consumer.pc = "latest" /\ s \in consumer.todo /\ s \in hot
  /\ latest' = [latest EXCEPT ![s] = None]
  /\ dropped' = dropped \cup {s}
  /\ consumer' = [consumer EXCEPT !.todo = @ \ {s}]
  /\ UNCHANGED <<minute, ticks, forming, finalized, sdk, wakes, event, hot, redis, failures>>

WriteTick(s, ok) ==
  /\ consumer.pc = "latest" /\ s \in consumer.todo /\ s \notin hot
  /\ latest' = [latest EXCEPT ![s] = None]
  /\ hot' = hot \cup {s}
  /\ SetEx("ltp", s, latest[s], ok)
  /\ dropped' = IF ok THEN dropped \ {s} ELSE dropped \cup {s}
  /\ consumer' = [pc |-> "forming", todo |-> consumer.todo \ {s}, sym |-> s]
  /\ UNCHANGED <<minute, ticks, forming, finalized, sdk, wakes, event>>

(* The forming bar as it is by now.                                        *)
WriteForming(ok) ==
  LET s == consumer.sym
  IN  /\ consumer.pc = "forming"
      /\ IF forming[s] = None THEN ok /\ UNCHANGED <<redis, failures>>
         ELSE SetEx("forming_bar", s, forming[s], ok)
      /\ dropped' = IF ok THEN dropped ELSE dropped \cup {s}
      /\ consumer' = [pc |-> "latest", todo |-> consumer.todo]
      /\ UNCHANGED <<minute, ticks, tables, sdk, wakes, event, hot>>

(* Back to wait().                                                         *)
RestClearing ==
  /\ consumer.pc = "latest" /\ consumer.todo = {}
  /\ consumer' = Sleep /\ event' = FALSE
  /\ UNCHANGED <<minute, ticks, tables, sdk, wakes, hot, redis, dropped, failures>>

Rest ==
  /\ consumer.pc = "latest" /\ consumer.todo = {}
  /\ consumer' = Sleep
  /\ UNCHANGED <<minute, ticks, tables, sdk, wakes, event, hot, redis, dropped, failures>>

Cool(s) ==
  /\ s \in hot
  /\ hot' = hot \ {s}
  /\ UNCHANGED <<minute, ticks, tables, sdk, wakes, event, consumer, redis, dropped, failures>>

TickMinute ==
  /\ minute < MaxMinute
  /\ minute' = minute + 1
  /\ UNCHANGED <<ticks, tables, sdk, wakes, event, consumer, hot, redis, dropped, failures>>

TickNext ==
  \/ \E s \in Symbols : Latest(s)
  \/ Join \/ HandOver \/ StartBar \/ Wake
  \/ SetEvent \/ Begin \/ Turn \/ Rest \/ TickMinute
  \/ \E ok \in BOOLEAN : WriteForming(ok) \/ \E s \in Symbols : WriteFinal(s, ok) \/ WriteTick(s, ok)
  \/ \E s \in Symbols : Throttle(s) \/ Cool(s)

TickSpec == TickInit /\ [][TickNext]_tickVars

-----------------------------------------------------------------------------
(* Properties.                                                             *)

OfMinute(s, m) == {t \in ticks[s] : t.min = m}
Asleep == consumer = Sleep /\ ~event /\ ~wakes /\ sdk = Ready

(* "dict.pop is atomic in CPython so we don't race against the SDK thread" *)
(* (tick_feed.py:465), although nothing is locked: no wake-up is lost, a   *)
(* consumer that sleeps with none on its way has left no tick and no bar   *)
(* behind.                                                                 *)
NothingLeft == Asleep => \A s \in Symbols : latest[s] = None /\ finalized[s] = None

(* "Any bar that just finalised (minute rollover) is written to last_bar"  *)
(* (tick_feed.py:437): it holds every tick of its minute, which is over.   *)
LastBarComplete ==
  \A s \in Symbols :
    LET bar == redis["last_bar"][s]
    IN  bar # None => /\ bar.ticks = OfMinute(s, bar.min)
                      /\ \E t \in ticks[s] : t.min > bar.min

(* "we publish the freshest available" (tick_feed.py:485): once the        *)
(* consumer sleeps, ltp is the newest tick of a symbol, if that tick was   *)
(* neither throttled nor failed to be written.  The bar may lack that one  *)
(* tick: _latest is set before the bar, a consumer that is already running *)
(* takes the tick in between, and the wake-up that follows finds no tick   *)
(* and writes no bar.                                                      *)
FreshestShown ==
  Asleep =>
    \A s \in Symbols \ dropped :
      LET tick == redis["ltp"][s]
          bar  == redis["forming_bar"][s]
      IN  /\ tick # None => \A t \in ticks[s] : t.no <= tick.no
          /\ bar # None =>
               Cardinality({t \in ticks[s] : t.min >= bar.min} \ bar.ticks) <= 1

(* The three together: what the tables promise to the readers of Redis     *)
(* (tick_feed.py:449-486).                                                 *)
TicksKept == NothingLeft /\ LastBarComplete /\ FreshestShown
=============================================================================
