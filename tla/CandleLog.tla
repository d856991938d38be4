------------------------------ MODULE CandleLog ------------------------------
(***************************************************************************)
(* How 1-minute bars of one symbol get from Fyers into market_candles: the *)
(* candle cache and the catch-up of a scan (_process_symbol), its mark     *)
(* last_candle_ts in Redis, the backfill at startup or on request          *)
(* (bootstrap_historical_data), and data-service, which commits a request  *)
(* row by row and may still be at it when the client has given up.         *)
(*                                                                         *)
(* The daily bars of the backfill, which go to daily_ohlcv, are left out.  *)
(*                                                                         *)
(* A bar is stored "partial", as Fyers showed it in its own minute, or     *)
(* "final"; prices and indicators are left out.  The scheduler's scan and  *)
(* the one of POST /scan/trigger may overlap.                              *)
(***************************************************************************)
EXTENDS Integers, Sequences

CONSTANTS
  First, Last,   \* minutes of the session that are modelled
  Scans,         \* market_scan, POST /scan/trigger
  Backfill,      \* bootstrap_historical_data
  MaxBackfills,  \* bounds
  MaxFaults

Clients == Scans \cup {Backfill}
Minutes == First..Last
Never   == First - 1

ASSUME CandleAssumption ==
  /\ First \in Nat \ {0} /\ Last \in Nat /\ First <= Last
  /\ Backfill \notin Scans
  /\ MaxBackfills \in Nat /\ MaxFaults \in Nat

VARIABLES
  now,     \* the minute; Last + 1 after the close
  cache,   \* _candle_cache: the minute of the fetch and whether it succeeded
  lastTs,  \* last_candle_ts, or Never
  scan,    \* where each scan is: its step and the minute of its bars
  flight,  \* rows data-service has still to commit for each client
  late,    \* requests whose client has given up
  store,   \* market_candles: none, partial or final
  fills,   \* bounded counters
  faults,
  from,    \* history: the newest bar marked by a scan that had found no mark
  hurt     \* history: bars whose last copy was lost, is late, or is a late partial one

marks == <<lastTs, from>>
db    == <<store, hurt>>
vars  == <<now, cache, marks, scan, flight, late, db, fills, faults>>

Idle == [pc |-> "idle", asOf |-> Never, blind |-> FALSE]

Init ==
  /\ now = First
  /\ cache = [at |-> Never, ok |-> FALSE]
  /\ lastTs = Never
  /\ scan = [s \in Scans |-> Idle]
  /\ flight = [c \in Clients |-> <<>>] /\ late = {}
  /\ store = [m \in Minutes |-> "none"]
  /\ fills = 0 /\ faults = 0
  /\ from = Never /\ hurt = {}

-----------------------------------------------------------------------------
(* Rows.  What a fetch in minute m shows: every bar up to m, the last one  *)
(* partial while its minute lasts.                                         *)

NewestUncut(m) == m
Newest(m) == IF m > Last THEN Last ELSE m
Shows(m,t) == IF t = m THEN "partial" ELSE "final"
Row(m, t)     == [min |-> t, ver |-> Shows(m, t)]
Rows(m, a, b) == [i \in 1..(b - a + 1) |-> Row(m, a + i - 1)]
LatestRow(m)  == <<Row(m, Newest(m))>>

MinutesOf(rows) == {rows[i].min : i \in DOMAIN rows}

(* upsert_candle, and a commit: the prices are overwritten.                *)
Upsert(r) ==
  /\ store' = [store EXCEPT ![r.min] = r.ver]
  /\ hurt' = IF r.ver = "final" THEN hurt \ {r.min}
             ELSE IF now > r.min THEN hurt \cup {r.min} ELSE hurt

-----------------------------------------------------------------------------
(* A scan.                                                                 *)

(* _get_candles_cached: one fetch a minute, a failed one included.         *)
Fetch(s, ok) ==
  LET hit == cache.at = now
      got == IF hit THEN cache.ok ELSE ok
  IN  /\ scan[s] = Idle
      /\ hit => ok = cache.ok
      /\ cache' = [at |-> now, ok |-> got]
      /\ scan' = IF got THEN [scan EXCEPT ![s] = [pc |-> "read", asOf |-> now, blind |-> FALSE]]
                  ELSE scan
      /\ UNCHANGED <<now, marks, flight, late, db, fills, faults>>

(* select_candles_to_persist: from the marked bar on, that one included.   *)
SelectAfter(mark) == mark + 1
SelectFrom(mark) == mark

(* Without a mark only the newest bar.  All but the newest go in a batch,  *)
(* the newest follows by itself.                                           *)
ReadMark(s) ==
  LET m     == scan[s].asOf
      start == IF lastTs = Never THEN Newest(m) ELSE SelectFrom(lastTs)
      next  == IF start < Newest(m) THEN "batch" ELSE IF start = Newest(m) THEN "latest" ELSE "publish"
  IN  /\ scan[s].pc = "read"
      /\ scan' = [scan EXCEPT ![s].pc = next, ![s].blind = lastTs = Never]
      /\ flight' = [flight EXCEPT ![s] = CASE next = "batch"   -> Rows(m, start, Newest(m) - 1)
                                          [] next = "latest"  -> LatestRow(m)
                                          [] next = "publish" -> <<>>]
      /\ UNCHANGED <<now, cache, marks, late, db, fills, faults>>

(* A post is answered, fails or times out: what follows is the same.       *)
Onward(c) ==
  IF c \in Scans /\ scan[c].pc = "batch"
  THEN /\ scan' = [scan EXCEPT ![c].pc = "latest"]
       /\ flight' = [flight EXCEPT ![c] = LatestRow(scan[c].asOf)]
  ELSE /\ scan' = IF c \in Scans THEN [scan EXCEPT ![c].pc = "mark"] ELSE scan
       /\ flight' = [flight EXCEPT ![c] = <<>>]

Mark(s) ==
  /\ scan[s].pc = "mark"
  /\ lastTs' = Newest(scan[s].asOf)
  /\ from' = IF scan[s].blind /\ lastTs' > from THEN lastTs' ELSE from
  /\ scan' = [scan EXCEPT ![s].pc = "publish"]
  /\ UNCHANGED <<now, cache, flight, late, db, fills, faults>>

(* The snapshot market:{symbol} is set (MarketScan says to what).  The     *)
(* decision that follows is the subject of DecisionFlow.                   *)
Publish(s) ==
  /\ scan[s].pc = "publish"
  /\ scan' = [scan EXCEPT ![s] = Idle]
  /\ UNCHANGED <<now, cache, marks, flight, late, db, fills, faults>>

-----------------------------------------------------------------------------
(* The backfill, and data-service.                                         *)

StartBackfill ==
  /\ flight[Backfill] = <<>> /\ fills < MaxBackfills
  /\ fills' = fills + 1
  /\ flight' = [flight EXCEPT ![Backfill] = Rows(now, First, Newest(now))]
  /\ UNCHANGED <<now, cache, marks, scan, late, db, faults>>

(* The next row of a request is committed; the last one answers it.        *)
Serve(c) ==
  /\ flight[c] # <<>>
  /\ Upsert(Head(flight[c]))
  /\ IF Len(flight[c]) = 1 THEN Onward(c)
     ELSE flight' = [flight EXCEPT ![c] = Tail(@)] /\ UNCHANGED scan
  /\ UNCHANGED <<now, cache, marks, late, fills, faults>>

ServeLate(rows) ==
  /\ Upsert(Head(rows))
  /\ late' = (late \ {rows}) \cup (IF Len(rows) = 1 THEN {} ELSE {Tail(rows)})
  /\ UNCHANGED <<now, cache, marks, scan, flight, fills, faults>>

(* A request fails or times out: its rows are lost, or served later.       *)
GiveUp(c, lost) ==
  /\ flight[c] # <<>> /\ faults < MaxFaults
  /\ faults' = faults + 1
  /\ Onward(c)
  /\ late' = IF lost THEN late ELSE late \cup {flight[c]}
  /\ hurt' = hurt \cup MinutesOf(flight[c])
  /\ UNCHANGED <<now, cache, marks, store, fills>>

(* core-engine dies; data-service goes on with what it has received.       *)
Crash ==
  /\ faults < MaxFaults
  /\ faults' = faults + 1
  /\ cache' = [at |-> Never, ok |-> FALSE]
  /\ scan' = [s \in Scans |-> Idle]
  /\ flight' = [c \in Clients |-> <<>>]
  /\ late' = late \cup {flight[c] : c \in {d \in Clients : flight[d] # <<>>}}
  /\ UNCHANGED <<now, marks, db, fills>>

(* Redis fails a scan: run_market_scan catches and logs it.                *)
Abort(s) ==
  /\ scan[s].pc \in {"read", "mark", "publish"} /\ faults < MaxFaults
  /\ faults' = faults + 1
  /\ scan' = [scan EXCEPT ![s] = Idle]
  /\ UNCHANGED <<now, cache, marks, flight, late, db, fills>>

NextMinute ==
  /\ now <= Last
  /\ now' = now + 1
  /\ UNCHANGED <<cache, marks, scan, flight, late, db, fills, faults>>

(* What changes no snapshot.                                               *)
Log ==
  \/ \E s \in Scans : \/ \E ok \in BOOLEAN : Fetch(s, ok)
                      \/ ReadMark(s) \/ Mark(s) \/ Abort(s)
  \/ StartBackfill
  \/ \E c \in Clients : Serve(c) \/ \E lost \in BOOLEAN : GiveUp(c, lost)
  \/ \E rows \in late : ServeLate(rows)
  \/ Crash \/ NextMinute

Next == Log \/ \E s \in Scans : Publish(s)

Spec == Init /\ [][Next]_vars

-----------------------------------------------------------------------------
(* Properties.                                                             *)

RowSet == [min : Minutes, ver : {"partial", "final"}]
Requests == Seq(RowSet)
Places   == [pc : {"idle", "read", "batch", "latest", "mark", "publish"},
             asOf : Never..(Last + 1), blind : BOOLEAN]

TypeOK ==
  /\ now \in First..(Last + 1)
  /\ cache \in [at : Never..(Last + 1), ok : BOOLEAN]
  /\ lastTs \in Never..Last /\ from \in Never..Last
  /\ scan \in [Scans -> Places]
  /\ flight \in [Clients -> Requests] /\ late \subseteq Requests \ {<<>>}
  /\ store \in [Minutes -> {"none", "partial", "final"}]
  /\ fills \in 0..MaxBackfills /\ faults \in 0..MaxFaults /\ hurt \subseteq Minutes

(* "a bar that was previously persisted while partial can be re-upserted   *)
(* once Fyers finalises it" (candle_filter.py:20): from the bar that the    *)
(* first scan marked to the one before last_candle_ts every bar is stored, *)
(* and in its final state, through overlapping scans, backfills, crashes   *)
(* and failed fetches -- except one whose last copy was given up by the    *)
(* client, or is a partial one committed after its minute had ended.       *)
Mirrored ==
  lastTs # Never => \A m \in from..(lastTs - 1) : store[m] = "final" \/ m \in hurt
=============================================================================
