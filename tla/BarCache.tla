------------------------------ MODULE BarCache ------------------------------
(***************************************************************************)
(* The daily bars of one stock: CoreEngineProvider.daily_bars of           *)
(* equity-engine reads them through daily_ohlcv (data-service) and asks    *)
(* Fyers, by core-engine, only for what is missing.  The screener, the     *)
(* analysis and the CLI's backtests run it in threads and processes of     *)
(* their own, each with its own limit.                                     *)
(*                                                                         *)
(* A bar is "partial" while its day trades and "final" afterwards; prices  *)
(* are left out.                                                           *)
(***************************************************************************)
EXTENDS Integers, FiniteSets, FiniteSetsExt

CONSTANTS
  Readers,
  Limit,        \* by reader: the bars it asks for
  Slack,        \* 5: rows read beyond the limit
  TopUp,        \* 40: bars fetched when there are enough
  Chunk,        \* trading days that one request to Fyers may span
  TradingDays,
  FirstDay,     \* bounds
  LastDay,
  MaxMisses

ASSUME BarCacheAssumption ==
  /\ FirstDay \in Nat \ {0} /\ LastDay \in Nat
  /\ TradingDays \subseteq Nat \ {0}
  /\ Limit \in [Readers -> Nat \ {0}] /\ Slack \in Nat /\ MaxMisses \in Nat
  /\ TopUp \in Nat \ {0} /\ Chunk \in Nat /\ TopUp <= Chunk /\ \A r \in Readers : TopUp <= Limit[r]

VARIABLES
  day, session,  \* the date; "before", "open" or "closed"
  table,         \* daily_ohlcv: date -> partial or final
  reader,        \* where each reader is, what it has read and fetched
  series,        \* what each reader got last
  misses,
  latest,       \* history: the newest day ever written, or 0
  torn           \* history: a write left a gap behind it, or Fyers a piece out

barVars == <<day, session, table, reader, series, misses, latest, torn>>

NoBars == <<>>
Away   == [pc |-> "away", db |-> NoBars, fresh |-> NoBars, cut |-> FALSE]

BarInit ==
  /\ day = FirstDay /\ session = "before"
  /\ table = NoBars
  /\ reader = [r \in Readers |-> Away] /\ series = [r \in Readers |-> NoBars]
  /\ misses = 0 /\ latest = 0 /\ torn = FALSE

-----------------------------------------------------------------------------
(* Bars by date.                                                           *)

LastDays(n, dates) == {d \in dates : Cardinality({e \in dates : e > d}) < n}
Newest(n, bars) == [d \in LastDays(n, DOMAIN bars) |-> bars[d]]

(* _merge_bars, and ON CONFLICT DO UPDATE: b over a.                       *)
MergeOnce(a, b) ==
  [d \in DOMAIN a \cup DOMAIN b |-> IF d \in DOMAIN a THEN a[d] ELSE b[d]]
MergeBars(a, b) ==
  [d \in DOMAIN a \cup DOMAIN b |-> IF d \in DOMAIN b THEN b[d] ELSE a[d]]

Shown == [d \in {e \in TradingDays : e < day \/ (e = day /\ session # "before")} |->
            IF d = day /\ session = "open" THEN "partial" ELSE "final"]

(* get_historical_candles: a window wider than one request is asked for in *)
(* pieces, the newest first; one that fails is passed over.                *)
PieceOf(d, dates) == Cardinality({e \in dates : e > d}) \div Chunk
Pieces(n) ==
  LET dates == LastDays(n, DOMAIN Shown)
  IN  {[d \in {e \in dates : PieceOf(e, dates) \in answered} |-> Shown[d]] :
         answered \in SUBSET (0..((n - 1) \div Chunk))}

Enough(r, bars) == Cardinality(DOMAIN bars) >= Limit[r]
UpToDate(bars)  == DOMAIN bars # {} /\ Max(DOMAIN bars) >= day

Miss(ok) == IF ok THEN UNCHANGED misses ELSE misses < MaxMisses /\ misses' = misses + 1

-----------------------------------------------------------------------------
(* daily_bars.                                                             *)

(* The rows are read; on an error there are none.  Enough of them, with    *)
(* one of today, are the answer.                                           *)
ReadTable(r, ok) ==
  LET rows == IF ok THEN Newest(Limit[r] + Slack, table) ELSE NoBars
      hit  == Enough(r, rows) /\ UpToDate(rows)
  IN  /\ reader[r].pc = "away"
      /\ Miss(ok)
      /\ reader' = [reader EXCEPT ![r] = IF hit THEN Away ELSE [Away EXCEPT !.pc = "fetch", !.db = rows]]
      /\ series' = IF hit THEN [series EXCEPT ![r] = Newest(Limit[r], rows)] ELSE series
      /\ UNCHANGED <<day, session, table, latest, torn>>

(* Deep history if the table is short, else the last TopUp bars.           *)
FetchHistory(r, bars) ==
  LET n  == IF Enough(r, reader[r].db) THEN TopUp ELSE Limit[r]
      ok == bars = Newest(n, Shown)
  IN  /\ reader[r].pc = "fetch"
      /\ bars \in Pieces(n)
      /\ Miss(ok)
      /\ IF DOMAIN bars # {}
         THEN /\ reader' = [reader EXCEPT ![r].pc = "upsert", ![r].fresh = bars, ![r].cut = ~ok]
              /\ UNCHANGED series
         ELSE /\ reader' = [reader EXCEPT ![r] = Away]
              /\ series' = [series EXCEPT ![r] = Newest(Limit[r], reader[r].db)]
      /\ UNCHANGED <<day, session, table, latest, torn>>

(* One transaction; an error is logged, the bars are returned all the same.*)
UpsertBars(r, ok) ==
  LET bars  == reader[r].fresh
      apart == latest # 0 /\ Min(DOMAIN bars) > latest
  IN  /\ reader[r].pc = "upsert"
      /\ Miss(ok)
      /\ table' = IF ok THEN MergeBars(table, bars) ELSE table
      /\ latest' = IF ok /\ Max(DOMAIN bars) > latest THEN Max(DOMAIN bars) ELSE latest
      /\ torn' = (torn \/ (ok /\ (apart \/ reader[r].cut)))
      /\ reader' = [reader EXCEPT ![r] = Away]
      /\ series' = [series EXCEPT ![r] = Newest(Limit[r], MergeBars(reader[r].db, bars))]
      /\ UNCHANGED <<day, session>>

(* The clock.  Requests time out after 20 s: a reading may go on over the  *)
(* close or over midnight, not over hours.                                 *)
NextDay ==
  /\ session = "closed" /\ day < LastDay
  /\ \A r \in Readers : \A d \in DOMAIN reader[r].fresh : reader[r].fresh[d] = "final"
  /\ day' = day + 1 /\ session' = "before"
  /\ UNCHANGED <<table, reader, series, misses, latest, torn>>

Trade ==
  /\ session # "closed"
  /\ session = "before" => \A r \in Readers : reader[r] = Away
  /\ session' = IF session = "before" /\ day \in TradingDays THEN "open" ELSE "closed"
  /\ UNCHANGED <<day, table, reader, series, misses, latest, torn>>

BarNext ==
  \/ \E r \in Readers : \/ \E ok \in BOOLEAN : ReadTable(r, ok) \/ UpsertBars(r, ok)
                        \/ \E n \in {TopUp, Limit[r]} : \E bars \in Pieces(n) : FetchHistory(r, bars)
  \/ NextDay \/ Trade

BarSpec == BarInit /\ [][BarNext]_barVars

-----------------------------------------------------------------------------
(* Properties.                                                             *)

(* Trading days that have begun since the newest of the bars.              *)
Behind(bars) == Cardinality({e \in DOMAIN Shown : e > Max(DOMAIN bars)})

(* The TopUp - 1 trading days before the newest of the bars are there and  *)
(* final.  The newest itself stays as it was first seen that day.          *)
RecentFinal(bars) ==
  LET last == Max(DOMAIN bars)
  IN  DOMAIN bars # {} /\ Behind(bars) < Chunk =>
        \A d \in LastDays(TopUp - 1, {e \in TradingDays : e < last}) :
          d \in DOMAIN bars /\ bars[d] = "final"

(* "Fyers ... is hit ONLY to populate missing history or append the latest *)
(* day" (candles.py:5), yet what a day left behind as partial is replaced: *)
(* whatever requests failed and readers overlapped, the recent days of the *)
(* table and of every series that was returned are complete -- unless the  *)
(* newest Chunk days are missing, when the last there is may come from the *)
(* oldest piece of a window, which is a short one.  If no write ever left  *)
(* a gap, all days of the table are complete.                              *)
BarsSound ==
  /\ RecentFinal(table)
  /\ \A r \in Readers : RecentFinal(series[r])
  /\ ~torn => \A d, e \in DOMAIN table :
                d < e => /\ table[d] = "final"
                         /\ {f \in TradingDays : d < f /\ f < e} \subseteq DOMAIN table
=============================================================================
