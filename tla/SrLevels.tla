------------------------------ MODULE SrLevels ------------------------------
(***************************************************************************)
(* Support and resistance zones of one symbol: how they are found in its   *)
(* daily bars (historical_sr.py) and how bootstrap_daily_ohlcv, at startup *)
(* and every Sunday, stores them in historical_sr_levels, in Redis and in  *)
(* the cache that the scans read (jobs.py).  BarCache is about the bars    *)
(* themselves, in daily_ohlcv.                                             *)
(*                                                                         *)
(* A daily bar is [high, low]; day i is its date.  A zone's level is the   *)
(* sum of its touches over their number (strength), and is kept so;        *)
(* percentages are compared by cross-multiplication.  The score's bonuses  *)
(* for age and for round numbers are left out: every zone is kept, as      *)
(* top_n does for few.                                                     *)
(***************************************************************************)
EXTENDS Integers, Sequences, FiniteSets, FiniteSetsExt

CONSTANTS
  DayBars,    \* daily bars that may come
  MaxDays,    \* bound
  Window,     \* swing_window
  Tolerance,  \* cluster_tolerance_pct, in thousandths
  Strength,   \* min_strength
  MaxLosses   \* bound: failed posts, failed Redis calls, restarts

ASSUME SrAssumption ==
  /\ MaxDays \in Nat /\ MaxLosses \in Nat /\ Strength \in Nat
  /\ Window \in Nat \ {0} /\ Tolerance \in Nat
  /\ DayBars \subseteq [high : Nat \ {0}, low : Nat \ {0}]

-----------------------------------------------------------------------------
(* The algorithm.                                                          *)

(* _find_swings: the only extreme of the Window days on either side.       *)
SwingsOf(bars, kind) ==
  LET price(i)    == IF kind = "HIGH" THEN bars[i].high ELSE bars[i].low
      beats(i, j) == IF kind = "HIGH" THEN price(i) > price(j) ELSE price(i) < price(j)
  IN  {[price |-> price(i), day |-> i, kind |-> kind] :
         i \in {k \in (Window + 1)..(Len(bars) - Window) :
                  \A j \in (k - Window)..(k + Window) : j # k => beats(k, j)}}

Swings(bars) == SwingsOf(bars, "HIGH") \cup SwingsOf(bars, "LOW")

(* |price - mid| / mid <= Tolerance, mid the level of the zone so far.     *)
Near(t, zone) ==
  LET gap == t.price * zone.strength - zone.sum
  IN  (IF gap < 0 THEN -gap ELSE gap) * 100000 <= Tolerance * zone.sum

(* _cluster: by price; a touch joins the last zone or starts one.          *)
Cheaper(s, t) ==
  \/ s.price < t.price
  \/ s.price = t.price /\ s.kind = "HIGH" /\ t.kind = "LOW"
  \/ s.price = t.price /\ s.kind = t.kind /\ s.day < t.day
Cheapest(touches) == CHOOSE t \in touches : \A s \in touches \ {t} : Cheaper(t, s)

HighOf(t) == IF t.kind = "HIGH" THEN 1 ELSE 0
Start(t) ==
  [sum |-> t.price, strength |-> 1, highs |-> HighOf(t), first |-> t.day, last |-> t.day]
Widen(z, t) ==
  [sum |-> z.sum + t.price, strength |-> z.strength + 1, highs |-> z.highs + HighOf(t),
   first |-> Min({z.first, t.day}), last |-> Max({z.last, t.day})]
AddTouch(t, zones) ==
  IF zones # <<>> /\ Near(t, zones[Len(zones)])
  THEN [zones EXCEPT ![Len(zones)] = Widen(@, t)] ELSE Append(zones, Start(t))

(* so: the touches left, and the zones of the others.                      *)
TakeNext(so) ==
  LET t == Cheapest(so.left)
  IN  [left |-> so.left \ {t}, zones |-> AddTouch(t, so.zones)]
Clusters(swings) ==
  LET n == Cardinality(swings)
      walk[k \in 0..n] == IF k = 0 THEN [left |-> swings, zones |-> <<>>] ELSE TakeNext(walk[k - 1])
  IN  walk[n].zones

TypeOfZone(z) ==
  IF z.highs * 100 >= 65 * z.strength THEN "RESISTANCE"
  ELSE IF z.highs * 100 <= 35 * z.strength THEN "SUPPORT" ELSE "BOTH"

Level(z) ==
  [sum |-> z.sum, strength |-> z.strength, type |-> TypeOfZone(z), first |-> z.first, last |-> z.last]

(* compute_sr_levels.                                                      *)
Zones(bars) ==
  IF Len(bars) < 2 * Window + 1 THEN {}
  ELSE LET all == Clusters(Swings(bars))
       IN  {Level(all[i]) : i \in {j \in DOMAIN all : all[j].strength >= Strength}}

(* nearest_sr_levels, with one on each side.                               *)
AboveOf(zones, price) ==
  {z \in zones : z.sum > price * z.strength
                  /\ \A y \in zones : y.sum > price * y.strength => z.sum * y.strength <= y.sum * z.strength}
BelowOf(zones, price) ==
  {z \in zones : z.sum <= price * z.strength
                  /\ \A y \in zones : y.sum <= price * y.strength => z.sum * y.strength >= y.sum * z.strength}

-----------------------------------------------------------------------------
VARIABLES
  daily,     \* the daily bars Fyers has
  srJob,     \* where bootstrap_daily_ohlcv is, and the bars it has fetched
  srTable,   \* historical_sr_levels
  redisSr,   \* sr:levels:{symbol}, or Missing
  cacheSr,   \* _sr_cache
  losses

srVars  == <<daily, srJob, srTable, redisSr, cacheSr, losses>>
Missing == {[strength |-> 0]}
NoJob   == [pc |-> "idle", bars |-> <<>>]

SrInit ==
  /\ daily = <<>> /\ srJob = NoJob
  /\ srTable = {} /\ redisSr = Missing /\ cacheSr = {} /\ losses = 0

NewDay(b) ==
  /\ Len(daily) < MaxDays
  /\ daily' = Append(daily, b)
  /\ UNCHANGED <<srJob, srTable, redisSr, cacheSr, losses>>

Lose == losses < MaxLosses /\ losses' = losses + 1
Fine(ok) == IF ok THEN UNCHANGED losses ELSE Lose

(* Fyers is asked, and the zones are computed.  Without bars or without    *)
(* zones nothing is replaced.                                              *)
StartSr ==
  /\ srJob.pc = "idle"
  /\ srJob' = [pc |-> IF Zones(daily) = {} THEN "idle" ELSE "table", bars |-> daily]
  /\ UNCHANGED <<daily, srTable, redisSr, cacheSr, losses>>

(* POST sr-levels: one transaction; a failure is only logged.              *)
ReplaceTable(ok) ==
  /\ srJob.pc = "table"
  /\ srTable' = IF ok THEN Zones(srJob.bars) ELSE srTable
  /\ srJob' = [srJob EXCEPT !.pc = "redis"]
  /\ Fine(ok)
  /\ UNCHANGED <<daily, redisSr, cacheSr>>

(* setex, then the cache; an exception from Redis ends the job.            *)
ReplaceAdding(ok) ==
  /\ srJob.pc = "redis"
  /\ redisSr' = IF ok THEN Zones(srJob.bars) ELSE redisSr
  /\ cacheSr' = IF ok THEN Zones(srJob.bars) \cup cacheSr ELSE cacheSr
  /\ srJob' = NoJob
  /\ Fine(ok)
  /\ UNCHANGED <<daily, srTable>>

ReplaceCache(ok) ==
  /\ srJob.pc = "redis"
  /\ redisSr' = IF ok THEN Zones(srJob.bars) ELSE redisSr
  /\ cacheSr' = IF ok THEN Zones(srJob.bars) ELSE cacheSr
  /\ srJob' = NoJob
  /\ Fine(ok)
  /\ UNCHANGED <<daily, srTable>>

(* _load_sr_cache: from Redis, or else from the table.                   *)
LoadSr ==
  /\ srJob.pc = "idle"
  /\ cacheSr' = IF redisSr # Missing THEN redisSr ELSE IF srTable # {} THEN srTable ELSE cacheSr
  /\ redisSr' = IF redisSr = Missing /\ srTable # {} THEN srTable ELSE redisSr
  /\ UNCHANGED <<daily, srJob, srTable, losses>>

(* The key lives for a day.                                                *)
ExpireSr ==
  /\ redisSr # Missing
  /\ redisSr' = Missing
  /\ UNCHANGED <<daily, srJob, srTable, cacheSr, losses>>

RestartSr ==
  /\ Lose
  /\ srJob' = NoJob /\ cacheSr' = {}
  /\ UNCHANGED <<daily, srTable, redisSr>>

SrNext ==
  \/ \E b \in DayBars : NewDay(b)
  \/ StartSr \/ LoadSr \/ ExpireSr \/ RestartSr
  \/ \E ok \in BOOLEAN : ReplaceTable(ok) \/ ReplaceCache(ok)

SrSpec == SrInit /\ [][SrNext]_srVars

-----------------------------------------------------------------------------
(* Properties.                                                             *)

Fetched == {SubSeq(daily, 1, n) : n \in 0..Len(daily)}

(* Whatever failed or expired, the zones that the scans read are those of  *)
(* one fetch of bars, and they are apart: no two have the same level, or   *)
(* one touch in common, and at most one is nearest to a price on either    *)
(* side ("Simpler than a NOT IN tuple": the table is replaced as a whole,  *)
(* sr_levels.py:97).                                                       *)
ZonesApart ==
  /\ \E bars \in Fetched : cacheSr = Zones(bars)
  /\ srTable = {} \/ \E bars \in Fetched : srTable = Zones(bars)
  /\ \A y, z \in cacheSr : y # z => y.sum * z.strength # z.sum * y.strength
  /\ \A price \in {b.high : b \in DayBars} :
       Cardinality(AboveOf(cacheSr, price)) <= 1 /\ Cardinality(BelowOf(cacheSr, price)) <= 1
=============================================================================
