---------------------------- MODULE MarketProofs ----------------------------
(***************************************************************************)
(* Proofs about the three components of core-engine that bring prices and  *)
(* levels to the scans.                                                    *)
(*                                                                         *)
(* CandleLog, for any session, any number of overlapping scans, backfills  *)
(* and faults: its types, and what market_candles holds below the mark.    *)
(* MarketScan, for any bars of today and of the days before: that the      *)
(* snapshot and its opening range are exact.                               *)
(*                                                                         *)
(* TickTable, for any symbols and any number of minutes, ticks and failed  *)
(* writes.  Invariants, inductive together:                                *)
(*                                                                         *)
(*   Types      what the tables, the two threads and Redis hold            *)
(*   WakeInv    what is in the tables is on the consumer's list, or a      *)
(*              wake-up is still to come                                   *)
(*   BarInv     which ticks a bar holds, in the tables and in last_bar     *)
(*   ShownInv   the newest tick is in _latest, or shown, or dropped        *)
(*                                                                         *)
(* SrLevels, for any daily bars, window and tolerance: Apart is the        *)
(* invariant of the clustering, SrInv that of the copies of its result.    *)
(***************************************************************************)
EXTENDS MarketScan, TickTable, SrLevels, FiniteSetTheorems, SequenceTheorems, TLAPS

-----------------------------------------------------------------------------
(* Rows and requests.                                                      *)

(* The newest bar a fetch shows is one of the session, not after its       *)
(* minute.                                                                 *)
LEMMA NewestIn ==
  ASSUME NEW m \in First..(Last + 1)
  PROVE  Newest(m) \in Minutes /\ Newest(m) <= m
BY CandleAssumption DEF Newest, Minutes

LEMMA RowIn ==
  ASSUME NEW m \in Int, NEW t \in Minutes
  PROVE  /\ Row(m, t) \in RowSet /\ Row(m, t).min = t
         /\ Row(m, t).ver = "final" <=> t # m
BY DEF Row, RowSet, Shows

(* Rows(m, a, b) is one row for each minute from a to b.                   *)
LEMMA RowsIn ==
  ASSUME NEW m \in Int, NEW a \in Minutes, NEW b \in Minutes
  PROVE  /\ Rows(m, a, b) \in Requests
         /\ DOMAIN Rows(m, a, b) = 1..(b - a + 1)
         /\ \A i \in DOMAIN Rows(m, a, b) :
              /\ a + i - 1 \in a..b /\ Rows(m, a, b)[i] \in RowSet
              /\ Rows(m, a, b)[i].min = a + i - 1
              /\ Rows(m, a, b)[i].ver = "final" <=> a + i - 1 # m
         /\ a <= b => Rows(m, a, b) # <<>>
<1>1. a \in Int /\ b \in Int /\ Minutes \subseteq Int
  BY CandleAssumption DEF Minutes
<1>2. \A i \in 1..(b - a + 1) : a + i - 1 \in a..b /\ a + i - 1 \in Minutes
  BY <1>1, CandleAssumption DEF Minutes
<1>3. \A i \in 1..(b - a + 1) :
        /\ Row(m, a + i - 1) \in RowSet
        /\ Row(m, a + i - 1).min = a + i - 1
        /\ Row(m, a + i - 1).ver = "final" <=> a + i - 1 # m
  BY <1>2, RowIn
<1>4. Rows(m, a, b) = [i \in 1..(b - a + 1) |-> Row(m, a + i - 1)]
  BY DEF Rows
<1>5. DOMAIN Rows(m, a, b) = 1..(b - a + 1)
  BY <1>4
<1>6. Rows(m, a, b) \in Requests
  <2>1. CASE b - a + 1 \in Nat
    <3>1. Rows(m, a, b) \in [1..(b - a + 1) -> RowSet]
      BY <1>3, <1>4
    <3> QED
      BY <3>1, <2>1, SeqDef DEF Requests
  <2>2. CASE b - a + 1 \notin Nat
    <3>1. 1..(b - a + 1) = 1..0
      BY <2>2, <1>1
    <3>2. Rows(m, a, b) \in [1..0 -> RowSet]
      BY <3>1, <1>3, <1>4
    <3> QED
      BY <3>2, SeqDef DEF Requests
  <2> QED
    BY <2>1, <2>2
<1>7. a <= b => 1 \in DOMAIN Rows(m, a, b)
  BY <1>1, <1>5
<1>8. ASSUME NEW i \in DOMAIN Rows(m, a, b)
      PROVE  /\ a + i - 1 \in a..b /\ Rows(m, a, b)[i] \in RowSet
             /\ Rows(m, a, b)[i].min = a + i - 1
             /\ Rows(m, a, b)[i].ver = "final" <=> a + i - 1 # m
  <2>1. i \in 1..(b - a + 1) /\ Rows(m, a, b)[i] = Row(m, a + i - 1)
    BY <1>4, <1>5
  <2> QED
    BY <2>1, <1>2, <1>3
<1>9. a <= b => Rows(m, a, b) # <<>>
  BY <1>7
<1> QED
  BY <1>5, <1>6, <1>8, <1>9

LEMMA LatestRowIn ==
  ASSUME NEW m \in First..(Last + 1)
  PROVE  /\ LatestRow(m) \in Requests /\ LatestRow(m) # <<>>
         /\ DOMAIN LatestRow(m) = {1} /\ LatestRow(m)[1] \in RowSet
         /\ LatestRow(m)[1].min = Newest(m)
         /\ LatestRow(m)[1].ver = "final" <=> Newest(m) # m
<1>1. m \in Int /\ Newest(m) \in Minutes
  BY NewestIn, CandleAssumption
<1>3. \A r \in RowSet : <<r>> \in Seq(RowSet)
  <2> TAKE r \in RowSet
  <2>1. <<r>> \in [1..1 -> RowSet]
    OBVIOUS
  <2> QED
    BY <2>1, SeqDef
<1>2. /\ Row(m, Newest(m)) \in RowSet /\ Row(m, Newest(m)).min = Newest(m)
      /\ Row(m, Newest(m)).ver = "final" <=> Newest(m) # m
  BY <1>1, RowIn
<1> QED
  <2>1. LatestRow(m) = <<Row(m, Newest(m))>>
    BY DEF LatestRow
  <2>2. LatestRow(m) \in Requests
    BY <2>1, <1>2, <1>3 DEF Requests
  <2>3. LatestRow(m) # <<>> /\ DOMAIN LatestRow(m) = {1} /\ LatestRow(m)[1] = Row(m, Newest(m))
    BY <2>1
  <2> QED
    BY <2>2, <2>3, <1>2

LEMMA RequestParts ==
  ASSUME NEW q \in Requests, q # <<>>
  PROVE  /\ Head(q) \in RowSet /\ Tail(q) \in Requests
         /\ Len(q) # 1 => Tail(q) # <<>>
         /\ \A i \in DOMAIN Tail(q) : i + 1 \in DOMAIN q /\ Tail(q)[i] = q[i + 1]
         /\ 1 \in DOMAIN q /\ Head(q) = q[1]
         /\ \A i \in DOMAIN q : q[i] \in RowSet /\ (i = 1 \/ (i - 1 \in DOMAIN Tail(q) /\ q[i] = Tail(q)[i - 1]))
         /\ Len(q) = 1 => DOMAIN q = {1}
<1>1. /\ Head(q) \in RowSet /\ Tail(q) \in Seq(RowSet) /\ Len(Tail(q)) = Len(q) - 1
      /\ \A i \in 1..Len(Tail(q)) : Tail(q)[i] = q[i + 1]
  BY HeadTailProperties DEF Requests
<1>2. Len(q) \in Nat \ {0} /\ DOMAIN q = 1..Len(q) /\ q \in [1..Len(q) -> RowSet]
  BY EmptySeq, LenProperties DEF Requests
<1>3. DOMAIN Tail(q) = 1..(Len(q) - 1)
  BY <1>1, LenProperties
<1>4. Head(q) = q[1]
  BY DEF Requests
<1>5. Len(q) # 1 => 1 \in DOMAIN Tail(q)
  BY <1>2, <1>3
<1>6. \A i \in DOMAIN Tail(q) : i + 1 \in DOMAIN q /\ Tail(q)[i] = q[i + 1]
  BY <1>1, <1>2, <1>3
<1>7. ASSUME NEW i \in DOMAIN q, i # 1 PROVE i - 1 \in DOMAIN Tail(q) /\ q[i] = Tail(q)[i - 1]
  <2>1. i - 1 \in DOMAIN Tail(q) /\ i - 1 \in 1..Len(Tail(q)) /\ (i - 1) + 1 = i
    BY <1>1, <1>2, <1>3, <1>7
  <2> QED
    BY <2>1, <1>1
<1> QED
  BY <1>1, <1>2, <1>4, <1>5, <1>6, <1>7 DEF Requests

-----------------------------------------------------------------------------
(* Types.                                                                  *)

(* Between its steps a scan has the bars of an earlier minute, and a       *)
(* request on its way exactly when it waits for one.                       *)
InStep ==
  \A s \in Scans :
    /\ scan[s].pc # "idle" => scan[s].asOf \in First..now
    /\ scan[s].pc \in {"batch", "latest"} <=> flight[s] # <<>>

Typed == TypeOK /\ InStep

LEMMA InitTyped == Init => Typed
<1> SUFFICES ASSUME Init PROVE Typed
  OBVIOUS
<1>1. Idle \in Places /\ Idle.pc = "idle"
  BY CandleAssumption DEF Idle, Places, Never
<1>2. \A c \in Clients : flight[c] = <<>>
  BY DEF Init
<1>3. flight \in [Clients -> Requests]
  <2>1. <<>> \in Requests
    BY EmptySeq DEF Requests
  <2> QED
    BY <2>1 DEF Init
<1>4. TypeOK
  BY <1>1, <1>3, CandleAssumption DEF Init, TypeOK, Never, Minutes
<1>5. InStep
  BY <1>1, <1>2 DEF Init, InStep, Clients
<1> QED
  BY <1>4, <1>5 DEF Typed

(* A commit keeps the table's type.                                        *)
LEMMA UpsertTyped ==
  ASSUME TypeOK, NEW r \in RowSet, Upsert(r)
  PROVE  /\ store' \in [Minutes -> {"none", "partial", "final"}]
         /\ hurt' \subseteq Minutes
BY DEF TypeOK, Upsert, RowSet

(* What follows a request keeps the types and the scans in step.           *)
LEMMA OnwardTyped ==
  ASSUME Typed, NEW c \in Clients, Onward(c), flight[c] # <<>>, now' = now
  PROVE  /\ scan' \in [Scans -> Places] /\ flight' \in [Clients -> Requests]
         /\ InStep'
<1>0. scan \in [Scans -> Places] /\ flight \in [Clients -> Requests] /\ now \in First..(Last + 1)
  BY DEF Typed, TypeOK
<1>1. CASE c \in Scans /\ scan[c].pc = "batch"
  <2> DEFINE row == LatestRow(scan[c].asOf)
  <2>1. scan[c].asOf \in First..now /\ scan[c].asOf \in First..(Last + 1)
    BY <1>0, <1>1, CandleAssumption DEF Typed, InStep
  <2>2. row \in Requests /\ row # <<>>
    BY <2>1, LatestRowIn
  <2>3. scan' = [scan EXCEPT ![c].pc = "latest"] /\ flight' = [flight EXCEPT ![c] = row]
    BY <1>1 DEF Onward
  <2> HIDE DEF row
  <2>4. scan' \in [Scans -> Places] /\ flight' \in [Clients -> Requests]
    BY <1>0, <2>2, <2>3 DEF Places
  <2>5. ASSUME NEW s \in Scans
        PROVE  /\ scan'[s].pc # "idle" => scan'[s].asOf \in First..now
               /\ scan'[s].pc \in {"batch", "latest"} <=> flight'[s] # <<>>
    <3>1. CASE s = c
      BY <1>0, <1>1, <2>1, <2>2, <2>3, <3>1 DEF Places, Clients
    <3>2. CASE s # c
      <4>1. scan'[s] = scan[s] /\ flight'[s] = flight[s]
        BY <1>0, <2>3, <3>2 DEF Clients
      <4> QED
        BY <4>1 DEF Typed, InStep
    <3> QED
      BY <3>1, <3>2
  <2> QED
    BY <2>4, <2>5 DEF InStep
<1>2. CASE ~(c \in Scans /\ scan[c].pc = "batch")
  <2>1. /\ scan' = IF c \in Scans THEN [scan EXCEPT ![c].pc = "mark"] ELSE scan
        /\ flight' = [flight EXCEPT ![c] = <<>>]
    BY <1>2 DEF Onward
  <2>2. scan' \in [Scans -> Places] /\ flight' \in [Clients -> Requests]
    <3>1. <<>> \in Requests
      BY EmptySeq DEF Requests
    <3> QED
      BY <1>0, <2>1, <3>1 DEF Places
  <2>3. ASSUME NEW s \in Scans
        PROVE  /\ scan'[s].pc # "idle" => scan'[s].asOf \in First..now
               /\ scan'[s].pc \in {"batch", "latest"} <=> flight'[s] # <<>>
    <3>1. CASE s = c
      <4>1. scan[s].pc \in {"batch", "latest"} /\ scan[s].asOf \in First..now
        BY <3>1 DEF Typed, InStep
      <4> QED
        BY <1>0, <2>1, <3>1, <4>1 DEF Places, Clients
    <3>2. CASE s # c
      <4>1. scan'[s] = scan[s] /\ flight'[s] = flight[s]
        BY <1>0, <2>1, <3>2 DEF Clients
      <4> QED
        BY <4>1 DEF Typed, InStep
    <3> QED
      BY <3>1, <3>2
  <2> QED
    BY <2>2, <2>3 DEF InStep
<1> QED
  BY <1>1, <1>2

(* One scan moves on without a request before or after: the others stay in *)
(* step.                                                                   *)
LEMMA ScanMoves ==
  ASSUME Typed, NEW s \in Scans, NEW place \in Places,
         scan' = [scan EXCEPT ![s] = place], UNCHANGED <<flight, now>>, flight[s] = <<>>,
         place.pc \notin {"batch", "latest"}, place.pc # "idle" => place.asOf \in First..now
  PROVE  scan' \in [Scans -> Places] /\ InStep'
<1>1. scan \in [Scans -> Places]
  BY DEF Typed, TypeOK
<1>2. scan' \in [Scans -> Places] /\ scan'[s] = place
  BY <1>1
<1>3. \A z \in Scans : z # s => scan'[z] = scan[z]
  BY <1>1
<1> QED
  BY <1>2, <1>3 DEF Typed, InStep

LEMMA NextTyped == Typed /\ [Next]_vars => Typed'
<1> SUFFICES ASSUME Typed, [Next]_vars PROVE Typed'
  OBVIOUS
<1>0. /\ now \in First..(Last + 1) /\ scan \in [Scans -> Places]
      /\ flight \in [Clients -> Requests] /\ TypeOK /\ InStep
  BY DEF Typed, TypeOK
<1>1. ASSUME NEW s \in Scans, NEW ok \in BOOLEAN, Fetch(s, ok) PROVE Typed'
  <2> DEFINE place == [pc |-> "read", asOf |-> now, blind |-> FALSE]
  <2>1. flight[s] = <<>> /\ cache' \in [at : Never..(Last + 1), ok : BOOLEAN]
    <3>1. cache'.ok \in BOOLEAN /\ cache' = [at |-> now, ok |-> cache'.ok]
      BY <1>1, <1>0 DEF Fetch, TypeOK
    <3>2. now \in Never..(Last + 1)
      BY <1>0, CandleAssumption DEF Never
    <3> QED
      BY <1>0, <1>1, <3>1, <3>2 DEF Fetch, InStep, Idle
  <2>2. CASE UNCHANGED scan
    BY <1>0, <1>1, <2>1, <2>2 DEF Fetch, Typed, TypeOK, InStep, marks, db
  <2>3. CASE scan' = [scan EXCEPT ![s] = place]
    <3>1. place \in Places /\ place.pc \notin {"idle", "batch", "latest"} /\ place.asOf \in First..now
      BY <1>0, CandleAssumption DEF Places, Never
    <3> HIDE DEF place
    <3>2. scan' \in [Scans -> Places] /\ InStep'
      BY <1>1, <2>1, <2>3, <3>1, ScanMoves DEF Fetch
    <3> QED
      BY <1>0, <1>1, <2>1, <3>2 DEF Fetch, Typed, TypeOK, marks, db
  <2> QED
    BY <1>1, <2>2, <2>3 DEF Fetch
<1>2. ASSUME NEW s \in Scans, ReadMark(s) PROVE Typed'
  <2> DEFINE m == scan[s].asOf
             start == IF lastTs = Never THEN Newest(m) ELSE SelectFrom(lastTs)
             next == IF start < Newest(m) THEN "batch" ELSE IF start = Newest(m) THEN "latest" ELSE "publish"
             rows == CASE next = "batch"   -> Rows(m, start, Newest(m) - 1)
                       [] next = "latest"  -> LatestRow(m)
                       [] next = "publish" -> <<>>
  <2>1. m \in First..now /\ m \in First..(Last + 1)
    BY <1>0, <1>2, CandleAssumption DEF ReadMark, InStep
  <2>2. Newest(m) \in Minutes /\ start \in Minutes
    BY <2>1, <1>0, NewestIn, CandleAssumption DEF TypeOK, Never, Minutes, SelectFrom
  <2>3. /\ scan' = [scan EXCEPT ![s].pc = next, ![s].blind = lastTs = Never]
        /\ flight' = [flight EXCEPT ![s] = rows]
    BY <1>2 DEF ReadMark
  <2>4. rows \in Requests /\ (rows # <<>> <=> next \in {"batch", "latest"})
    <3>1. CASE start < Newest(m)
      <4>1. Newest(m) - 1 \in Minutes /\ start <= Newest(m) - 1
        BY <2>2, <3>1, CandleAssumption DEF Minutes
      <4>2. Rows(m, start, Newest(m) - 1) \in Requests /\ Rows(m, start, Newest(m) - 1) # <<>>
        BY <2>1, <2>2, <4>1, RowsIn, CandleAssumption
      <4> QED
        BY <3>1, <4>2
    <3>2. CASE start = Newest(m)
      <4>1. ~(start < Newest(m))
        BY <2>2, <3>2, CandleAssumption DEF Minutes
      <4>2. LatestRow(m) \in Requests /\ LatestRow(m) # <<>>
        BY <2>1, LatestRowIn
      <4> QED
        BY <3>2, <4>1, <4>2
    <3>3. CASE ~(start < Newest(m)) /\ start # Newest(m)
      <4>1. <<>> \in Requests
        BY EmptySeq DEF Requests
      <4> QED
        BY <3>3, <4>1
    <3> QED
      BY <3>1, <3>2, <3>3
  <2>5. next \in {"batch", "latest", "publish"}
    OBVIOUS
  <2> HIDE DEF rows, next, start, m
  <2>6. scan' \in [Scans -> Places] /\ flight' \in [Clients -> Requests]
    BY <1>0, <2>3, <2>4, <2>5 DEF Places
  <2>7. ASSUME NEW z \in Scans
        PROVE  /\ scan'[z].pc # "idle" => scan'[z].asOf \in First..now
               /\ scan'[z].pc \in {"batch", "latest"} <=> flight'[z] # <<>>
    <3>1. CASE z = s
      <4>1. scan'[s].asOf = m /\ scan'[s].pc = next /\ flight'[s] = rows
        BY <1>0, <2>3 DEF Places, Clients, m
      <4> QED
        BY <2>1, <2>4, <3>1, <4>1
    <3>2. CASE z # s
      <4>1. scan'[z] = scan[z] /\ flight'[z] = flight[z]
        BY <1>0, <2>3, <3>2 DEF Clients
      <4> QED
        BY <1>0, <4>1 DEF InStep
    <3> QED
      BY <3>1, <3>2
  <2>8. InStep'
    BY <1>2, <2>7 DEF InStep, ReadMark
  <2> QED
    BY <1>0, <1>2, <2>6, <2>8 DEF ReadMark, Typed, TypeOK, marks, db
<1>3. ASSUME NEW s \in Scans, Mark(s) PROVE Typed'
  <2> DEFINE place == [scan[s] EXCEPT !.pc = "publish"]
  <2>1. scan[s].asOf \in First..now /\ scan[s].asOf \in First..(Last + 1) /\ flight[s] = <<>>
    BY <1>0, <1>3, CandleAssumption DEF Mark, InStep
  <2>2. lastTs' \in Never..Last /\ from' \in Never..Last
    BY <1>0, <1>3, <2>1, NewestIn, CandleAssumption DEF Mark, TypeOK, Minutes, Never
  <2>3. place \in Places /\ place.pc = "publish" /\ place.asOf = scan[s].asOf
    BY <1>0 DEF Places
  <2>4. scan' = [scan EXCEPT ![s] = place]
    BY <1>0, <1>3 DEF Mark
  <2> HIDE DEF place
  <2>5. scan' \in [Scans -> Places] /\ InStep'
    BY <1>3, <2>1, <2>3, <2>4, ScanMoves DEF Mark
  <2> QED
    BY <1>0, <1>3, <2>2, <2>5 DEF Mark, Typed, TypeOK, db
<1>4. ASSUME NEW s \in Scans, Abort(s) \/ Publish(s) PROVE Typed'
  <2>1. Idle \in Places /\ Idle.pc = "idle"
    BY CandleAssumption DEF Idle, Places, Never
  <2>2. flight[s] = <<>>
    BY <1>0, <1>4 DEF Abort, Publish, InStep
  <2>3. scan' \in [Scans -> Places] /\ InStep'
    BY <1>4, <2>1, <2>2, ScanMoves DEF Abort, Publish
  <2>4. faults' \in 0..MaxFaults
    BY <1>0, <1>4, CandleAssumption DEF Abort, Publish, TypeOK
  <2> QED
    BY <1>0, <1>4, <2>3, <2>4 DEF Abort, Publish, Typed, TypeOK, marks, db
<1>5. CASE StartBackfill
  <2>1. Newest(now) \in Minutes /\ First \in Minutes
    BY <1>0, NewestIn, CandleAssumption DEF Minutes
  <2>2. Rows(now, First, Newest(now)) \in Requests
    <3>1. now \in Int
      BY <1>0, CandleAssumption
    <3> QED BY <2>1, <3>1, RowsIn
  <2>3. flight' = [flight EXCEPT ![Backfill] = Rows(now, First, Newest(now))]
    BY <1>5 DEF StartBackfill
  <2>4. flight' \in [Clients -> Requests] /\ \A s \in Scans : flight'[s] = flight[s]
    BY <1>0, <2>2, <2>3, CandleAssumption DEF Clients
  <2>5. fills' \in 0..MaxBackfills
    BY <1>0, <1>5, CandleAssumption DEF StartBackfill, TypeOK
  <2> QED
    BY <1>0, <1>5, <2>4, <2>5 DEF StartBackfill, Typed, TypeOK, InStep, marks, db
<1>6. ASSUME NEW c \in Clients, Serve(c) PROVE Typed'
  <2>1. /\ Head(flight[c]) \in RowSet /\ Tail(flight[c]) \in Requests
        /\ Len(flight[c]) # 1 => Tail(flight[c]) # <<>>
    BY <1>0, <1>6, RequestParts DEF Serve
  <2>2. /\ store' \in [Minutes -> {"none", "partial", "final"}]
        /\ hurt' \subseteq Minutes
    BY <1>0, <1>6, <2>1, UpsertTyped DEF Serve
  <2>3. scan' \in [Scans -> Places] /\ flight' \in [Clients -> Requests] /\ InStep'
    <3>1. CASE Len(flight[c]) = 1
      BY <1>6, <3>1, OnwardTyped DEF Serve
    <3>2. CASE Len(flight[c]) # 1
      <4>1. flight' = [flight EXCEPT ![c] = Tail(flight[c])] /\ scan' = scan /\ now' = now
        BY <1>6, <3>2 DEF Serve
      <4>2. \A s \in Scans : flight'[s] # <<>> <=> flight[s] # <<>>
        BY <1>0, <1>6, <2>1, <3>2, <4>1 DEF Serve, Clients
      <4> QED
        BY <1>0, <2>1, <4>1, <4>2 DEF InStep
    <3> QED
      BY <3>1, <3>2
  <2> QED
    BY <1>0, <1>6, <2>2, <2>3 DEF Serve, Typed, TypeOK, marks
<1>7. ASSUME NEW c \in Clients, NEW lost \in BOOLEAN, GiveUp(c, lost) PROVE Typed'
  <2>1. scan' \in [Scans -> Places] /\ flight' \in [Clients -> Requests] /\ InStep'
    BY <1>7, OnwardTyped DEF GiveUp
  <2>2. hurt' \subseteq Minutes
    <3>1. \A i \in DOMAIN flight[c] : flight[c][i] \in RowSet
      BY <1>0, <1>7, RequestParts DEF GiveUp
    <3> QED
      BY <1>0, <1>7, <3>1 DEF GiveUp, MinutesOf, RowSet, TypeOK
  <2>3. late' \subseteq Requests \ {<<>>} /\ faults' \in 0..MaxFaults
    BY <1>0, <1>7, CandleAssumption DEF GiveUp, TypeOK
  <2> QED
    BY <1>0, <1>7, <2>1, <2>2, <2>3 DEF GiveUp, Typed, TypeOK, marks
<1>8. ASSUME NEW q \in late, ServeLate(q) PROVE Typed'
  <2>1. q \in Requests /\ q # <<>>
    BY <1>0 DEF TypeOK
  <2>2. Head(q) \in RowSet /\ Tail(q) \in Requests /\ (Len(q) # 1 => Tail(q) # <<>>)
    BY <2>1, RequestParts
  <2>3. /\ store' \in [Minutes -> {"none", "partial", "final"}]
        /\ hurt' \subseteq Minutes
    BY <1>0, <1>8, <2>2, UpsertTyped DEF ServeLate
  <2>4. late' \subseteq Requests \ {<<>>}
    BY <1>0, <1>8, <2>2 DEF ServeLate, TypeOK
  <2> QED
    BY <1>0, <1>8, <2>3, <2>4 DEF ServeLate, Typed, TypeOK, InStep, marks
<1>9. CASE Crash
  <2>1. Idle \in Places /\ Idle.pc = "idle" /\ <<>> \in Requests
    BY EmptySeq, CandleAssumption DEF Idle, Places, Never, Requests
  <2>2. scan' \in [Scans -> Places] /\ flight' \in [Clients -> Requests] /\ InStep'
    BY <1>9, <2>1 DEF Crash, InStep, Clients
  <2>3. late' \subseteq Requests \ {<<>>} /\ faults' \in 0..MaxFaults
    BY <1>0, <1>9, CandleAssumption DEF Crash, TypeOK
  <2>4. cache' \in [at : Never..(Last + 1), ok : BOOLEAN]
    BY <1>9, CandleAssumption DEF Crash, Never
  <2> QED
    BY <1>0, <1>9, <2>2, <2>3, <2>4 DEF Crash, Typed, TypeOK, marks, db
<1>10. CASE NextMinute
  <2>1. now' \in First..(Last + 1) /\ First..now \subseteq First..now'
    BY <1>0, <1>10, CandleAssumption DEF NextMinute
  <2> QED
    BY <1>0, <1>10, <2>1 DEF NextMinute, Typed, TypeOK, InStep, marks, db
<1>11. CASE UNCHANGED vars
  BY <1>0, <1>11 DEF vars, marks, db, Typed, TypeOK, InStep
<1> QED
  BY <1>1, <1>2, <1>3, <1>4, <1>5, <1>6, <1>7, <1>8, <1>9, <1>10, <1>11 DEF Next, Log

(* Every variable keeps its type: no scan, backfill or late request        *)
(* commits a row of a minute outside the session, and no scan marks one    *)
(* (jobs.py:303-345).                                                      *)
THEOREM TypeCorrect == Spec => []TypeOK
<1>1. Typed => TypeOK
  BY DEF Typed
<1> QED
  BY InitTyped, NextTyped, <1>1, PTL DEF Spec

-----------------------------------------------------------------------------
(* The table and the mark.                                                 *)

(* The rows that are on their way.                                         *)
RowsOf(q)  == {q[i] : i \in DOMAIN q}
Sent       == (UNION {RowsOf(flight[c]) : c \in Clients}) \cup (UNION {RowsOf(q) : q \in late})

(* A final bar is of a minute that is over; no row is of a later one.      *)
Punctual(r) == r.min <= now /\ (r.ver = "final" => r.min < now)
InTime ==
  /\ \A r \in Sent : Punctual(r)
  /\ \A m \in Minutes : store[m] = "final" => m < now

(* Below the bar that a scan will mark, every bar is settled, or its final *)
(* row is part of the scan's own request.                                  *)
Settled(m)   == store[m] = "final" \/ m \in hurt
Underway(s, m) == \E r \in RowsOf(flight[s]) : r.min = m /\ r.ver = "final"
Working(s)   == scan[s].pc \in {"batch", "latest", "mark"} /\ ~scan[s].blind
CaughtUp(s)  == \A m \in from..(Newest(scan[s].asOf) - 1) : Settled(m) \/ Underway(s, m)
CatchUp ==
  /\ lastTs # Never => from # Never
  /\ \A s \in Scans : Working(s) => lastTs # Never /\ CaughtUp(s)

IndInv == Typed /\ InTime /\ CatchUp /\ Mirrored

LEMMA InitInd == Init => IndInv
<1> SUFFICES ASSUME Init PROVE IndInv
  OBVIOUS
<1>1. Typed
  BY InitTyped
<1>2. \A c \in Clients : RowsOf(flight[c]) = {}
  BY DEF Init, RowsOf
<1>3. Sent = {}
  BY <1>2 DEF Init, Sent
<1> QED
  BY <1>1, <1>3 DEF Init, IndInv, InTime, CatchUp, Mirrored, Working, Idle

(* A commit settles its bar, or leaves what was settled.                   *)
LEMMA UpsertSettles ==
  ASSUME TypeOK, NEW r \in RowSet, Punctual(r), \A m \in Minutes : store[m] = "final" => m < now,
         Upsert(r)
  PROVE  /\ \A m \in Minutes : Settled(m) => Settled(m)'
         /\ r.ver = "final" => Settled(r.min)'
         /\ \A m \in Minutes : store'[m] = "final" => m < now
<1>1. /\ r.min \in Minutes /\ r.min \in Int /\ r.ver \in {"partial", "final"}
      /\ now \in Int /\ Minutes \subseteq Int
      /\ store \in [Minutes -> {"none", "partial", "final"}]
  BY CandleAssumption DEF TypeOK, RowSet, Minutes
<1>2. /\ store' = [store EXCEPT ![r.min] = r.ver]
      /\ hurt' = IF r.ver = "final" THEN hurt \ {r.min}
                 ELSE IF now > r.min THEN hurt \cup {r.min} ELSE hurt
  BY DEF Upsert
<1>3. store'[r.min] = r.ver /\ \A m \in Minutes : m # r.min => store'[m] = store[m]
  BY <1>1, <1>2
<1>4. CASE r.ver = "final"
  BY <1>1, <1>2, <1>3, <1>4 DEF Settled, Punctual
<1>5. CASE r.ver # "final"
  <2>1. now = r.min => store[r.min] # "final"
    BY <1>1
  <2>2. now > r.min \/ now = r.min
    BY <1>1 DEF Punctual
  <2> QED
    BY <1>1, <1>2, <1>3, <1>5, <2>1, <2>2 DEF Settled
<1> QED
  BY <1>4, <1>5

(* The mark and from, when neither changes and settled bars stay so.       *)
LEMMA MirrorKept ==
  ASSUME Typed, CatchUp, Mirrored, UNCHANGED marks, \A m \in Minutes : Settled(m) => Settled(m)'
  PROVE  Mirrored' /\ (lastTs' # Never => from' # Never)
<1>1. lastTs # Never => from..(lastTs - 1) \subseteq Minutes
  BY CandleAssumption DEF Typed, TypeOK, CatchUp, Minutes, Never
<1> QED
  BY <1>1 DEF Mirrored, Settled, marks, CatchUp

(* Scans that wait as before, or for less because the rest was served,     *)
(* have still caught up.                                                   *)
LEMMA CatchUpKept ==
  ASSUME Typed, CatchUp, Mirrored, UNCHANGED marks,
         \A m \in Minutes : Settled(m) => Settled(m)',
         \A s \in Scans : Working(s)' =>
           /\ Working(s) /\ scan'[s].asOf = scan[s].asOf
           /\ \A m \in Minutes : Underway(s, m) => Underway(s, m)' \/ Settled(m)'
  PROVE  CatchUp' /\ Mirrored'
<1>1. Mirrored' /\ (lastTs' # Never => from' # Never)
  BY MirrorKept
<1>2. ASSUME NEW s \in Scans, Working(s)' PROVE lastTs' # Never /\ CaughtUp(s)'
  <2>1. Working(s) /\ scan'[s].asOf = scan[s].asOf
    BY <1>2
  <2>2. scan[s].asOf \in First..(Last + 1)
    BY <2>1, CandleAssumption DEF Typed, TypeOK, InStep, Working
  <2>3. lastTs # Never /\ CaughtUp(s)
    BY <2>1 DEF CatchUp
  <2>4. from..(Newest(scan[s].asOf) - 1) \subseteq Minutes
    <3>1. Newest(scan[s].asOf) \in Minutes
      BY <2>2, NewestIn
    <3>2. from \in Minutes
      BY <2>3, CandleAssumption DEF Typed, TypeOK, CatchUp, Minutes, Never
    <3> QED
      BY <3>1, <3>2, CandleAssumption DEF Minutes
  <2>5. from' = from /\ lastTs' = lastTs
    BY DEF marks
  <2>6. \A m \in from..(Newest(scan[s].asOf) - 1) : Settled(m)' \/ Underway(s, m)'
    BY <1>2, <2>3, <2>4 DEF CaughtUp
  <2> QED
    BY <2>1, <2>3, <2>5, <2>6 DEF CaughtUp
<1> QED
  BY <1>1, <1>2 DEF CatchUp

(* Rows made of a fetch are in time.                                       *)
LEMMA RowsPunctual ==
  ASSUME Typed, NEW m \in First..now, NEW a \in Minutes, NEW b \in Minutes, b <= Newest(m)
  PROVE  \A r \in RowsOf(Rows(m, a, b)) : Punctual(r)
<1>1. m \in First..(Last + 1) /\ m \in Int /\ now \in Int /\ m <= now
  BY CandleAssumption DEF Typed, TypeOK
<1>2. Newest(m) <= m /\ Newest(m) \in Int /\ a \in Int /\ b \in Int
  BY <1>1, NewestIn, CandleAssumption DEF Minutes
<1>3. ASSUME NEW i \in DOMAIN Rows(m, a, b) PROVE Punctual(Rows(m, a, b)[i])
  <2> DEFINE r == Rows(m, a, b)[i]
  <2>1. /\ i \in Int /\ a + i - 1 \in a..b
        /\ r.min = a + i - 1 /\ (r.ver = "final" <=> a + i - 1 # m)
    BY <1>1, <1>2, <1>3, RowsIn
  <2> HIDE DEF r
  <2>2. r.min <= now /\ (r.ver = "final" => r.min < now)
    BY <1>1, <1>2, <2>1
  <2> QED
    BY <2>2 DEF Punctual, r
<1> QED
  BY <1>3 DEF RowsOf

LEMMA LatestPunctual ==
  ASSUME Typed, NEW m \in First..now
  PROVE  \A r \in RowsOf(LatestRow(m)) : Punctual(r)
<1>1. m \in First..(Last + 1) /\ m \in Int /\ now \in Int /\ m <= now
  BY CandleAssumption DEF Typed, TypeOK
<1>2. Newest(m) <= m /\ Newest(m) \in Int
  BY <1>1, NewestIn, CandleAssumption DEF Minutes
<1>3. /\ DOMAIN LatestRow(m) = {1} /\ LatestRow(m)[1].min = Newest(m)
      /\ LatestRow(m)[1].ver = "final" <=> Newest(m) # m
  BY <1>1, LatestRowIn
<1>4. Punctual(LatestRow(m)[1])
  BY <1>1, <1>2, <1>3 DEF Punctual
<1> QED
  BY <1>3, <1>4 DEF RowsOf

(* What follows a request: each client keeps its rows, has none, or has    *)
(* the row of the newest bar; no other scan is touched.                    *)
LEMMA OnwardEffect ==
  ASSUME Typed, InTime, NEW c \in Clients, flight[c] # <<>>, Onward(c)
  PROVE  /\ \A d \in Clients : \A r \in RowsOf(flight'[d]) : r \in RowsOf(flight[d]) \/ Punctual(r)
         /\ \A s \in Scans : /\ Working(s)' => Working(s) /\ scan'[s].asOf = scan[s].asOf
                             /\ s # c => flight'[s] = flight[s]
<1>0. scan \in [Scans -> Places] /\ flight \in [Clients -> Requests]
  BY DEF Typed, TypeOK
<1>1. CASE c \in Scans /\ scan[c].pc = "batch"
  <2>1. scan[c].asOf \in First..now
    BY <1>1 DEF Typed, InStep
  <2>2. \A r \in RowsOf(LatestRow(scan[c].asOf)) : Punctual(r)
    BY <2>1, LatestPunctual
  <2>3. /\ scan' = [scan EXCEPT ![c].pc = "latest"]
        /\ flight' = [flight EXCEPT ![c] = LatestRow(scan[c].asOf)]
    BY <1>1 DEF Onward
  <2>4. \A d \in Clients : d # c => flight'[d] = flight[d]
    BY <1>0, <2>3
  <2>5. flight'[c] = LatestRow(scan[c].asOf)
    BY <1>0, <2>3
  <2>6. \A s \in Scans : Working(s)' => Working(s) /\ scan'[s].asOf = scan[s].asOf
    BY <1>0, <1>1, <2>3 DEF Working, Places
  <2> QED
    BY <2>2, <2>4, <2>5, <2>6 DEF Clients
<1>2. CASE ~(c \in Scans /\ scan[c].pc = "batch")
  <2>1. /\ scan' = IF c \in Scans THEN [scan EXCEPT ![c].pc = "mark"] ELSE scan
        /\ flight' = [flight EXCEPT ![c] = <<>>]
    BY <1>2 DEF Onward
  <2>2. c \in Scans => scan[c].pc \in {"batch", "latest"}
    BY DEF Typed, InStep
  <2>3. \A d \in Clients : d # c => flight'[d] = flight[d]
    BY <1>0, <2>1
  <2>4. RowsOf(flight'[c]) = {}
    BY <1>0, <2>1 DEF RowsOf
  <2>5. \A s \in Scans : Working(s)' => Working(s) /\ scan'[s].asOf = scan[s].asOf
    BY <1>0, <2>1, <2>2 DEF Working, Places
  <2> QED
    BY <2>3, <2>4, <2>5 DEF Clients
<1> QED
  BY <1>1, <1>2

(* Times of a state of the specification, for SentKept.                    *)
LEMMA SentMinutes ==
  ASSUME Typed
  PROVE  \A r \in Sent : r \in RowSet /\ r.min \in Int
<1>1. \A q \in Requests : \A r \in RowsOf(q) : r \in RowSet /\ r.min \in Int
  <2>1. \A r \in RowSet : r.min \in Int
    BY CandleAssumption DEF RowSet, Minutes
  <2> TAKE q \in Requests
  <2>2. \A i \in DOMAIN q : q[i] \in RowSet
    BY LenProperties DEF Requests
  <2> QED
    BY <2>1, <2>2 DEF RowsOf
<1>2. (\A c \in Clients : flight[c] \in Requests) /\ late \subseteq Requests
  BY DEF Typed, TypeOK
<1> QED
  BY <1>1, <1>2 DEF Sent

LEMMA NextInTime == IndInv /\ [Next]_vars => InTime'
<1> SUFFICES ASSUME IndInv, [Next]_vars PROVE InTime'
  OBVIOUS
<1>0. /\ Typed /\ Typed' /\ InTime
      /\ \A r \in Sent : Punctual(r) /\ r \in RowSet /\ r.min \in Int
      /\ now \in First..(Last + 1) /\ now \in Int
  BY NextTyped, SentMinutes, CandleAssumption DEF IndInv, InTime, Typed, TypeOK
<1>a. ASSUME UNCHANGED <<now, store>>, \A r \in Sent' : r \in Sent \/ Punctual(r) PROVE InTime'
  BY <1>0, <1>a DEF InTime, Punctual
<1>1. ASSUME NEW s \in Scans, NEW ok \in BOOLEAN, Fetch(s, ok) PROVE InTime'
  BY <1>1, <1>a DEF Fetch, Sent, db
<1>2. ASSUME NEW s \in Scans, ReadMark(s) PROVE InTime'
  <2> DEFINE m == scan[s].asOf
             start == IF lastTs = Never THEN Newest(m) ELSE SelectFrom(lastTs)
  <2>1. m \in First..now /\ m \in First..(Last + 1)
    BY <1>0, <1>2, CandleAssumption DEF ReadMark, Typed, InStep
  <2>2. Newest(m) \in Minutes /\ start \in Minutes
    <3>1. Newest(m) \in Minutes
      BY <2>1, NewestIn
    <3>2. lastTs # Never => lastTs \in Minutes
      BY <1>0, CandleAssumption DEF Typed, TypeOK, Never, Minutes
    <3> QED
      BY <3>1, <3>2 DEF SelectFrom
  <2>3. \A r \in RowsOf(flight'[s]) : Punctual(r)
    <3>1. flight'[s] = IF start < Newest(m) THEN Rows(m, start, Newest(m) - 1)
                       ELSE IF start = Newest(m) THEN LatestRow(m) ELSE <<>>
      BY <1>0, <1>2 DEF ReadMark, Clients, Typed, TypeOK
    <3>2. start < Newest(m) => Newest(m) - 1 \in Minutes /\ Newest(m) - 1 <= Newest(m)
      BY <2>2, CandleAssumption DEF Minutes
    <3>3. start < Newest(m) => \A r \in RowsOf(Rows(m, start, Newest(m) - 1)) : Punctual(r)
      BY <1>0, <2>1, <2>2, <3>2, RowsPunctual
    <3>4. \A r \in RowsOf(LatestRow(m)) : Punctual(r)
      BY <1>0, <2>1, LatestPunctual
    <3>5. RowsOf(<<>>) = {}
      BY DEF RowsOf
    <3> QED
      BY <3>1, <3>3, <3>4, <3>5
  <2>4. \A c \in Clients : c # s => flight'[c] = flight[c]
    BY <1>0, <1>2 DEF ReadMark, Typed, TypeOK
  <2> QED
    BY <1>2, <1>a, <2>3, <2>4 DEF ReadMark, Sent, db
<1>3. ASSUME NEW s \in Scans, Mark(s) \/ Abort(s) \/ Publish(s) PROVE InTime'
  BY <1>3, <1>a DEF Mark, Abort, Publish, Sent, db
<1>4. CASE StartBackfill
  <2>1. Newest(now) \in Minutes /\ First \in Minutes /\ now \in First..now /\ Newest(now) <= Newest(now)
    BY <1>0, NewestIn, CandleAssumption DEF Minutes
  <2>2. \A r \in RowsOf(Rows(now, First, Newest(now))) : Punctual(r)
    BY <1>0, <2>1, RowsPunctual
  <2>3. \A c \in Clients : flight'[c] = flight[c] \/ flight'[c] = Rows(now, First, Newest(now))
    BY <1>0, <1>4 DEF StartBackfill, Typed, TypeOK
  <2> QED
    BY <1>4, <1>a, <2>2, <2>3 DEF StartBackfill, Sent, db
<1>5. ASSUME NEW c \in Clients, Serve(c) PROVE InTime'
  <2>1. PICK r \in RowSet : r = Head(flight[c])
    BY <1>0, <1>5, RequestParts DEF Serve, Typed, TypeOK
  <2>2. r \in RowsOf(flight[c])
    BY <1>0, <1>5, <2>1, RequestParts DEF Serve, RowsOf, Typed, TypeOK
  <2>3. \A m \in Minutes : store'[m] = "final" => m < now
    BY <1>0, <1>5, <2>1, <2>2, UpsertSettles DEF Serve, Sent, Typed, InTime
  <2>4. \A d \in Clients : \A x \in RowsOf(flight'[d]) : x \in RowsOf(flight[d]) \/ Punctual(x)
    <3>1. CASE Len(flight[c]) = 1
      BY <1>0, <1>5, <3>1, OnwardEffect DEF Serve
    <3>2. CASE Len(flight[c]) # 1
      <4>1. RowsOf(Tail(flight[c])) \subseteq RowsOf(flight[c])
        BY <1>0, <1>5, RequestParts DEF Serve, RowsOf, Typed, TypeOK
      <4>2. \A d \in Clients : flight'[d] = IF d = c THEN Tail(flight[c]) ELSE flight[d]
        BY <1>0, <1>5, <3>2 DEF Serve, Typed, TypeOK
      <4> QED
        BY <4>1, <4>2
    <3> QED
      BY <3>1, <3>2
  <2>5. now' = now /\ late' = late
    BY <1>5 DEF Serve
  <2>6. \A x \in Sent' : x \in Sent \/ Punctual(x)
    BY <2>4, <2>5 DEF Sent
  <2> QED
    BY <1>0, <2>3, <2>5, <2>6 DEF InTime, Punctual
<1>6. ASSUME NEW c \in Clients, NEW lost \in BOOLEAN, GiveUp(c, lost) PROVE InTime'
  <2>1. \A d \in Clients : \A x \in RowsOf(flight'[d]) : x \in RowsOf(flight[d]) \/ Punctual(x)
    BY <1>0, <1>6, OnwardEffect DEF GiveUp
  <2>2. late' \subseteq late \cup {flight[c]}
    BY <1>6 DEF GiveUp
  <2>3. \A x \in Sent' : x \in Sent \/ Punctual(x)
    BY <2>1, <2>2 DEF Sent
  <2> QED
    BY <1>6, <1>a, <2>3 DEF GiveUp
<1>7. ASSUME NEW q \in late, ServeLate(q) PROVE InTime'
  <2>0. q \in Requests /\ q # <<>>
    BY <1>0 DEF Typed, TypeOK
  <2>1. PICK r \in RowSet : r = Head(q)
    BY <2>0, RequestParts
  <2>2. r \in RowsOf(q) /\ RowsOf(Tail(q)) \subseteq RowsOf(q)
    BY <2>0, <2>1, RequestParts DEF RowsOf
  <2>3. \A m \in Minutes : store'[m] = "final" => m < now
    BY <1>0, <1>7, <2>1, <2>2, UpsertSettles DEF ServeLate, Sent, Typed, InTime
  <2>4. late' \subseteq late \cup {Tail(q)} /\ flight' = flight /\ now' = now
    BY <1>7 DEF ServeLate
  <2>5. \A x \in Sent' : x \in Sent
    BY <2>2, <2>4 DEF Sent
  <2> QED
    BY <1>0, <2>3, <2>4, <2>5 DEF InTime, Punctual
<1>8. CASE Crash
  <2>1. /\ \A c \in Clients : RowsOf(flight'[c]) = {}
        /\ late' \subseteq late \cup {flight[c] : c \in Clients}
    BY <1>8 DEF Crash, RowsOf
  <2>2. \A x \in Sent' : x \in Sent
    BY <2>1 DEF Sent
  <2> QED
    BY <1>8, <1>a, <2>2 DEF Crash, db
<1>9. CASE NextMinute
  <2>1. now' = now + 1 /\ store' = store /\ Sent' = Sent /\ Minutes \subseteq Int
    BY <1>9, CandleAssumption DEF NextMinute, Sent, db, Minutes
  <2>2. \A r \in Sent : Punctual(r)'
    BY <1>0, <2>1 DEF Punctual
  <2>3. \A m \in Minutes : store'[m] = "final" => m < now'
    BY <1>0, <2>1 DEF InTime
  <2> QED
    BY <2>1, <2>2, <2>3 DEF InTime
<1>10. CASE UNCHANGED vars
  BY <1>10, <1>a DEF vars, db, Sent
<1> QED
  BY <1>1, <1>2, <1>3, <1>4, <1>5, <1>6, <1>7, <1>8, <1>9, <1>10 DEF Next, Log

(* Reading the mark, and writing it, are the steps that Mirrored is about. *)
LEMMA ReadMarkCatchesUp ==
  ASSUME IndInv, NEW s \in Scans, ReadMark(s)
  PROVE  CatchUp' /\ Mirrored'
<1> DEFINE m == scan[s].asOf
           top == Newest(m) - 1
           start == IF lastTs = Never THEN Newest(m) ELSE SelectFrom(lastTs)
<1>0. /\ Typed /\ CatchUp /\ Mirrored /\ scan \in [Scans -> Places]
      /\ flight \in [Clients -> Requests] /\ UNCHANGED <<lastTs, from, store, hurt>>
      /\ m \in First..(Last + 1) /\ m \in Int /\ m \in First..now
  BY CandleAssumption DEF IndInv, Typed, TypeOK, InStep, ReadMark, marks, db
<1>1. Newest(m) \in Minutes /\ Newest(m) <= m
  BY <1>0, NewestIn
<1>2. Mirrored' /\ (lastTs' # Never => from' # Never)
  BY <1>0 DEF Mirrored, CatchUp
<1>3. /\ scan'[s].asOf = m /\ scan'[s].blind = (lastTs = Never)
      /\ scan'[s].pc = IF start < Newest(m) THEN "batch"
                       ELSE IF start = Newest(m) THEN "latest" ELSE "publish"
      /\ start < Newest(m) => flight'[s] = Rows(m, start, top)
  BY <1>0 DEF ReadMark, Places, Clients
<1>4. ASSUME NEW z \in Scans, z # s, Working(z)' PROVE lastTs' # Never /\ CaughtUp(z)'
  <2>1. scan'[z] = scan[z] /\ flight'[z] = flight[z]
    BY <1>0, <1>4 DEF ReadMark, Clients
  <2>2. Working(z)
    BY <1>4, <2>1 DEF Working
  <2>3. lastTs # Never /\ CaughtUp(z)
    BY <1>0, <2>2 DEF CatchUp
  <2> QED
    BY <1>0, <2>1, <2>3 DEF CaughtUp, Settled, Underway
<1>5. ASSUME Working(s)' PROVE lastTs' # Never /\ CaughtUp(s)'
  <2>1. lastTs # Never /\ start = lastTs /\ start <= Newest(m)
    <3>1. scan'[s].pc # "publish" /\ ~scan'[s].blind
      BY <1>5 DEF Working
    <3>2. lastTs # Never /\ start = lastTs
      BY <1>3, <3>1 DEF SelectFrom
    <3>3. start < Newest(m) \/ start = Newest(m)
      BY <1>3, <3>1
    <3>4. start \in Int /\ Newest(m) \in Int
      BY <1>0, <1>1, <3>2, CandleAssumption DEF Typed, TypeOK, Never, Minutes
    <3> QED
      BY <3>2, <3>3, <3>4
  <2>2. lastTs \in Minutes /\ from \in Minutes /\ Minutes \subseteq Int
    BY <1>0, <2>1, CandleAssumption DEF Typed, TypeOK, CatchUp, Never, Minutes
  <2>3. \A t \in from..(lastTs - 1) : Settled(t)
    BY <1>0, <2>1 DEF Mirrored, Settled
  <2>4. ASSUME NEW t \in lastTs..top PROVE Underway(s, t)'
    <3>1. t \in Int /\ start < Newest(m) /\ top \in Minutes /\ t < m /\ t - lastTs + 1 \in 1..(top - start + 1)
      <4>1. lastTs \in Int /\ Newest(m) \in Int /\ Newest(m) <= m /\ m \in Int
        BY <1>0, <1>1, <2>2
      <4>2. start = lastTs /\ start <= Newest(m)
        BY <2>1
      <4>3. lastTs \in Minutes /\ Newest(m) \in Minutes
        BY <1>1, <2>2
      <4>4. top = Newest(m) - 1
        OBVIOUS
      <4>5. t \in lastTs..top
        BY <2>4
      <4> HIDE DEF m, top, start
      <4>6. t \in Int /\ lastTs <= t /\ t <= Newest(m) - 1
        BY <4>1, <4>4, <4>5
      <4>7. top \in Minutes
        BY <4>1, <4>3, <4>4, <4>6, CandleAssumption DEF Minutes
      <4>8. start < Newest(m) /\ t < m
        BY <4>1, <4>2, <4>6
      <4>9. t - lastTs + 1 \in 1..(top - start + 1)
        BY <4>1, <4>2, <4>4, <4>6
      <4> QED
        BY <4>6, <4>7, <4>8, <4>9
    <3>2. flight'[s] = Rows(m, start, top)
      BY <1>3, <3>1
    <3> DEFINE i == t - lastTs + 1
    <3>3. start \in Minutes /\ start \in Int /\ i \in 1..(top - start + 1) /\ start + i - 1 = t
      BY <1>0, <2>1, <2>2, <3>1
    <3>4. i \in DOMAIN Rows(m, start, top)
      <4>1. m \in Int
        BY <1>0
      <4>2. start \in Minutes /\ top \in Minutes /\ i \in 1..(top - start + 1)
        BY <3>1, <3>3
      <4> HIDE DEF i, m, top, start
      <4>3. DOMAIN Rows(m, start, top) = 1..(top - start + 1)
        BY <4>1, <4>2, RowsIn, Zenon
      <4> QED
        BY <4>2, <4>3
    <3>5. Rows(m, start, top)[i].min = t /\ (Rows(m, start, top)[i].ver = "final" <=> t # m)
      <4> HIDE DEF i, m, top, start
      <4>1. /\ Rows(m, start, top)[i].min = start + i - 1
            /\ Rows(m, start, top)[i].ver = "final" <=> start + i - 1 # m
        BY <1>0, <3>1, <3>3, <3>4, RowsIn
      <4> QED
        BY <3>3, <4>1
    <3>6. t # m
      BY <1>0, <3>1
    <3> QED
      BY <3>2, <3>4, <3>5, <3>6 DEF Underway, RowsOf
  <2>5. \A t \in from..top : t \in from..(lastTs - 1) \/ t \in lastTs..top
    BY <1>1, <2>2
  <2>6. \A t \in from..top : Settled(t)' \/ Underway(s, t)'
    BY <1>0, <2>3, <2>4, <2>5 DEF Settled
  <2> QED
    BY <1>0, <1>3, <2>1, <2>6 DEF CaughtUp, Newest
<1> QED
  BY <1>2, <1>4, <1>5 DEF CatchUp

LEMMA MarkMirrors ==
  ASSUME IndInv, NEW s \in Scans, Mark(s)
  PROVE  CatchUp' /\ Mirrored'
<1> DEFINE m == scan[s].asOf
<1>0. /\ Typed /\ CatchUp /\ Mirrored /\ scan \in [Scans -> Places]
      /\ UNCHANGED <<flight, store, hurt>> /\ flight[s] = <<>>
      /\ m \in First..(Last + 1) /\ lastTs' = Newest(m)
      /\ from \in Never..Last
  BY CandleAssumption DEF IndInv, Typed, TypeOK, InStep, Mark, db
<1>1. lastTs' \in Minutes /\ lastTs' # Never
  BY <1>0, NewestIn, CandleAssumption DEF Minutes, Never
<1>2. from' = IF scan[s].blind /\ lastTs' > from THEN lastTs' ELSE from
  BY DEF Mark
<1>3. from <= from' /\ from' \in Int /\ from \in Int
  BY <1>0, <1>1, <1>2, CandleAssumption DEF Minutes, Never
<1>4. \A t \in from'..(lastTs' - 1) : Settled(t)'
  <2>1. CASE scan[s].blind
    <3>1. from' >= lastTs'
      BY <1>0, <1>1, <1>2, <2>1, CandleAssumption DEF Minutes, Never
    <3>2. from' \in Int /\ lastTs' \in Int
      BY <1>1, <1>3, CandleAssumption DEF Minutes
    <3>3. \A x, y \in Int : x >= y => \A t \in x..(y - 1) : FALSE
      OBVIOUS
    <3>4. \A t \in from'..(lastTs' - 1) : FALSE
      BY <3>1, <3>2, <3>3
    <3> QED
      BY <3>4
  <2>2. CASE ~scan[s].blind
    <3>1. CaughtUp(s)
      BY <1>0, <2>2 DEF CatchUp, Working, Mark
    <3>2. \A t : ~Underway(s, t)
      BY <1>0 DEF Underway, RowsOf
    <3> QED
      BY <1>0, <1>2, <2>2, <3>1, <3>2 DEF CaughtUp, Settled
  <2> QED
    BY <2>1, <2>2
<1>5. from' # Never
  <2>1. CASE scan[s].blind
    <3>1. from' >= lastTs'
      BY <1>0, <1>1, <1>2, <2>1, CandleAssumption DEF Minutes, Never
    <3> QED
      BY <1>1, <1>3, <3>1, CandleAssumption DEF Minutes, Never
  <2>2. CASE ~scan[s].blind
    <3>1. lastTs # Never
      BY <1>0, <2>2 DEF CatchUp, Working, Mark
    <3> QED
      BY <1>0, <1>2, <2>2, <3>1 DEF CatchUp
  <2> QED
    BY <2>1, <2>2
<1>6. ASSUME NEW z \in Scans, Working(z)' PROVE CaughtUp(z)'
  <2>1. z # s /\ scan'[z] = scan[z] /\ flight'[z] = flight[z]
    BY <1>0, <1>6 DEF Mark, Working
  <2>2. CaughtUp(z)
    BY <1>0, <1>6, <2>1 DEF CatchUp, Working
  <2>3. Newest(scan[z].asOf) \in Int
    <3>1. scan[z].asOf \in First..(Last + 1)
      BY <1>0, <1>6, <2>1, CandleAssumption DEF Working, Typed, TypeOK, InStep
    <3> QED
      BY <3>1, NewestIn, CandleAssumption DEF Minutes
  <2>4. \A t \in from'..(Newest(scan[z].asOf) - 1) : t \in from..(Newest(scan[z].asOf) - 1)
    BY <1>3, <2>3
  <2> QED
    BY <1>0, <2>1, <2>2, <2>4 DEF CaughtUp, Settled, Underway
<1> QED
  BY <1>1, <1>4, <1>5, <1>6 DEF CatchUp, Mirrored, Settled

LEMMA NextCatchUp == IndInv /\ [Next]_vars => CatchUp' /\ Mirrored'
<1> SUFFICES ASSUME IndInv, [Next]_vars PROVE CatchUp' /\ Mirrored'
  OBVIOUS
<1>0. /\ Typed /\ InTime /\ CatchUp /\ Mirrored /\ TypeOK
      /\ scan \in [Scans -> Places] /\ flight \in [Clients -> Requests]
      /\ \A m \in Minutes : store[m] = "final" => m < now
  BY DEF IndInv, Typed, TypeOK, InTime
<1>a. ASSUME UNCHANGED <<marks, store, hurt>>,
             \A s \in Scans : Working(s)' => /\ Working(s) /\ scan'[s].asOf = scan[s].asOf
                                            /\ flight'[s] = flight[s]
      PROVE  CatchUp' /\ Mirrored'
  <2>1. \A m \in Minutes : Settled(m) => Settled(m)'
    BY <1>a DEF Settled
  <2>2. \A s \in Scans : Working(s)' => \A m \in Minutes : Underway(s, m) => Underway(s, m)'
    BY <1>a DEF Underway
  <2> QED
    BY <1>0, <1>a, <2>1, <2>2, CatchUpKept
<1>b. ASSUME NEW q \in Requests, q # <<>>, RowsOf(q) \subseteq Sent, Upsert(Head(q))
      PROVE  /\ \A m \in Minutes : Settled(m) => Settled(m)'
             /\ \A r \in RowSet : r = Head(q) /\ r.ver = "final" => Settled(r.min)'
  <2>1. PICK r \in RowSet : r = Head(q)
    BY <1>b, RequestParts
  <2>2. Punctual(r)
    BY <1>0, <1>b, <2>1, RequestParts DEF InTime, RowsOf
  <2>3. /\ \A m \in Minutes : Settled(m) => Settled(m)'
        /\ r.ver = "final" => Settled(r.min)'
    BY <1>0, <1>b, <2>1, <2>2, UpsertSettles
  <2> QED
    BY <2>1, <2>3
<1>1. ASSUME NEW s \in Scans, NEW ok \in BOOLEAN, Fetch(s, ok) PROVE CatchUp' /\ Mirrored'
  <2>1. \A z \in Scans : Working(z)' => scan'[z] = scan[z] /\ flight'[z] = flight[z]
    BY <1>0, <1>1 DEF Fetch, Working
  <2> QED
    BY <1>1, <1>a, <2>1 DEF Fetch, db, Working
<1>2. ASSUME NEW s \in Scans, Abort(s) \/ Publish(s) PROVE CatchUp' /\ Mirrored'
  <2>1. \A z \in Scans : Working(z)' => scan'[z] = scan[z] /\ flight'[z] = flight[z]
    BY <1>0, <1>2 DEF Abort, Publish, Working, Idle
  <2> QED
    BY <1>2, <1>a, <2>1 DEF Abort, Publish, db, Working
<1>3. CASE StartBackfill
  <2>1. \A z \in Scans : scan'[z] = scan[z] /\ flight'[z] = flight[z]
    BY <1>0, <1>3, CandleAssumption DEF StartBackfill, Clients
  <2> QED
    BY <1>3, <1>a, <2>1 DEF StartBackfill, db, Working
<1>4. ASSUME NEW c \in Clients, Serve(c) PROVE CatchUp' /\ Mirrored'
  <2> DEFINE q == flight[c]
  <2>1. q \in Requests /\ q # <<>> /\ RowsOf(q) \subseteq Sent /\ Upsert(Head(q))
    BY <1>0, <1>4 DEF Serve, Sent
  <2>2. /\ \A m \in Minutes : Settled(m) => Settled(m)'
        /\ \A r \in RowSet : r = Head(q) /\ r.ver = "final" => Settled(r.min)'
    BY <1>b, <2>1
  <2>3. ASSUME NEW s \in Scans, Working(s)'
        PROVE  /\ Working(s) /\ scan'[s].asOf = scan[s].asOf
               /\ \A m \in Minutes : Underway(s, m) => Underway(s, m)' \/ Settled(m)'
    <3>1. CASE Len(q) = 1
      <4>1. Working(s) /\ scan'[s].asOf = scan[s].asOf /\ (s # c => flight'[s] = flight[s])
        BY <1>0, <1>4, <2>1, <2>3, <3>1, OnwardEffect DEF Serve
      <4>2. s = c => \A m \in Minutes : Underway(s, m) => Settled(m)'
        <5>1. \A r \in RowsOf(q) : r \in RowSet /\ r = Head(q)
          BY <2>1, <3>1, RequestParts DEF RowsOf
        <5>2. s = c => \A m \in Minutes : Underway(s, m) =>
                         \E r \in RowSet : r = Head(q) /\ r.min = m /\ r.ver = "final"
          BY <5>1 DEF Underway
        <5> QED
          BY <2>2, <5>2
      <4> QED
        BY <4>1, <4>2 DEF Underway
    <3>2. CASE Len(q) # 1
      <4>1. scan' = scan /\ flight' = [flight EXCEPT ![c] = Tail(q)]
        BY <1>4, <3>2 DEF Serve
      <4>2. Working(s) /\ scan'[s].asOf = scan[s].asOf
        BY <2>3, <4>1 DEF Working
      <4>3. CASE s # c
        <5>1. flight'[s] = flight[s]
          BY <1>0, <4>1, <4>3 DEF Clients
        <5> QED
          BY <4>2, <5>1 DEF Underway
      <4>4. CASE s = c
        <5>1. flight'[s] = Tail(q)
          BY <1>0, <4>1, <4>4 DEF Clients
        <5>2. \A r \in RowsOf(q) : r = Head(q) \/ r \in RowsOf(Tail(q))
          BY <2>1, RequestParts DEF RowsOf
        <5>3. ASSUME NEW m \in Minutes, Underway(s, m) PROVE Underway(s, m)' \/ Settled(m)'
          <6>1. PICK r \in RowsOf(q) : r.min = m /\ r.ver = "final"
            BY <4>4, <5>3 DEF Underway
          <6>2. CASE r = Head(q)
            <7>1. r \in RowSet
              BY <2>1, <6>2, RequestParts
            <7> QED
              BY <2>2, <6>1, <6>2, <7>1
          <6>3. CASE r \in RowsOf(Tail(q))
            BY <5>1, <6>1, <6>3 DEF Underway
          <6> QED
            BY <5>2, <6>1, <6>2, <6>3
        <5> QED
          BY <4>2, <5>3
      <4> QED
        BY <4>3, <4>4
    <3> QED
      BY <3>1, <3>2
  <2>4. UNCHANGED marks
    BY <1>4 DEF Serve
  <2> QED
    BY <1>0, <2>2, <2>3, <2>4, CatchUpKept
<1>5. ASSUME NEW c \in Clients, NEW lost \in BOOLEAN, GiveUp(c, lost) PROVE CatchUp' /\ Mirrored'
  <2>1. \A m \in Minutes : Settled(m) => Settled(m)'
    BY <1>5 DEF GiveUp, Settled
  <2>2. ASSUME NEW s \in Scans, Working(s)'
        PROVE  /\ Working(s) /\ scan'[s].asOf = scan[s].asOf
               /\ \A m \in Minutes : Underway(s, m) => Underway(s, m)' \/ Settled(m)'
    <3>1. Working(s) /\ scan'[s].asOf = scan[s].asOf /\ (s # c => flight'[s] = flight[s])
      BY <1>0, <1>5, <2>2, OnwardEffect DEF GiveUp
    <3>2. s = c => \A m \in Minutes : Underway(s, m) => m \in hurt'
      BY <1>5 DEF GiveUp, Underway, RowsOf, MinutesOf
    <3> QED
      BY <3>1, <3>2 DEF Underway, Settled
  <2> QED
    BY <1>0, <1>5, <2>1, <2>2, CatchUpKept DEF GiveUp
<1>6. ASSUME NEW q \in late, ServeLate(q) PROVE CatchUp' /\ Mirrored'
  <2>1. q \in Requests /\ q # <<>> /\ RowsOf(q) \subseteq Sent /\ Upsert(Head(q))
    BY <1>0, <1>6 DEF ServeLate, Sent, TypeOK
  <2>2. \A m \in Minutes : Settled(m) => Settled(m)'
    BY <1>b, <2>1
  <2>3. \A s \in Scans : /\ Working(s)' => Working(s) /\ scan'[s].asOf = scan[s].asOf
                         /\ \A m \in Minutes : Underway(s, m) => Underway(s, m)'
    BY <1>6 DEF ServeLate, Working, Underway
  <2> QED
    BY <1>0, <1>6, <2>2, <2>3, CatchUpKept DEF ServeLate
<1>7. CASE Crash
  <2>1. \A s \in Scans : ~Working(s)'
    BY <1>7 DEF Crash, Working, Idle
  <2> QED
    BY <1>7, <1>a, <2>1 DEF Crash, db
<1>8. CASE NextMinute \/ UNCHANGED vars
  <2>1. UNCHANGED <<marks, store, hurt, scan, flight>>
    BY <1>8 DEF NextMinute, vars, db
  <2> QED
    BY <1>a, <2>1 DEF Working
<1> QED
  BY <1>1, <1>2, <1>3, <1>4, <1>5, <1>6, <1>7, <1>8, ReadMarkCatchesUp, MarkMirrors DEF Next, Log

(* Whatever scans overlap, fail, or are cut short by a crash, and whatever *)
(* backfills and late requests do to the table in the meantime: below the  *)
(* mark every bar is final, except one whose last copy was given up or     *)
(* came late as a partial one (candle_filter.py:15-36).                    *)
THEOREM MirrorSafe == Spec => []Mirrored
<1>1. IndInv /\ [Next]_vars => IndInv'
  BY NextTyped, NextInTime, NextCatchUp DEF IndInv
<1>2. IndInv => Mirrored
  BY DEF IndInv
<1> QED
  BY InitInd, <1>1, <1>2, PTL DEF Spec

-----------------------------------------------------------------------------
(* The invariants.                                                         *)

RedisTyped ==
  /\ redis \in [Keys -> [Symbols -> Tick \cup MinuteBar \cup {None}]]
  /\ \A s \in Symbols : /\ redis["ltp"][s] \in Tick \cup {None}
                        /\ redis["forming_bar"][s] \in MinuteBar \cup {None}
                        /\ redis["last_bar"][s] \in MinuteBar \cup {None}
Types ==
  /\ minute \in Nat /\ ticks \in [Symbols -> SUBSET Tick]
  /\ latest \in [Symbols -> Tick \cup {None}]
  /\ forming \in [Symbols -> MinuteBar \cup {None}]
  /\ finalized \in [Symbols -> MinuteBar \cup {None}]
  /\ sdk \in {Ready} \cup [pc : {"bar", "fresh", "wake"}, sym : Symbols, tick : Tick]
  /\ wakes \in BOOLEAN /\ event \in BOOLEAN
  /\ \/ consumer \in [pc : {"wait", "final", "latest"}, todo : SUBSET Symbols]
     \/ consumer \in [pc : {"forming"}, todo : SUBSET Symbols, sym : Symbols]
  /\ hot \subseteq Symbols /\ dropped \subseteq Symbols
  /\ RedisTyped

(* A wake-up is on its way, or will be once _on_message returns.  If not,  *)
(* what is in the tables is on the list of the consumer, or will be when   *)
(* it turns from the finished bars to the ticks.                           *)
Coming == sdk # Ready \/ wakes \/ event
WakeInv ==
  /\ consumer.pc = "wait" => consumer = Sleep
  /\ consumer.pc = "final" => \A s \in consumer.todo : finalized[s] # None
  /\ consumer.pc \in {"latest", "forming"} => \A s \in consumer.todo : latest[s] # None
  /\ ~Coming => \A s \in Symbols :
       /\ finalized[s] # None => consumer.pc = "final" /\ s \in consumer.todo
       /\ latest[s] # None =>
            consumer.pc = "final" \/ (consumer.pc \in {"latest", "forming"} /\ s \in consumer.todo)

(* The ticks of a symbol that its bars should hold by now: those that      *)
(* arrived, but for the one _on_message is about to put into a bar.        *)
Joining(s) == sdk.pc \in {"bar", "fresh"} /\ sdk.sym = s
Joined(s)  == {t \in ticks[s] : Joining(s) => t # sdk.tick}
Whole(s, bar) == /\ bar.ticks = OfMinute(s, bar.min)
                 /\ \E t \in ticks[s] : t.min > bar.min

(* The forming bar holds the ticks of the newest minute; a tick of a later *)
(* one is about to replace it; a bar handed over is whole.                 *)
BarsOf(s) ==
    /\ \A t \in ticks[s] : t.min <= minute
    /\ forming[s] = None => Joined(s) = {}
    /\ forming[s] # None =>
         /\ forming[s].ticks = {t \in Joined(s) : t.min = forming[s].min}
         /\ \A t \in Joined(s) : t.min <= forming[s].min
         /\ forming[s].min <= minute
    /\ Joining(s) =>
         /\ sdk.tick \in ticks[s]
         /\ forming[s] # None => forming[s].min <= sdk.tick.min
         /\ sdk.pc = "fresh" /\ forming[s] # None => forming[s].min # sdk.tick.min
    /\ finalized[s] # None => Whole(s, finalized[s])
    /\ redis["last_bar"][s] # None => Whole(s, redis["last_bar"][s])
BarInv == \A s \in Symbols : BarsOf(s)

(* The ticks are numbered.  The newest one is in _latest; once it has been *)
(* taken and not dropped, it is the one shown, and forming_bar, unless it  *)
(* is about to be written, lacks no other tick than this one.              *)
NewestTick(s, t) == t.no = Cardinality(ticks[s])
Consumed(s) == s \notin dropped /\ latest[s] = None
ShownOf(s) ==
    /\ IsFiniteSet(ticks[s])
    /\ \A t \in ticks[s] : t.no <= Cardinality(ticks[s])
    /\ \A t, u \in ticks[s] : t.no = u.no => t = u
    /\ Joining(s) => NewestTick(s, sdk.tick)
    /\ latest[s] # None => NewestTick(s, latest[s])
    /\ Consumed(s) /\ redis["ltp"][s] # None => NewestTick(s, redis["ltp"][s])
    /\ redis["forming_bar"][s] # None => forming[s] # None
    /\ Consumed(s) /\ redis["forming_bar"][s] # None
         /\ ~(consumer.pc = "forming" /\ consumer.sym = s) =>
           \A t \in ticks[s] : t.min >= redis["forming_bar"][s].min =>
             t \in redis["forming_bar"][s].ticks \/ NewestTick(s, t)
ShownInv == \A s \in Symbols : ShownOf(s)

-----------------------------------------------------------------------------
(* Types.                                                                  *)

(* Types holds at the start.                                               *)
LEMMA TypesInit == ASSUME TickInit PROVE Types
  BY DEF TickInit, Types, RedisTyped, Ready, Sleep, Keys

(* A tick or a bar is not None, and a symbol's newest number is a number.  *)
LEMMA NewTick ==
  ASSUME Types, NEW s \in Symbols, IsFiniteSet(ticks[s])
  PROVE  [min |-> minute, no |-> Cardinality(ticks[s]) + 1] \in Tick
<1>1. Cardinality(ticks[s]) \in Nat
  BY FS_CardinalityType
<1> QED BY <1>1 DEF Types, RedisTyped, Tick

(* A step of _on_message keeps the types.                                  *)
LEMMA SdkTypes ==
  ASSUME Types, \A s \in Symbols : IsFiniteSet(ticks[s]),
         (\E s \in Symbols : Latest(s)) \/ Join \/ HandOver \/ StartBar \/ Wake
  PROVE  Types'
<1>1. ASSUME NEW s \in Symbols, Latest(s) PROVE Types'
  <2>1. [min |-> minute, no |-> Cardinality(ticks[s]) + 1] \in Tick
    BY <1>1, NewTick
  <2> QED BY <1>1, <2>1 DEF Types, RedisTyped, Latest
<1>2. CASE Join
  <2>1. sdk.sym \in Symbols /\ sdk.tick \in Tick /\ forming[sdk.sym] \in MinuteBar
        /\ sdk \in [pc : {"bar", "fresh", "wake"}, sym : Symbols, tick : Tick]
    BY <1>2 DEF Join, Types, Same, Ready
  <2>2. [forming[sdk.sym] EXCEPT !.ticks = @ \cup {sdk.tick}] \in MinuteBar
    BY <2>1 DEF MinuteBar
  <2>3. forming' \in [Symbols -> MinuteBar \cup {None}]
    BY <1>2, <2>1, <2>2 DEF Join, Types
  <2>4. sdk' \in [pc : {"bar", "fresh", "wake"}, sym : Symbols, tick : Tick]
    BY <1>2, <2>1 DEF Join
  <2> QED BY <1>2, <2>3, <2>4 DEF Types, RedisTyped, Join
<1>3. CASE HandOver
  <2>1. sdk \in [pc : {"bar", "fresh", "wake"}, sym : Symbols, tick : Tick]
    BY <1>3 DEF HandOver, Types, Ready
  <2>2. finalized' \in [Symbols -> MinuteBar \cup {None}]
    BY <1>3, <2>1 DEF HandOver, Types
  <2> QED BY <1>3, <2>1, <2>2 DEF Types, RedisTyped, HandOver
<1>4. CASE StartBar
  <2>1. sdk \in [pc : {"bar", "fresh", "wake"}, sym : Symbols, tick : Tick]
    BY <1>4 DEF StartBar, Types, Ready
  <2>2. Bar(sdk.tick.min, {sdk.tick}) \in MinuteBar
    BY <2>1 DEF Bar, MinuteBar, Tick
  <2> QED BY <1>4, <2>1, <2>2 DEF Types, RedisTyped, StartBar
<1>5. CASE Wake
  BY <1>5 DEF Types, RedisTyped, Wake, tables
<1> QED BY <1>1, <1>2, <1>3, <1>4, <1>5

(* A step of the event loop keeps the types.                               *)
LEMMA LoopTypes ==
  ASSUME Types, WakeInv,
         SetEvent \/ Begin \/ Turn \/ Rest \/ TickMinute
         \/ (\E ok \in BOOLEAN : \/ WriteForming(ok)
                                 \/ \E s \in Symbols : WriteFinal(s, ok) \/ WriteTick(s, ok))
         \/ \E s \in Symbols : Throttle(s) \/ Cool(s)
  PROVE  Types'
<1>1. CASE SetEvent \/ TickMinute \/ \E s \in Symbols : Cool(s)
  <2>1. CASE SetEvent
    <3>1. wakes' \in BOOLEAN /\ event' \in BOOLEAN
      BY <2>1 DEF SetEvent
    <3> QED BY <2>1, <3>1 DEF Types, RedisTyped, SetEvent, tables
  <2>2. CASE TickMinute
    BY <2>2 DEF Types, RedisTyped, TickMinute, tables
  <2>3. CASE \E s \in Symbols : Cool(s)
    BY <2>3 DEF Types, RedisTyped, Cool, tables
  <2> QED BY <1>1, <2>1, <2>2, <2>3
<1>2. CASE Begin \/ Turn \/ Rest
  <2>1. consumer' \in [pc : {"wait", "final", "latest"}, todo : SUBSET Symbols]
    BY <1>2 DEF Begin, Turn, Rest, Sleep
  <2>2. event' \in BOOLEAN
    BY <1>2 DEF Types, RedisTyped, Begin, Turn, Rest
  <2>3. UNCHANGED <<minute, ticks, latest, forming, finalized, sdk, wakes, hot, redis, dropped>>
    BY <1>2 DEF Begin, Turn, Rest, tables
  <2> QED BY <2>1, <2>2, <2>3 DEF Types, RedisTyped, RedisTyped
<1>3. ASSUME NEW ok \in BOOLEAN, NEW s \in Symbols, WriteFinal(s, ok) PROVE Types'
  <2>1. RedisTyped'
    BY <1>3 DEF Types, RedisTyped, WriteFinal, SetEx, Keys
  <2> QED BY <1>3, <2>1 DEF Types, RedisTyped, WriteFinal
<1>4. ASSUME NEW ok \in BOOLEAN, NEW s \in Symbols, WriteTick(s, ok) PROVE Types'
  <2>1. RedisTyped'
    BY <1>4 DEF Types, RedisTyped, WriteTick, SetEx, Keys
  <2> QED BY <1>4, <2>1 DEF Types, RedisTyped, WriteTick
<1>5. ASSUME NEW ok \in BOOLEAN, WriteForming(ok) PROVE Types'
  <2>0. consumer.sym \in Symbols /\ consumer.todo \subseteq Symbols
    BY <1>5 DEF Types, RedisTyped, WriteForming
  <2>1. RedisTyped'
    BY <1>5, <2>0 DEF Types, RedisTyped, WriteForming, SetEx, Keys
  <2> QED BY <1>5, <2>0, <2>1 DEF Types, RedisTyped, WriteForming, tables
<1>6. ASSUME NEW s \in Symbols, Throttle(s) PROVE Types'
  BY <1>6 DEF Types, RedisTyped, Throttle
<1> QED BY <1>1, <1>2, <1>3, <1>4, <1>5, <1>6

-----------------------------------------------------------------------------
(* Wake-ups.                                                               *)

(* WakeInv holds at the start.                                             *)
LEMMA WakeInit == TickInit => WakeInv
  BY DEF TickInit, WakeInv, Sleep, Ready

(* WakeInv is inductive.                                                   *)
LEMMA WakeStep ==
  ASSUME Types, \A s \in Symbols : IsFiniteSet(ticks[s]), WakeInv, TickNext
  PROVE  WakeInv'
<1>1. ASSUME NEW s \in Symbols, Latest(s) PROVE WakeInv'
  <2>1. [min |-> minute, no |-> Cardinality(ticks[s]) + 1] # None
    BY NewTick, TickAssumption
  <2> QED BY <1>1, <2>1 DEF Types, RedisTyped, WakeInv, Coming, Latest, Ready
<1>2. CASE Join \/ StartBar
  <2>1. sdk' # Ready
    BY <1>2 DEF Types, RedisTyped, Join, StartBar, Ready
  <2> QED BY <1>2, <2>1 DEF Types, RedisTyped, WakeInv, Coming, Join, StartBar
<1>3. CASE HandOver
  <2>1. sdk' # Ready
    BY <1>3 DEF Types, RedisTyped, HandOver, Ready
  <2>2. \A s \in Symbols : finalized[s] # None => finalized'[s] # None
    BY <1>3 DEF Types, RedisTyped, HandOver
  <2> QED BY <1>3, <2>1, <2>2 DEF Types, RedisTyped, WakeInv, Coming, HandOver
<1>4. CASE Wake \/ SetEvent \/ TickMinute \/ \E s \in Symbols : Cool(s)
  BY <1>4 DEF WakeInv, Coming, Wake, SetEvent, TickMinute, Cool, tables
<1>5. CASE Begin \/ Turn \/ Rest
  BY <1>5 DEF Types, RedisTyped, WakeInv, Coming, Begin, Turn, Rest, tables, Sleep
<1>6. ASSUME NEW ok \in BOOLEAN, NEW s \in Symbols, WriteFinal(s, ok) PROVE WakeInv'
  BY <1>6 DEF Types, RedisTyped, WakeInv, Coming, WriteFinal
<1>7. ASSUME NEW ok \in BOOLEAN, NEW s \in Symbols, WriteTick(s, ok) PROVE WakeInv'
  BY <1>7 DEF Types, RedisTyped, WakeInv, Coming, WriteTick
<1>8. ASSUME NEW ok \in BOOLEAN, WriteForming(ok) PROVE WakeInv'
  BY <1>8 DEF Types, RedisTyped, WakeInv, Coming, WriteForming, tables
<1>9. ASSUME NEW s \in Symbols, Throttle(s) PROVE WakeInv'
  BY <1>9 DEF Types, RedisTyped, WakeInv, Coming, Throttle
<1> QED BY <1>1, <1>2, <1>3, <1>4, <1>5, <1>6, <1>7, <1>8, <1>9 DEF TickNext

-----------------------------------------------------------------------------
(* Bars.                                                                        *)

(* BarInv holds at the start.                                              *)
LEMMA BarInit == TickInit => BarInv
  BY DEF TickInit, BarInv, BarsOf, Ready, Joining, Joined, Keys

(* A tick that joins a bar or begins one makes a bar.                      *)
LEMMA NewBar == ASSUME Types, Join \/ StartBar PROVE forming'[sdk.sym] \in MinuteBar
<1>1. sdk.sym \in Symbols /\ sdk.tick \in Tick
  BY DEF Types, Join, StartBar, Ready
<1>2. CASE Join
  <2>1. forming[sdk.sym] \in MinuteBar
    BY <1>1, <1>2 DEF Types, Join, Same
  <2>2. [forming[sdk.sym] EXCEPT !.ticks = @ \cup {sdk.tick}] \in MinuteBar
    BY <1>1, <2>1 DEF MinuteBar
  <2> QED BY <1>1, <1>2, <2>2 DEF Types, Join
<1>3. CASE StartBar
  BY <1>1, <1>3 DEF Types, StartBar, Bar, MinuteBar, Tick
<1> QED BY <1>2, <1>3

(* A bar that was whole stays so when a tick of the present minute comes.  *)
LEMMA WholeStays ==
  ASSUME Types, NEW s \in Symbols, NEW bar \in MinuteBar, Whole(s, bar),
         \A t \in ticks[s] : t.min <= minute,
         \/ ticks'[s] = ticks[s]
         \/ \E t \in Tick : t.min = minute /\ ticks'[s] = ticks[s] \cup {t}
  PROVE  Whole(s, bar)'
<1>1. PICK t \in ticks[s] : t.min > bar.min
  BY DEF Whole
<1>2. t.min \in Nat /\ bar.min \in Nat /\ minute \in Nat /\ t.min <= minute
  BY DEF Types, RedisTyped, Tick, MinuteBar
<1>3. minute > bar.min /\ minute # bar.min
  BY <1>1, <1>2
<1>4. t \in ticks'[s]
  OBVIOUS
<1>5. OfMinute(s, bar.min)' = OfMinute(s, bar.min)
  BY <1>3 DEF OfMinute
<1> QED BY <1>1, <1>4, <1>5 DEF Whole

(* BarInv reads nothing but these.                                         *)
LEMMA BarSame ==
  ASSUME Types, BarInv, UNCHANGED <<ticks, forming, sdk>>, minute' \in Nat, minute' >= minute,
         \A s \in Symbols : finalized'[s] \in {None, finalized[s]},
         \A s \in Symbols : redis'["last_bar"][s] \in {finalized[s], redis["last_bar"][s]}
  PROVE  BarInv'
<1> SUFFICES ASSUME NEW s \in Symbols PROVE BarsOf(s)'
  BY DEF BarInv
<1>1. \A t \in ticks[s] : t.min <= minute'
  BY DEF Types, RedisTyped, BarInv, BarsOf, Tick
<1>2. forming[s] # None => forming[s].min <= minute'
  BY DEF Types, RedisTyped, BarInv, BarsOf, MinuteBar
<1>3. Joined(s)' = Joined(s) /\ Joining(s)' = Joining(s)
  BY DEF Joined, Joining
<1>4. \A bar : Whole(s, bar)' = Whole(s, bar)
  BY DEF Whole, OfMinute
<1> QED BY <1>1, <1>2, <1>3, <1>4 DEF BarInv, BarsOf

(* BarInv is inductive.                                                    *)
LEMMA BarStep ==
  ASSUME Types, Types', \A s \in Symbols : IsFiniteSet(ticks[s]), WakeInv, BarInv,
         ShownInv, TickNext
  PROVE  BarInv'
<1>1. ASSUME NEW r \in Symbols, Latest(r) PROVE BarInv'
  <2> DEFINE new == [min |-> minute, no |-> Cardinality(ticks[r]) + 1]
  <2>1. /\ new \in Tick /\ new.min = minute
        /\ ticks'[r] = ticks[r] \cup {new} /\ \A s \in Symbols \ {r} : ticks'[s] = ticks[s]
        /\ sdk = Ready /\ sdk' = [pc |-> "bar", sym |-> r, tick |-> new]
        /\ UNCHANGED <<minute, forming, finalized, redis>>
    BY <1>1, NewTick DEF Types, RedisTyped, Latest, Ready
  <2>2. new \notin ticks[r]
    <3>1. new.no = Cardinality(ticks[r]) + 1 /\ Cardinality(ticks[r]) \in Nat
      BY FS_CardinalityType
    <3>2. \A t \in ticks[r] : t.no <= Cardinality(ticks[r])
      BY DEF ShownInv, ShownOf
    <3> QED BY <3>1, <3>2
  <2> HIDE DEF new
  <2>3. \A s \in Symbols : Joined(s)' = Joined(s) /\ ~Joining(s)
    BY <2>1, <2>2 DEF Joined, Joining, Ready
  <2>4. ASSUME NEW s \in Symbols, NEW bar \in MinuteBar, Whole(s, bar) PROVE Whole(s, bar)'
    BY <2>1, <2>4, WholeStays DEF BarInv, BarsOf
  <2>5. ASSUME NEW s \in Symbols PROVE BarsOf(s)'
    <3>1. /\ finalized[s] \in MinuteBar \cup {None} /\ forming[s] \in MinuteBar \cup {None}
      BY DEF Types, RedisTyped, RedisTyped
    <3>2. redis["last_bar"][s] # None =>
            redis["last_bar"][s] \in MinuteBar /\ Whole(s, redis["last_bar"][s])
      BY DEF BarInv, BarsOf, Types, RedisTyped
    <3>3. \A t \in ticks'[s] : t.min <= minute'
      BY <2>1 DEF BarInv, BarsOf, Types
    <3>4. Joining(s)' => s = r /\ sdk'.tick = new /\ sdk'.pc = "bar"
      BY <2>1 DEF Joining
    <3> QED BY <2>1, <2>3, <2>4, <3>1, <3>2, <3>3, <3>4 DEF BarInv, BarsOf
  <2> QED BY <2>5 DEF BarInv
<1>2. CASE Join
  <2> PICK r \in Symbols : r = sdk.sym
    BY <1>2 DEF Types, RedisTyped, Join, HandOver, StartBar, Ready
  <2>1. /\ sdk.tick \in Tick /\ forming[r] \in MinuteBar /\ sdk.pc = "bar"
        /\ forming[r].min = sdk.tick.min /\ Joining(r)
    BY <1>2 DEF Types, RedisTyped, Join, Same, Joining, Ready
  <2>2. /\ forming'[r].ticks = forming[r].ticks \cup {sdk.tick} /\ forming'[r].min = forming[r].min
        /\ \A s \in Symbols \ {r} : forming'[s] = forming[s]
        /\ sdk'.pc = "wake" /\ UNCHANGED <<minute, ticks, finalized, redis>>
    BY <1>2, <2>1 DEF Types, RedisTyped, Join, MinuteBar
  <2>3. \A s \in Symbols : Joined(s)' = IF s = r THEN Joined(s) \cup {sdk.tick} ELSE Joined(s)
    BY <2>1, <2>2 DEF Joined, Joining, BarInv, BarsOf
  <2>4. \A s \in Symbols : \A bar : Whole(s, bar)' = Whole(s, bar)
    BY <2>2 DEF Whole, OfMinute
  <2>5. \A s \in Symbols : ~Joining(s)'
    BY <2>2 DEF Joining
  <2>6. BarsOf(r)'
    <3>1. forming[r] # None /\ forming'[r] # None
      BY <1>2, <2>1, NewBar, TickAssumption
    <3>2. forming'[r].ticks = {t \in Joined(r)' : t.min = forming'[r].min}
      BY <2>1, <2>2, <2>3, <3>1 DEF BarInv, BarsOf
    <3>3. \A t \in Joined(r)' : t.min <= forming'[r].min
      <4>1. forming[r].min \in Nat
        BY <2>1 DEF MinuteBar
      <4>2. sdk.tick.min <= forming'[r].min
        BY <2>1, <2>2, <4>1
      <4> QED BY <2>1, <2>2, <2>3, <3>1, <4>2 DEF BarInv, BarsOf
    <3>4. forming'[r].min <= minute'
      BY <2>1, <2>2, <3>1 DEF BarInv, BarsOf
    <3> QED BY <2>1, <2>2, <2>4, <2>5, <3>1, <3>2, <3>3, <3>4 DEF BarInv, BarsOf
  <2>7. \A s \in Symbols \ {r} : BarsOf(s)'
    BY <2>1, <2>2, <2>3, <2>4, <2>5 DEF BarInv, BarsOf
  <2> QED BY <2>6, <2>7 DEF BarInv
<1>3. CASE HandOver
  <2> PICK r \in Symbols : r = sdk.sym
    BY <1>3 DEF Types, RedisTyped, Join, HandOver, StartBar, Ready
  <2>1. /\ sdk.tick \in Tick /\ sdk.pc = "bar" /\ Joining(r)
        /\ sdk' = [sdk EXCEPT !.pc = "fresh"] /\ UNCHANGED <<minute, ticks, forming, redis>>
        /\ forming[r] # None => forming[r] \in MinuteBar /\ forming[r].min # sdk.tick.min
    BY <1>3 DEF Types, RedisTyped, HandOver, Same, Joining, Ready
  <2>2. sdk'.pc = "fresh" /\ sdk'.sym = r /\ sdk'.tick = sdk.tick
    BY <1>3, <2>1 DEF Types, RedisTyped, Ready
  <2>3. \A s \in Symbols : Joining(s)' = Joining(s) /\ Joined(s)' = Joined(s)
    BY <2>1, <2>2 DEF Joining, Joined
  <2>4. \A s \in Symbols : \A bar : Whole(s, bar)' = Whole(s, bar)
    BY <2>1 DEF Whole, OfMinute
  <2>5. \A s \in Symbols : \/ finalized'[s] = finalized[s]
                           \/ s = r /\ finalized'[s] = forming[s] /\ forming[s] # None
    BY <1>3 DEF Types, HandOver
  <2>6. forming[r] # None => Whole(r, forming[r])
    <3> SUFFICES ASSUME forming[r] # None PROVE Whole(r, forming[r])
      OBVIOUS
    <3>1. forming[r].min < sdk.tick.min /\ sdk.tick \in ticks[r]
      BY <2>1 DEF BarInv, BarsOf, MinuteBar, Tick
    <3>2. forming[r].ticks = OfMinute(r, forming[r].min)
      BY <2>1, <3>1 DEF BarInv, BarsOf, Joined, OfMinute
    <3> QED BY <2>1, <3>1, <3>2 DEF Whole, MinuteBar, Tick
  <2> QED BY <2>1, <2>2, <2>3, <2>4, <2>5, <2>6 DEF BarInv, BarsOf, Joining
<1>4. CASE StartBar
  <2> PICK r \in Symbols : r = sdk.sym
    BY <1>4 DEF Types, RedisTyped, Join, HandOver, StartBar, Ready
  <2>1. /\ sdk.tick \in Tick /\ sdk.pc = "fresh" /\ Joining(r)
    BY <1>4 DEF Types, RedisTyped, StartBar, Joining, Ready
  <2>2. /\ forming'[r] = Bar(sdk.tick.min, {sdk.tick})
        /\ \A s \in Symbols \ {r} : forming'[s] = forming[s]
        /\ sdk'.pc = "wake" /\ UNCHANGED <<minute, ticks, finalized, redis>>
    BY <1>4, <2>1 DEF Types, RedisTyped, StartBar
  <2>3. \A s \in Symbols : Joined(s)' = IF s = r THEN Joined(s) \cup {sdk.tick} ELSE Joined(s)
    BY <2>1, <2>2 DEF Joined, Joining, BarInv, BarsOf
  <2>4. \A s \in Symbols : \A bar : Whole(s, bar)' = Whole(s, bar)
    BY <2>2 DEF Whole, OfMinute
  <2>5. \A s \in Symbols : ~Joining(s)'
    BY <2>2 DEF Joining
  <2>6. forming'[r].min = sdk.tick.min /\ forming'[r].ticks = {sdk.tick}
    BY <2>2 DEF Bar
  <2>7. \A t \in Joined(r) : t.min < sdk.tick.min
    <3>1. CASE forming[r] = None
      BY <2>1, <3>1 DEF BarInv, BarsOf
    <3>2. CASE forming[r] # None
      <4>1. forming[r].min < sdk.tick.min
        <5>1. forming[r].min \in Nat /\ sdk.tick.min \in Nat
          BY <2>1, <3>2 DEF Types, MinuteBar, Tick
        <5>2. forming[r].min <= sdk.tick.min /\ forming[r].min # sdk.tick.min
          BY <2>1, <3>2 DEF BarInv, BarsOf
        <5> QED BY <5>1, <5>2
      <4>2. \A t \in Joined(r) : t.min \in Nat /\ t.min <= forming[r].min
        BY <2>1, <3>2 DEF BarInv, BarsOf, Joined, Types, Tick
      <4> QED BY <2>1, <3>2, <4>1, <4>2 DEF Types, RedisTyped, MinuteBar, Tick
    <3> QED BY <3>1, <3>2
  <2>8. BarsOf(r)'
    <3>1. Joined(r)' = Joined(r) \cup {sdk.tick} /\ sdk.tick.min \in Nat
      BY <2>1, <2>3 DEF Tick
    <3>2. forming'[r].ticks = {t \in Joined(r)' : t.min = forming'[r].min}
      BY <2>6, <2>7, <3>1
    <3>3. \A t \in Joined(r)' : t.min <= forming'[r].min
      BY <2>6, <2>7, <3>1 DEF Joined, Types, Tick
    <3>4. forming'[r].min <= minute' /\ \A t \in ticks'[r] : t.min <= minute'
      BY <2>1, <2>2, <2>6 DEF BarInv, BarsOf
    <3>5. forming'[r] # None
      BY <2>1, <2>2, TickAssumption DEF Bar, MinuteBar, Tick
    <3> QED BY <2>1, <2>2, <2>4, <2>5, <3>2, <3>3, <3>4, <3>5 DEF BarInv, BarsOf
  <2>9. \A s \in Symbols \ {r} : BarsOf(s)'
    BY <2>1, <2>2, <2>3, <2>4, <2>5 DEF BarInv, BarsOf
  <2> QED BY <2>8, <2>9 DEF BarInv
<1>5. CASE Wake
  <2>1. \A s \in Symbols : Joined(s)' = Joined(s) /\ Joining(s)' = Joining(s)
    BY <1>5 DEF Joined, Joining, Wake, Ready, tables
  <2>2. \A s \in Symbols : \A bar : Whole(s, bar)' = Whole(s, bar)
    BY <1>5 DEF Whole, OfMinute, Wake
  <2> QED BY <1>5, <2>1, <2>2 DEF BarInv, BarsOf, Wake, tables, Joining
<1>6. CASE \/ SetEvent \/ Begin \/ Turn \/ Rest \/ TickMinute
           \/ \E s \in Symbols : Throttle(s) \/ Cool(s)
  BY <1>6, BarSame
     DEF Types, RedisTyped, SetEvent, Begin, Turn, Rest, TickMinute, Throttle, Cool, tables
<1>7. ASSUME NEW ok \in BOOLEAN, NEW r \in Symbols, WriteFinal(r, ok) PROVE BarInv'
  BY <1>7, BarSame DEF Types, RedisTyped, WriteFinal, SetEx, Keys
<1>8. ASSUME NEW ok \in BOOLEAN, NEW r \in Symbols, WriteTick(r, ok) PROVE BarInv'
  BY <1>8, BarSame DEF Types, RedisTyped, WriteTick, SetEx, Keys
<1>9. ASSUME NEW ok \in BOOLEAN, WriteForming(ok) PROVE BarInv'
  <2>1. consumer.sym \in Symbols
    BY <1>9 DEF Types, RedisTyped, WriteForming
  <2> QED BY <1>9, <2>1, BarSame DEF Types, RedisTyped, WriteForming, SetEx, Keys, tables
<1> QED BY <1>1, <1>2, <1>3, <1>4, <1>5, <1>6, <1>7, <1>8, <1>9 DEF TickNext

-----------------------------------------------------------------------------
(* What is shown.                                                          *)

(* ShownInv holds at the start.                                            *)
LEMMA ShownInit == ASSUME TickInit PROVE ShownInv
<1>1. IsFiniteSet({}) /\ Cardinality({}) = 0
  BY FS_EmptySet
<1> QED BY <1>1 DEF TickInit, ShownInv, ShownOf, Ready, Joining, Keys, Consumed

(* One tick more is the newest.                                            *)
LEMMA NewestOf ==
  ASSUME Types, NEW r \in Symbols, ShownOf(r), NEW new,
         new = [min |-> minute, no |-> Cardinality(ticks[r]) + 1],
         ticks'[r] = ticks[r] \cup {new}
  PROVE  /\ IsFiniteSet(ticks'[r]) /\ Cardinality(ticks'[r]) = Cardinality(ticks[r]) + 1
         /\ Cardinality(ticks[r]) \in Nat /\ new.no = Cardinality(ticks'[r]) /\ new \notin ticks[r]
<1>1. new.no = Cardinality(ticks[r]) + 1 /\ Cardinality(ticks[r]) \in Nat
  BY FS_CardinalityType DEF ShownOf
<1>2. new \notin ticks[r]
  BY <1>1 DEF ShownOf
<1>3. IsFiniteSet(ticks'[r]) /\ Cardinality(ticks'[r]) = Cardinality(ticks[r]) + 1
  BY <1>2, FS_AddElement DEF ShownOf
<1> QED BY <1>1, <1>2, <1>3 DEF NewestTick

(* ShownOf reads nothing but these.                                        *)
LEMMA ShownSame ==
  ASSUME NEW s \in Symbols, ShownOf(s), ticks'[s] = ticks[s],
         Joining(s)' => Joining(s) /\ sdk'.tick = sdk.tick,
         forming'[s] = None => forming[s] = None,
         latest'[s] = latest[s] \/ (latest'[s] = None /\ s \in dropped'),
         s \in dropped => s \in dropped',
         redis'["ltp"][s] = redis["ltp"][s],
         redis'["forming_bar"][s] = redis["forming_bar"][s],
         (consumer.pc = "forming" /\ consumer.sym = s)
           <=> (consumer.pc = "forming" /\ consumer.sym = s)'
  PROVE  ShownOf(s)'
<1>1. \A t : NewestTick(s, t)' = NewestTick(s, t)
  BY DEF NewestTick
<1> QED BY <1>1 DEF ShownOf, Consumed

(* ShownInv is inductive.                                                  *)
LEMMA ShownStep ==
  ASSUME Types, Types', BarInv, ShownInv, TickNext
  PROVE  ShownInv'
<1> USE DEF ShownInv
<1>1. ASSUME NEW r \in Symbols, Latest(r) PROVE ShownInv'
  <2> PICK new : new = [min |-> minute, no |-> Cardinality(ticks[r]) + 1]
    OBVIOUS
  <2>1. /\ ticks'[r] = ticks[r] \cup {new} /\ \A s \in Symbols \ {r} : ticks'[s] = ticks[s]
        /\ latest'[r] = new /\ \A s \in Symbols \ {r} : latest'[s] = latest[s]
        /\ sdk = Ready /\ sdk' = [pc |-> "bar", sym |-> r, tick |-> new]
        /\ UNCHANGED <<forming, redis, dropped, consumer>>
    BY <1>1 DEF Types, Latest
  <2>2. /\ IsFiniteSet(ticks'[r]) /\ Cardinality(ticks'[r]) = Cardinality(ticks[r]) + 1
        /\ Cardinality(ticks[r]) \in Nat /\ new.no = Cardinality(ticks'[r]) /\ new \notin ticks[r]
    BY <2>1, NewestOf
  <2>3. new # None
    BY <2>2, NewTick, TickAssumption DEF ShownOf
  <2>4. ShownOf(r)'
    <3>1. \A t \in ticks'[r] : t.no <= Cardinality(ticks'[r])
      BY <2>1, <2>2 DEF ShownOf, Types, Tick, NewestTick
    <3>2. \A t, u \in ticks'[r] : t.no = u.no => t = u
      <4>1. \A t \in ticks[r] : t.no # new.no
        BY <2>1, <2>2 DEF ShownOf, Types, Tick, NewestTick
      <4> QED BY <2>1, <4>1 DEF ShownOf
    <3>3. NewestTick(r, sdk.tick)' /\ NewestTick(r, latest[r])'
      BY <2>1, <2>2 DEF NewestTick
    <3>4. ~Consumed(r)'
      BY <2>1, <2>3 DEF Consumed
    <3>5. redis'["forming_bar"][r] # None => forming'[r] # None
      BY <2>1 DEF ShownOf
    <3> QED BY <2>2, <3>1, <3>2, <3>3, <3>4, <3>5 DEF ShownOf
  <2>5. \A s \in Symbols \ {r} : ShownOf(s)'
    BY <2>1, ShownSame DEF Joining
  <2> QED BY <2>4, <2>5
<1>2. CASE Join \/ StartBar
  <2>1. sdk'.pc = "wake" /\ \A s \in Symbols : forming[s] # None => forming'[s] # None
    <3>1. sdk'.pc = "wake"
      BY <1>2 DEF Join, StartBar, Types, Ready
    <3>2. \A s \in Symbols : s # sdk.sym => forming'[s] = forming[s]
      BY <1>2 DEF Join, StartBar, Types
    <3> QED BY <1>2, <3>1, <3>2, NewBar, TickAssumption
  <2> QED BY <1>2, <2>1, ShownSame DEF Join, StartBar, Joining
<1>3. CASE HandOver
  <2>1. sdk'.sym = sdk.sym /\ sdk'.tick = sdk.tick /\ sdk.pc = "bar"
    BY <1>3 DEF HandOver, Types, Ready
  <2> QED BY <1>3, <2>1, ShownSame DEF HandOver, Joining
<1>4. CASE Wake
  BY <1>4, ShownSame DEF Wake, Joining, Ready, tables
<1>5. CASE SetEvent \/ TickMinute \/ \E s \in Symbols : Cool(s)
  BY <1>5, ShownSame DEF SetEvent, TickMinute, Cool, Joining, tables
<1>6. CASE Begin \/ Turn \/ Rest
  BY <1>6, ShownSame DEF Begin, Turn, Rest, Joining, tables, Sleep
<1>7. ASSUME NEW ok \in BOOLEAN, NEW r \in Symbols, WriteFinal(r, ok) PROVE ShownInv'
  <2>1. redis'["ltp"] = redis["ltp"] /\ redis'["forming_bar"] = redis["forming_bar"]
    BY <1>7 DEF WriteFinal, SetEx, Types, RedisTyped, Keys
  <2>2. consumer'.pc = "final" /\ consumer.pc = "final"
    BY <1>7 DEF WriteFinal, Types
  <2> QED BY <1>7, <2>1, <2>2, ShownSame DEF WriteFinal, Joining
<1>8. ASSUME NEW ok \in BOOLEAN, NEW r \in Symbols, WriteTick(r, ok) PROVE ShownInv'
  <2>1. /\ latest'[r] = None /\ \A s \in Symbols \ {r} : latest'[s] = latest[s]
        /\ consumer'.pc = "forming" /\ consumer'.sym = r /\ consumer.pc = "latest"
        /\ UNCHANGED <<ticks, forming, sdk>>
        /\ \A s \in Symbols \ {r} : s \in dropped <=> s \in dropped'
        /\ ok \/ r \in dropped'
    BY <1>8 DEF WriteTick, Types
  <2>2. /\ \A s \in Symbols : redis'["forming_bar"][s] = redis["forming_bar"][s]
        /\ \A s \in Symbols \ {r} : redis'["ltp"][s] = redis["ltp"][s]
        /\ ok => redis'["ltp"][r] = latest[r]
    BY <1>8 DEF WriteTick, SetEx, Types, RedisTyped, Keys
  <2>3. ShownOf(r)'
    <3>1. \A t : NewestTick(r, t)' = NewestTick(r, t)
      BY <2>1 DEF NewestTick
    <3> QED BY <2>1, <2>2, <3>1 DEF ShownOf, Consumed, Joining
  <2>4. \A s \in Symbols \ {r} : ShownOf(s)'
    BY <2>1, <2>2, ShownSame DEF Joining
  <2> QED BY <2>3, <2>4
<1>9. ASSUME NEW ok \in BOOLEAN, WriteForming(ok) PROVE ShownInv'
  <2> PICK r \in Symbols : r = consumer.sym
    BY <1>9 DEF WriteForming, Types
  <2>1. /\ consumer.pc = "forming" /\ consumer'.pc = "latest"
        /\ UNCHANGED <<ticks, latest, forming, sdk>>
        /\ \A s \in Symbols : s \in dropped => s \in dropped'
        /\ ok \/ r \in dropped'
    BY <1>9 DEF WriteForming, Types, tables
  <2>2. /\ \A s \in Symbols : redis'["ltp"][s] = redis["ltp"][s]
        /\ \A s \in Symbols \ {r} : redis'["forming_bar"][s] = redis["forming_bar"][s]
        /\ redis'["forming_bar"][r] = IF ok /\ forming[r] # None THEN forming[r]
                                      ELSE redis["forming_bar"][r]
    BY <1>9 DEF WriteForming, SetEx, Types, RedisTyped, Keys
  <2>3. ASSUME ok, forming[r] # None, NEW t \in ticks[r], t.min >= forming[r].min,
               t \notin forming[r].ticks
        PROVE  NewestTick(r, t)
    <3>1. t \notin Joined(r)
      <4> SUFFICES ASSUME t \in Joined(r) PROVE FALSE
        OBVIOUS
      <4>1. t.min <= forming[r].min /\ t.min # forming[r].min
        BY <2>3 DEF BarInv, BarsOf
      <4>2. t.min \in Nat /\ forming[r].min \in Nat
        BY <2>3 DEF Types, Tick, MinuteBar
      <4> QED BY <2>3, <4>1, <4>2
    <3> QED BY <3>1 DEF Joined, ShownOf
  <2>4. ShownOf(r)'
    <3>1. \A t : NewestTick(r, t)' = NewestTick(r, t)
      BY <2>1 DEF NewestTick
    <3> QED BY <2>1, <2>2, <2>3, <3>1 DEF ShownOf, Consumed, Joining
  <2>5. \A s \in Symbols \ {r} : ShownOf(s)'
    BY <2>1, <2>2, ShownSame DEF Joining
  <2> QED BY <2>4, <2>5
<1>10. ASSUME NEW r \in Symbols, Throttle(r) PROVE ShownInv'
  <2>1. \A s \in Symbols : latest'[s] = latest[s] \/ (latest'[s] = None /\ s \in dropped')
    BY <1>10 DEF Throttle, Types
  <2>2. consumer'.pc = "latest" /\ consumer.pc = "latest"
    BY <1>10 DEF Throttle, Types
  <2> QED BY <1>10, <2>1, <2>2, ShownSame DEF Throttle, Joining
<1> QED BY <1>1, <1>2, <1>3, <1>4, <1>5, <1>6, <1>7, <1>8, <1>9, <1>10 DEF TickNext

-----------------------------------------------------------------------------
(* The theorems.                                                           *)

Inv == Types /\ WakeInv /\ BarInv /\ ShownInv

(* The four are inductive.                                                 *)
LEMMA InvStep == Inv /\ [TickNext]_tickVars => Inv'
<1> SUFFICES ASSUME Inv, [TickNext]_tickVars PROVE Inv'
  OBVIOUS
<1>1. CASE UNCHANGED tickVars
  BY <1>1 DEF Inv, tickVars, tables, Types, RedisTyped, WakeInv, Coming, BarInv, BarsOf, Joining,
     Joined, Whole, OfMinute, ShownInv, ShownOf, Consumed, NewestTick
<1>2. CASE TickNext
  <2>0. \A s \in Symbols : IsFiniteSet(ticks[s])
    BY DEF Inv, ShownInv, ShownOf
  <2>1. Types'
    BY <1>2, <2>0, SdkTypes, LoopTypes DEF Inv, TickNext
  <2> QED BY <1>2, <2>0, <2>1, WakeStep, BarStep, ShownStep DEF Inv
<1> QED BY <1>1, <1>2

(* What the properties say follows from them.                              *)
LEMMA InvKept == Inv => TicksKept
<1> SUFFICES ASSUME Inv PROVE TicksKept
  OBVIOUS
<1>1. NothingLeft
  BY DEF Inv, WakeInv, NothingLeft, Asleep, Coming, Sleep
<1>2. LastBarComplete
  BY DEF Inv, BarInv, BarsOf, Whole, LastBarComplete
<1>3. FreshestShown
  <2> SUFFICES ASSUME Asleep, NEW s \in Symbols \ dropped
      PROVE /\ redis["ltp"][s] # None => \A t \in ticks[s] : t.no <= redis["ltp"][s].no
            /\ redis["forming_bar"][s] # None =>
                 Cardinality({t \in ticks[s] : t.min >= redis["forming_bar"][s].min}
                               \ redis["forming_bar"][s].ticks) <= 1
    BY DEF FreshestShown
  <2>1. Consumed(s) /\ consumer.pc # "forming"
    BY <1>1 DEF NothingLeft, Consumed, Asleep, Sleep
  <2>2. ShownOf(s)
    BY DEF Inv, ShownInv
  <2>3. redis["ltp"][s] # None => \A t \in ticks[s] : t.no <= redis["ltp"][s].no
    BY <2>1, <2>2 DEF ShownOf, NewestTick
  <2>4. ASSUME redis["forming_bar"][s] # None
        PROVE  Cardinality({t \in ticks[s] : t.min >= redis["forming_bar"][s].min}
                             \ redis["forming_bar"][s].ticks) <= 1
    <3> DEFINE behind == {t \in ticks[s] : t.min >= redis["forming_bar"][s].min}
                         \ redis["forming_bar"][s].ticks
    <3>1. \A t, u \in behind : t = u
      BY <2>1, <2>2, <2>4 DEF ShownOf, NewestTick
    <3>2. ASSUME behind = {} PROVE Cardinality(behind) <= 1
      <4>1. Cardinality({}) = 0
        BY FS_EmptySet
      <4> QED BY <3>2, <4>1
    <3>3. ASSUME NEW t \in behind PROVE Cardinality(behind) <= 1
      <4>1. behind = {t}
        BY <3>1
      <4>2. Cardinality({t}) = 1
        BY FS_Singleton
      <4> QED BY <4>1, <4>2
    <3> QED BY <3>2, <3>3
  <2> QED BY <2>3, <2>4
<1> QED BY <1>1, <1>2, <1>3 DEF TicksKept

(* TicksKept: although nothing is locked, a sleeping consumer has left no  *)
(* tick or bar behind, last_bar is the whole bar of a minute that is over, *)
(* and ltp is the newest tick unless that was throttled or its write       *)
(* failed (tick_feed.py:437, 465, 485).                                    *)
THEOREM TablesKept == TickSpec => []TicksKept
<1>1. TickInit => Inv
  BY TypesInit, WakeInit, BarInit, ShownInit DEF Inv
<1>2. Inv /\ [TickNext]_tickVars => Inv'
  BY InvStep
<1>3. Inv => TicksKept
  BY InvKept
<1> QED BY <1>1, <1>2, <1>3, PTL DEF TickSpec

-----------------------------------------------------------------------------
(* Support and resistance: touches in the order of their prices.           *)

LEMMA LeastNat ==
  ASSUME NEW S \in SUBSET Nat, S # {}
  PROVE  \E n \in S : \A m \in S : n <= m
<1>1. \E n \in S : \A m \in S : <<m, n>> \notin OpToRel(<, Nat)
  BY NatLessThanWellFounded, WFMin, Zenon
<1>2. \E n \in S : \A m \in S : ~(m < n)
  BY <1>1, Zenon DEF OpToRel
<1> QED BY <1>2

Touches == [price : Nat \ {0}, day : Nat, kind : {"HIGH", "LOW"}]

(* Sorting finds a first one.                                              *)
LEMMA CheapestIs ==
  ASSUME NEW S \in SUBSET Touches, S # {}
  PROVE  Cheapest(S) \in S /\ \A s \in S : Cheapest(S).price <= s.price
<1>1. PICK x \in S : \A s \in S : x.price <= s.price
  <2> DEFINE P == {s.price : s \in S}
  <2>1. P \in SUBSET Nat /\ P # {}
    BY DEF Touches
  <2>2. \E p \in P : \A q \in P : p <= q
    <3> HIDE DEF P
    <3> QED BY <2>1, LeastNat
  <2> QED BY <2>2
<1> DEFINE A == {s \in S : s.price = x.price}
           H == {s \in A : s.kind = "HIGH"}
           Best == IF H # {} THEN H ELSE A
<1>2. x \in A /\ Best # {} /\ Best \subseteq A
  OBVIOUS
<1>3. PICK t \in Best : \A s \in Best : t.day <= s.day
  <2> DEFINE D == {s.day : s \in Best}
  <2> HIDE DEF Best
  <2>1. D \in SUBSET Nat /\ D # {}
    BY <1>2 DEF Touches
  <2>2. \E p \in D : \A q \in D : p <= q
    <3> HIDE DEF D
    <3> QED BY <2>1, LeastNat
  <2> QED BY <2>2
<1>4. t \in S /\ t.price = x.price
  BY <1>2, <1>3
<1>5. ASSUME NEW s \in S, s # t PROVE Cheaper(t, s)
  <2>1. s \in Touches /\ t \in Touches
    BY <1>4
  <2>2. CASE s.price # t.price
    BY <1>1, <1>4, <2>1, <2>2 DEF Cheaper, Touches
  <2>3. CASE s.price = t.price /\ t.kind = "HIGH"
    <3>1. CASE s.kind = "HIGH"
      <4>1. t.day <= s.day
        BY <1>3, <1>4, <2>3, <3>1
      <4>2. t.day # s.day
        BY <1>5, <2>1, <2>3, <3>1 DEF Touches
      <4> QED BY <2>1, <2>3, <3>1, <4>1, <4>2 DEF Cheaper, Touches
    <3>2. CASE s.kind = "LOW"
      BY <2>3, <3>2 DEF Cheaper
    <3> QED BY <2>1, <3>1, <3>2 DEF Touches
  <2>4. CASE s.price = t.price /\ t.kind = "LOW"
    <3>1. H = {} /\ s \in A
      BY <1>3, <1>4, <2>4
    <3>2. s.kind = "LOW" /\ t.day <= s.day
      BY <1>3, <2>1, <3>1 DEF Touches
    <3>3. t.day # s.day
      BY <1>5, <2>1, <2>4, <3>2 DEF Touches
    <3> QED BY <2>1, <2>4, <3>2, <3>3 DEF Cheaper, Touches
  <2> QED BY <2>1, <2>2, <2>3, <2>4 DEF Touches
<1>6. Cheapest(S) \in S /\ \A s \in S \ {Cheapest(S)} : Cheaper(Cheapest(S), s)
  BY <1>4, <1>5, Zenon DEF Cheapest
<1>7. ASSUME NEW s \in S PROVE Cheapest(S).price <= s.price
  <2>1. s.price \in Nat /\ Cheapest(S).price \in Nat
    BY <1>6 DEF Touches
  <2>2. CASE s = Cheapest(S)
    BY <2>1, <2>2
  <2>3. CASE s # Cheapest(S)
    <3>1. Cheaper(Cheapest(S), s)
      BY <1>6, <2>3
    <3> QED BY <2>1, <3>1 DEF Cheaper
  <2> QED BY <2>2, <2>3
<1> QED BY <1>6, <1>7

LEMMA SwingsAre ==
  ASSUME NEW bars \in Seq(DayBars)
  PROVE  Swings(bars) \in SUBSET Touches /\ IsFiniteSet(Swings(bars))
<1>1. ASSUME NEW kind \in {"HIGH", "LOW"}
      PROVE  SwingsOf(bars, kind) \in SUBSET Touches /\ IsFiniteSet(SwingsOf(bars, kind))
  <2> DEFINE price(i) == IF kind = "HIGH" THEN bars[i].high ELSE bars[i].low
             touch(i) == [price |-> price(i), day |-> i, kind |-> kind]
  <2>1. Window \in Nat /\ Len(bars) \in Nat
    BY SrAssumption
  <2>2. SwingsOf(bars, kind) \subseteq {touch(i) : i \in 1..Len(bars)}
    <3>1. \A i \in (Window + 1)..(Len(bars) - Window) : i \in 1..Len(bars)
      BY <2>1
    <3> QED BY <3>1 DEF SwingsOf
  <2>3. ASSUME NEW i \in 1..Len(bars) PROVE touch(i) \in Touches
    <3>1. bars[i] \in DayBars
      OBVIOUS
    <3>2. bars[i] \in [high : Nat \ {0}, low : Nat \ {0}]
      BY <3>1, SrAssumption
    <3> QED BY <3>2 DEF Touches
  <2>4. SwingsOf(bars, kind) \in SUBSET Touches
    BY <2>2, <2>3
  <2>5. IsFiniteSet(1..Len(bars))
    BY <2>1, FS_Interval
  <2>6. IsFiniteSet({touch(i) : i \in 1..Len(bars)})
    <3> DEFINE f == [i \in 1..Len(bars) |-> touch(i)]
    <3>1. {touch(i) : i \in 1..Len(bars)} = {f[i] : i \in 1..Len(bars)}
      OBVIOUS
    <3>2. f \in Surjection(1..Len(bars), {f[i] : i \in 1..Len(bars)})
      BY DEF Surjection
    <3>3. IsFiniteSet({f[i] : i \in 1..Len(bars)})
      BY <2>5, <3>2, FS_Surjection
    <3> QED BY <3>1, <3>3
  <2> QED BY <2>2, <2>4, <2>6, FS_Subset
<1> QED BY <1>1, FS_Union DEF Swings

-----------------------------------------------------------------------------
(* The zones.                                                              *)

ZoneSet == [sum : Nat \ {0}, strength : Nat \ {0}, highs : Nat, first : Nat, last : Nat]

(* Zones found in touches up to a price, top: between any two of them lies *)
(* a price that is above the level of one and not above that of the other. *)
Apart(zones, top) ==
  /\ zones \in Seq(ZoneSet)
  /\ \A i \in DOMAIN zones : zones[i].sum <= top * zones[i].strength
  /\ \A i, j \in DOMAIN zones : i < j =>
       \E q \in Nat : /\ q <= top /\ zones[i].sum < q * zones[i].strength
                      /\ q * zones[j].strength <= zones[j].sum

LEMMA StartIs == ASSUME NEW t \in Touches PROVE Start(t) \in ZoneSet
BY DEF Start, HighOf, Touches, ZoneSet

LEMMA WidenIs == ASSUME NEW z \in ZoneSet, NEW t \in Touches PROVE Widen(z, t) \in ZoneSet
<1>1. /\ z.sum \in Nat \ {0} /\ z.strength \in Nat \ {0} /\ z.highs \in Nat
      /\ z.first \in Nat /\ z.last \in Nat /\ t.price \in Nat \ {0} /\ t.day \in Nat
  BY DEF ZoneSet, Touches
<1>2. \A a, b \in Nat : Min({a, b}) \in Nat /\ Max({a, b}) \in Nat
  <2> TAKE a, b \in Nat
  <2>1. \E x \in {a, b} : \A y \in {a, b} : x <= y
    <3>1. CASE a <= b
      BY <3>1
    <3>2. CASE b <= a
      BY <3>2
    <3> QED BY <3>1, <3>2
  <2>2. \E x \in {a, b} : \A y \in {a, b} : x >= y
    <3>1. CASE a <= b
      BY <3>1
    <3>2. CASE b <= a
      BY <3>2
    <3> QED BY <3>1, <3>2
  <2>3. Min({a, b}) \in {a, b}
    BY <2>1 DEF Min
  <2>4. Max({a, b}) \in {a, b}
    BY <2>2 DEF Max
  <2> QED BY <2>3, <2>4
<1>3. HighOf(t) \in Nat
  BY DEF HighOf
<1>4. /\ z.sum + t.price \in Nat \ {0} /\ z.strength + 1 \in Nat \ {0}
      /\ z.highs + HighOf(t) \in Nat
      /\ Min({z.first, t.day}) \in Nat /\ Max({z.last, t.day}) \in Nat
  <2>1. /\ \A a, b \in Nat \ {0} : a + b \in Nat \ {0} /\ a + 1 \in Nat \ {0}
        /\ \A a, b \in Nat : a + b \in Nat
    OBVIOUS
  <2>2. Min({z.first, t.day}) \in Nat /\ Max({z.last, t.day}) \in Nat
    BY <1>1, <1>2
  <2> QED BY <1>1, <1>3, <2>1, <2>2
<1>5. Widen(z, t) = [sum |-> z.sum + t.price, strength |-> z.strength + 1,
                     highs |-> z.highs + HighOf(t),
                     first |-> Min({z.first, t.day}), last |-> Max({z.last, t.day})]
  BY DEF Widen
<1>6. \A s, n \in Nat \ {0} : \A h, f, l \in Nat :
        [sum |-> s, strength |-> n, highs |-> h, first |-> f, last |-> l] \in ZoneSet
  BY DEF ZoneSet
<1> QED BY <1>4, <1>5, <1>6

(* Products grow with their factors.                                       *)
LEMMA Times ==
  ASSUME NEW p \in Nat, NEW q \in Nat, NEW n \in Nat, p <= q
  PROVE  p * n \in Nat /\ q * n \in Nat /\ p * n <= q * n /\ p * (n + 1) = p * n + p
OBVIOUS

LEMMA AddTouchApart ==
  ASSUME NEW zones, NEW top \in Nat, Apart(zones, top), NEW t \in Touches, top <= t.price
  PROVE  Apart(AddTouch(t, zones), t.price)
<1> DEFINE p == t.price
           n == Len(zones)
           new == AddTouch(t, zones)
<1>1. p \in Nat \ {0} /\ zones \in Seq(ZoneSet) /\ n \in Nat /\ DOMAIN zones = 1..n
  BY DEF Touches, Apart
<1>2. \A i \in 1..n : /\ zones[i] \in ZoneSet
                      /\ zones[i].sum \in Nat \ {0} /\ zones[i].strength \in Nat \ {0}
  <2>1. \A i \in 1..n : zones[i] \in ZoneSet
    BY <1>1
  <2>2. \A z \in ZoneSet : z.sum \in Nat \ {0} /\ z.strength \in Nat \ {0}
    BY DEF ZoneSet
  <2> QED BY <2>1, <2>2
<1>3. ASSUME NEW i \in 1..n
      PROVE  zones[i].sum <= p * zones[i].strength /\ p * zones[i].strength \in Nat
  <2>1. zones[i].sum <= top * zones[i].strength
    BY <1>1 DEF Apart
  <2>2. /\ top * zones[i].strength \in Nat /\ p * zones[i].strength \in Nat
        /\ top * zones[i].strength <= p * zones[i].strength
    BY <1>1, <1>2, Times
  <2> DEFINE a == top * zones[i].strength
             b == p * zones[i].strength
  <2> HIDE DEF a, b
  <2>3. zones[i].sum <= a /\ a <= b /\ a \in Nat /\ b \in Nat
    BY <2>1, <2>2 DEF a, b
  <2>4. zones[i].sum <= b
    BY <1>2, <2>3
  <2> QED BY <2>3, <2>4 DEF b
<1>4. ASSUME NEW i \in 1..n, NEW j \in 1..n, i < j
      PROVE  \E q \in Nat : /\ q <= p /\ q <= top /\ zones[i].sum < q * zones[i].strength
                            /\ q * zones[j].strength <= zones[j].sum
  <2>1. PICK q \in Nat : /\ q <= top /\ zones[i].sum < q * zones[i].strength
                         /\ q * zones[j].strength <= zones[j].sum
    BY <1>1, <1>4 DEF Apart
  <2>2. q <= p
    BY <1>1, <2>1
  <2> QED BY <2>1, <2>2
<1>5. CASE zones # <<>> /\ Near(t, zones[n])
  <2> DEFINE z == zones[n]
  <2>1. n \in 1..n /\ z \in ZoneSet
    BY <1>1, <1>2, <1>5, EmptySeq
  <2>2. new = [zones EXCEPT ![n] = Widen(zones[n], t)]
    BY <1>5 DEF AddTouch
  <2>3. Widen(z, t) \in ZoneSet
    BY <2>1, WidenIs
  <2>4. /\ new \in Seq(ZoneSet) /\ DOMAIN new = 1..n /\ new[n] = Widen(z, t)
        /\ \A i \in 1..n : i # n => new[i] = zones[i]
    BY <1>1, <2>1, <2>2, <2>3
  <2> HIDE DEF new
  <2>5. new[n].sum = z.sum + p /\ new[n].strength = z.strength + 1
    BY <2>4 DEF Widen
  <2>6. ASSUME NEW i \in 1..n PROVE new[i].sum <= p * new[i].strength
    <3>1. CASE i # n
      BY <1>3, <2>4, <3>1
    <3>2. CASE i = n
      <4>1. p * (z.strength + 1) = p * z.strength + p
        <5>1. z.strength \in Nat /\ p \in Nat /\ p <= p
          BY <1>1, <1>2, <2>1
        <5> HIDE DEF p, z
        <5> QED BY <5>1, Times
      <4>2. z.sum <= p * z.strength /\ p * z.strength \in Nat /\ z.sum \in Nat
        BY <1>2, <1>3, <2>1
      <4> DEFINE a == p * z.strength
                 b == p * (z.strength + 1)
      <4> HIDE DEF a, b, z
      <4>3. b = a + p /\ z.sum <= a /\ a \in Nat /\ z.sum \in Nat
        BY <4>1, <4>2 DEF a, b
      <4>4. z.sum + p <= b
        BY <1>1, <4>3
      <4> QED BY <2>5, <3>2, <4>4 DEF b
    <3> QED BY <3>1, <3>2
  <2>7. ASSUME NEW i \in 1..n, NEW j \in 1..n, i < j
        PROVE  \E q \in Nat : /\ q <= p /\ new[i].sum < q * new[i].strength
                              /\ q * new[j].strength <= new[j].sum
    <3>1. PICK q \in Nat : /\ q <= p /\ zones[i].sum < q * zones[i].strength
                           /\ q * zones[j].strength <= zones[j].sum
      BY <1>4, <2>7
    <3>2. new[i] = zones[i]
      <4>1. n \in Nat
        BY <1>1
      <4>2. i # n
        <5> HIDE DEF n
        <5> QED BY <2>7, <4>1
      <4> QED BY <2>4, <4>2
    <3>3. q * new[j].strength <= new[j].sum
      <4>1. CASE j # n
        BY <2>4, <3>1, <4>1
      <4>2. CASE j = n
        <5>1. q * (z.strength + 1) = q * z.strength + q /\ q * z.strength \in Nat
          BY <1>2, <2>1, Times
        <5>2. q * z.strength <= z.sum /\ z.sum \in Nat
          BY <1>2, <3>1, <4>2
        <5> DEFINE a == q * z.strength
                   b == q * (z.strength + 1)
        <5> HIDE DEF a, b, z
        <5>3. b = a + q /\ a <= z.sum /\ a \in Nat /\ z.sum \in Nat
          BY <5>1, <5>2 DEF a, b
        <5>4. b <= z.sum + p
          BY <1>1, <3>1, <5>3
        <5> QED BY <2>5, <4>2, <5>4 DEF b
      <4> QED BY <4>1, <4>2
    <3> QED BY <3>1, <3>2, <3>3
  <2>8. Apart(new, p)
    BY <2>4, <2>6, <2>7 DEF Apart
  <2> QED BY <2>8 DEF new
<1>6. CASE ~(zones # <<>> /\ Near(t, zones[n]))
  <2>1. new = Append(zones, Start(t))
    BY <1>6 DEF AddTouch
  <2>2. Start(t) \in ZoneSet
    BY StartIs
  <2>3. /\ new \in Seq(ZoneSet) /\ DOMAIN new = 1..(n + 1) /\ new[n + 1] = Start(t)
        /\ \A i \in 1..n : new[i] = zones[i]
    BY <1>1, <2>1, <2>2
  <2> HIDE DEF new
  <2>4. new[n + 1].sum = p /\ new[n + 1].strength = 1
    BY <2>3 DEF Start
  <2>5. ASSUME NEW i \in 1..(n + 1) PROVE new[i].sum <= p * new[i].strength
    <3>1. CASE i \in 1..n
      BY <1>3, <2>3, <3>1
    <3>2. CASE i = n + 1
      BY <1>1, <2>4, <3>2
    <3> QED BY <1>1, <3>1, <3>2
  <2>6. ASSUME NEW i \in 1..n PROVE zones[i].sum < p * zones[i].strength
    <3>1. zones[i].sum <= p * zones[i].strength /\ p * zones[i].strength \in Nat
      BY <1>3
    <3>2. CASE i = n
      <4> DEFINE z == zones[n]
                 a == p * z.strength
                 gap == a - z.sum
                 bound == Tolerance * z.sum
      <4>1. zones # <<>>
        BY <3>2
      <4>2. ~((IF gap < 0 THEN -gap ELSE gap) * 100000 <= bound)
        BY <1>6, <4>1 DEF Near
      <4>3. z.sum \in Nat /\ bound \in Nat
        <5>1. z.sum \in Nat
          BY <1>2, <3>2
        <5>2. Tolerance \in Nat
          BY SrAssumption
        <5> QED BY <5>1, <5>2
      <4>4. a \in Nat /\ z.sum <= a
        BY <3>1, <3>2
      <4> HIDE DEF a, bound, z
      <4>5. z.sum # a
        BY <4>2, <4>3, <4>4
      <4>6. z.sum < a
        BY <4>3, <4>4, <4>5
      <4> QED BY <3>2, <4>6 DEF a, z
    <3>3. CASE i < n
      <4>1. n \in 1..n
        BY <1>1, <3>3
      <4>2. PICK q \in Nat : q <= p /\ zones[i].sum < q * zones[i].strength
        BY <1>4, <3>3, <4>1
      <4>3. q * zones[i].strength \in Nat /\ q * zones[i].strength <= p * zones[i].strength
        BY <1>1, <1>2, <4>2, Times
      <4> DEFINE a == q * zones[i].strength
                 b == p * zones[i].strength
      <4> HIDE DEF a, b
      <4>4. zones[i].sum < a /\ a <= b /\ a \in Nat /\ b \in Nat /\ zones[i].sum \in Nat
        BY <1>2, <3>1, <4>2, <4>3 DEF a, b
      <4>5. zones[i].sum < b
        BY <4>4
      <4> QED BY <4>5 DEF b
    <3>4. i = n \/ i < n
      <4>1. n \in Nat
        BY <1>1
      <4> HIDE DEF n
      <4> QED BY <4>1
    <3> QED BY <3>2, <3>3, <3>4
  <2>7. ASSUME NEW i \in 1..(n + 1), NEW j \in 1..(n + 1), i < j
        PROVE  \E q \in Nat : /\ q <= p /\ new[i].sum < q * new[i].strength
                              /\ q * new[j].strength <= new[j].sum
    <3>1. i \in 1..n /\ new[i] = zones[i]
      BY <1>1, <2>3, <2>7
    <3>2. CASE j \in 1..n
      BY <1>4, <2>3, <2>7, <3>1, <3>2
    <3>3. CASE j = n + 1
      <4>1. new[i].sum < p * new[i].strength
        BY <2>6, <3>1
      <4>2. p * new[j].strength <= new[j].sum
        BY <1>1, <2>4, <3>3
      <4> QED BY <1>1, <4>1, <4>2
    <3> QED BY <1>1, <3>2, <3>3
  <2>8. Apart(new, p)
    BY <2>3, <2>5, <2>7 DEF Apart
  <2> QED BY <2>8 DEF new
<1> QED BY <1>5, <1>6

(* The walk over the touches: one is taken at a time.                      *)
ClusterWalk(swings, walk) ==
  /\ walk[0] = [left |-> swings, zones |-> <<>>]
  /\ \A k \in 1..Cardinality(swings) : walk[k] = TakeNext(walk[k - 1])

LEMMA ClustersAre ==
  ASSUME NEW swings, Cardinality(swings) \in Nat
  PROVE  \E walk : ClusterWalk(swings, walk) /\ Clusters(swings) = walk[Cardinality(swings)].zones
<1> DEFINE n == Cardinality(swings)
           begin == [left |-> swings, zones |-> <<>>]
           At(f, k) == IF k = 0 THEN begin ELSE TakeNext(f[k - 1])
           walk == CHOOSE f : f = [k \in 0..n |-> At(f, k)]
           Upto(m) == \E f : f = [k \in 0..m |-> At(f, k)]
<1>1. n \in Nat
  OBVIOUS
<1>2. ASSUME NEW f, NEW g, NEW k, k # 0 => f[k - 1] = g[k - 1]
      PROVE  At(f, k) = At(g, k)
  <2>1. CASE k = 0
    BY <2>1
  <2>2. CASE k # 0
    BY <1>2, <2>2
  <2> QED BY <2>1, <2>2
<1>3. At(walk, 0) = begin /\ \A k \in 1..n : At(walk, k) = TakeNext(walk[k - 1])
  OBVIOUS
<1> HIDE DEF At
<1>4. Upto(n)
  <2> DEFINE Bad == {m \in 0..n : ~Upto(m)}
  <2> SUFFICES ASSUME Bad # {} PROVE FALSE
    BY <1>1
  <2>1. PICK m \in Bad : \A q \in Bad : m <= q
    <3>1. Bad \in SUBSET Nat
      OBVIOUS
    <3> HIDE DEF Bad
    <3> QED BY <3>1, LeastNat
  <2>2. m \in 0..n /\ ~Upto(m)
    BY <2>1
  <2>3. \E f : \A k \in 0..(m - 1) : f[k] = At(f, k)
    <3>1. CASE m = 0
      <4>1. 0..(m - 1) = {}
        BY <3>1
      <4> QED BY <4>1
    <3>2. CASE m > 0
      <4>1. m - 1 \in 0..n /\ ~(m <= m - 1)
        BY <1>1, <2>2, <3>2
      <4>2. PICK f : f = [k \in 0..(m - 1) |-> At(f, k)]
        BY <2>1, <4>1
      <4>3. \A k \in 0..(m - 1) : f[k] = At(f, k)
        BY <4>2
      <4> QED BY <4>3
    <3> QED BY <1>1, <2>2, <3>1, <3>2
  <2>4. PICK f : \A k \in 0..(m - 1) : f[k] = At(f, k)
    BY <2>3
  <2> DEFINE g == [k \in 0..m |-> IF k < m THEN f[k] ELSE At(f, m)]
  <2>5. \A k \in 0..m : g[k] = At(g, k)
    <3> SUFFICES ASSUME NEW k \in 0..m PROVE g[k] = At(g, k)
      OBVIOUS
    <3>1. k # 0 => g[k - 1] = f[k - 1]
      BY <1>1, <2>2
    <3>2. g[k] = At(f, k)
      BY <1>1, <2>2, <2>4
    <3> HIDE DEF g
    <3>3. At(g, k) = At(f, k)
      BY <1>2, <3>1
    <3> QED BY <3>2, <3>3
  <2>6. g = [k \in 0..m |-> g[k]]
    OBVIOUS
  <2>7. Upto(m)
    <3> HIDE DEF g
    <3>1. g = [k \in 0..m |-> At(g, k)]
      BY <2>5, <2>6
    <3> QED BY <3>1
  <2> QED BY <2>2, <2>7
<1>5. walk = [k \in 0..n |-> At(walk, k)]
  BY <1>4
<1> HIDE DEF walk
<1>6. \A k \in 0..n : walk[k] = At(walk, k)
  BY <1>5
<1>7. ClusterWalk(swings, walk)
  <2>1. 0 \in 0..n /\ \A k \in 1..n : k \in 0..n
    BY <1>1
  <2> QED BY <1>3, <1>6, <2>1 DEF ClusterWalk
<1>8. Clusters(swings) = walk[n].zones
  BY DEF Clusters, walk, At
<1> QED BY <1>7, <1>8

(* Before each touch is taken: those left are dearer than the zones' own.  *)
WalkOk(so) ==
  /\ so.left \in SUBSET Touches /\ IsFiniteSet(so.left)
  /\ \E top \in Nat : Apart(so.zones, top) /\ \A s \in so.left : top <= s.price

LEMMA TakeNextOk ==
  ASSUME NEW so, WalkOk(so), so.left # {}
  PROVE  /\ WalkOk(TakeNext(so))
         /\ Cardinality(TakeNext(so).left) = Cardinality(so.left) - 1
<1> DEFINE t == Cheapest(so.left)
           new == TakeNext(so)
<1>1. so.left \in SUBSET Touches /\ IsFiniteSet(so.left)
  BY DEF WalkOk
<1>2. PICK top \in Nat : Apart(so.zones, top) /\ \A s \in so.left : top <= s.price
  BY DEF WalkOk
<1>3. t \in so.left /\ \A s \in so.left : t.price <= s.price
  BY <1>1, CheapestIs
<1>4. new.left = so.left \ {t} /\ new.zones = AddTouch(t, so.zones)
  BY DEF TakeNext
<1> HIDE DEF t, new
<1>5. t \in Touches /\ top <= t.price /\ t.price \in Nat
  BY <1>1, <1>2, <1>3 DEF Touches
<1>6. Apart(new.zones, t.price)
  BY <1>2, <1>4, <1>5, AddTouchApart
<1>7. IsFiniteSet(new.left) /\ Cardinality(new.left) = Cardinality(so.left) - 1
  BY <1>1, <1>3, <1>4, FS_RemoveElement
<1>8. WalkOk(new)
  BY <1>1, <1>3, <1>4, <1>5, <1>6, <1>7 DEF WalkOk
<1> QED BY <1>7, <1>8 DEF new

LEMMA ClustersApart ==
  ASSUME NEW swings \in SUBSET Touches, IsFiniteSet(swings)
  PROVE  \E top \in Nat : Apart(Clusters(swings), top)
<1> DEFINE n == Cardinality(swings)
<1>1. n \in Nat
  BY FS_CardinalityType
<1>2. PICK walk : ClusterWalk(swings, walk) /\ Clusters(swings) = walk[n].zones
  BY <1>1, ClustersAre
<1> DEFINE Ok(k) == WalkOk(walk[k]) /\ Cardinality(walk[k].left) = n - k
           Bad == {k \in 0..n : ~Ok(k)}
<1>3. Ok(0)
  <2>1. walk[0] = [left |-> swings, zones |-> <<>>]
    BY <1>2 DEF ClusterWalk
  <2>2. Apart(<<>>, 0)
    BY DEF Apart
  <2>3. \A s \in swings : 0 <= s.price
    BY DEF Touches
  <2>4. WalkOk(walk[0])
    BY <2>1, <2>2, <2>3 DEF WalkOk
  <2> QED BY <1>1, <2>1, <2>4
<1>4. Bad = {}
  <2> SUFFICES ASSUME Bad # {} PROVE FALSE
    OBVIOUS
  <2>1. PICK k \in Bad : \A q \in Bad : k <= q
    <3>1. Bad \in SUBSET Nat
      OBVIOUS
    <3> HIDE DEF Bad
    <3> QED BY <3>1, LeastNat
  <2>2. k \in 0..n /\ ~Ok(k)
    BY <2>1
  <2>3. k # 0
    BY <1>3, <2>2
  <2> HIDE DEF n
  <2>4. k \in 1..n /\ k - 1 \in 0..n /\ ~(k <= k - 1)
    BY <1>1, <2>2, <2>3
  <2>5. Ok(k - 1)
    BY <2>1, <2>4
  <2>6. walk[k - 1].left # {}
    <3>1. Cardinality(walk[k - 1].left) = n - (k - 1)
      BY <2>5
    <3>2. n - (k - 1) # 0
      BY <1>1, <2>4
    <3> QED BY <3>1, <3>2, FS_EmptySet
  <2>7. walk[k] = TakeNext(walk[k - 1])
    BY <1>2, <2>4 DEF ClusterWalk, n
  <2>8. /\ WalkOk(walk[k])
        /\ Cardinality(walk[k].left) = Cardinality(walk[k - 1].left) - 1
    BY <2>5, <2>6, <2>7, TakeNextOk
  <2>9. Cardinality(walk[k].left) = n - k
    BY <1>1, <2>4, <2>5, <2>8
  <2> QED BY <2>2, <2>8, <2>9
<1>5. WalkOk(walk[n])
  <2> HIDE DEF n
  <2>1. n \in 0..n
    BY <1>1
  <2>2. Ok(n)
    BY <1>4, <2>1
  <2> QED BY <2>2
<1> QED BY <1>2, <1>5 DEF WalkOk

(* compute_sr_levels: no two zones have the same level.                    *)
LEMMA LevelsDiffer ==
  ASSUME NEW bars \in Seq(DayBars), NEW y \in Zones(bars), NEW z \in Zones(bars), y # z
  PROVE  y.sum \in Nat /\ y.strength \in Nat /\ z.sum \in Nat /\ z.strength \in Nat
         /\ y.sum * z.strength # z.sum * y.strength
<1> DEFINE all == Clusters(Swings(bars))
<1>1. PICK top \in Nat : Apart(all, top)
  BY SwingsAre, ClustersApart
<1>2. PICK i \in DOMAIN all, j \in DOMAIN all : y = Level(all[i]) /\ z = Level(all[j])
  BY DEF Zones
<1> HIDE DEF all
<1>3. all \in Seq(ZoneSet) /\ i # j /\ i \in Nat /\ j \in Nat
  BY <1>1, <1>2 DEF Apart
<1>4. /\ y.sum = all[i].sum /\ y.strength = all[i].strength
      /\ z.sum = all[j].sum /\ z.strength = all[j].strength
  BY <1>2 DEF Level
<1>5. all[i] \in ZoneSet /\ all[j] \in ZoneSet
  BY <1>2, <1>3
<1>6. /\ y.sum \in Nat \ {0} /\ y.strength \in Nat \ {0}
      /\ z.sum \in Nat \ {0} /\ z.strength \in Nat \ {0}
  BY <1>4, <1>5 DEF ZoneSet
<1>7. ASSUME NEW a \in Nat, NEW m \in Nat \ {0}, NEW b \in Nat, NEW l \in Nat \ {0}, NEW q \in Nat,
             a < q * m, q * l <= b
      PROVE  a * l # b * m
  <2>1. a * l < (q * m) * l
    BY <1>7
  <2>2. (q * m) * l = (q * l) * m
    OBVIOUS
  <2>3. (q * l) * m <= b * m
    BY <1>7
  <2>4. a * l \in Int /\ (q * m) * l \in Int /\ (q * l) * m \in Int /\ b * m \in Int
    OBVIOUS
  <2> QED BY <2>1, <2>2, <2>3, <2>4
<1>8. CASE i < j
  <2>1. \E q \in Nat : y.sum < q * y.strength /\ q * z.strength <= z.sum
    BY <1>1, <1>2, <1>4, <1>8 DEF Apart
  <2> QED BY <1>6, <1>7, <2>1
<1>9. CASE j < i
  <2>1. \E q \in Nat : z.sum < q * z.strength /\ q * y.strength <= y.sum
    BY <1>1, <1>2, <1>4, <1>9 DEF Apart
  <2>2. z.sum * y.strength # y.sum * z.strength
    BY <1>6, <1>7, <2>1
  <2> QED BY <1>6, <2>2
<1> QED BY <1>3, <1>8, <1>9

-----------------------------------------------------------------------------
(* The table, the Redis key and the cache.                                 *)

(* Zones of bars that Fyers had one day.                                   *)
OneFetch(zones) == \E bars \in Fetched : zones = Zones(bars)

SrInv ==
  /\ daily \in Seq(DayBars)
  /\ srJob \in [pc : {"idle", "table", "redis"}, bars : Fetched]
  /\ OneFetch(cacheSr) /\ OneFetch(srTable)
  /\ redisSr = Missing \/ OneFetch(redisSr)

LEMMA FetchedIs ==
  ASSUME daily \in Seq(DayBars)
  PROVE  /\ Fetched \subseteq Seq(DayBars) /\ daily \in Fetched /\ <<>> \in Fetched
<1>1. Len(daily) \in Nat /\ \A n \in 0..Len(daily) : SubSeq(daily, 1, n) \in Seq(DayBars)
  OBVIOUS
<1>2. SubSeq(daily, 1, Len(daily)) = daily /\ SubSeq(daily, 1, 0) = <<>>
  OBVIOUS
<1>3. 0 \in 0..Len(daily) /\ Len(daily) \in 0..Len(daily)
  BY <1>1
<1> QED BY <1>1, <1>2, <1>3 DEF Fetched

LEMMA NoZones == ASSUME daily \in Seq(DayBars) PROVE OneFetch({})
<1>1. Zones(<<>>) = {}
  BY SrAssumption DEF Zones
<1> QED BY <1>1, FetchedIs DEF OneFetch

LEMMA SrInitInv == SrInit => SrInv
<1> SUFFICES ASSUME SrInit PROVE SrInv
  OBVIOUS
<1>1. daily \in Seq(DayBars) /\ daily = <<>>
  BY DEF SrInit
<1>2. OneFetch({}) /\ <<>> \in Fetched
  BY <1>1, NoZones, FetchedIs
<1> QED BY <1>1, <1>2 DEF SrInit, SrInv, NoJob

LEMMA NewDaySrInv == ASSUME SrInv, NEW b \in DayBars, NewDay(b) PROVE SrInv'
<1>1. /\ daily \in Seq(DayBars) /\ daily' = Append(daily, b)
      /\ UNCHANGED <<srJob, srTable, redisSr, cacheSr>>
  BY DEF SrInv, NewDay
<1>2. daily' \in Seq(DayBars) /\ Len(daily') = Len(daily) + 1 /\ Len(daily) \in Nat
  BY <1>1
<1>3. \A n \in 0..Len(daily) : SubSeq(daily', 1, n) = SubSeq(daily, 1, n)
  <2> SUFFICES ASSUME NEW n \in 0..Len(daily) PROVE SubSeq(daily', 1, n) = SubSeq(daily, 1, n)
    OBVIOUS
  <2>1. /\ SubSeq(daily', 1, n) = [k \in 1..n |-> daily'[k]]
        /\ SubSeq(daily, 1, n) = [k \in 1..n |-> daily[k]]
    OBVIOUS
  <2>2. \A k \in 1..n : daily'[k] = daily[k]
    BY <1>1, <1>2
  <2> QED BY <2>1, <2>2
<1>4. Fetched \subseteq Fetched'
  BY <1>2, <1>3 DEF Fetched
<1>5. \A zones : OneFetch(zones) => OneFetch(zones)'
  BY <1>4 DEF OneFetch
<1> QED BY <1>1, <1>2, <1>4, <1>5 DEF SrInv

(* Any other step leaves the bars, and passes zones on.                    *)
LEMMA SrStepInv ==
  ASSUME SrInv, [SrNext]_srVars, ~(\E b \in DayBars : NewDay(b))
  PROVE  SrInv'
<1>1. /\ daily \in Seq(DayBars) /\ srJob \in [pc : {"idle", "table", "redis"}, bars : Fetched]
      /\ OneFetch(cacheSr) /\ OneFetch(srTable)
      /\ redisSr = Missing \/ OneFetch(redisSr)
  BY DEF SrInv
<1>2. daily' = daily
  BY DEF SrNext, StartSr, LoadSr, ExpireSr, RestartSr, ReplaceTable, ReplaceCache, srVars
<1>3. Fetched' = Fetched /\ \A zones : OneFetch(zones)' <=> OneFetch(zones)
  BY <1>2 DEF Fetched, OneFetch
<1>4. /\ NoJob \in [pc : {"idle", "table", "redis"}, bars : Fetched] /\ OneFetch({})
      /\ daily \in Fetched
  BY <1>1, FetchedIs, NoZones DEF NoJob
<1>5. OneFetch(Zones(srJob.bars))
  BY <1>1 DEF OneFetch
<1>6. CASE StartSr
  BY <1>1, <1>2, <1>3, <1>4, <1>6 DEF StartSr, SrInv
<1>7. CASE LoadSr
  <2>1. OneFetch(cacheSr') /\ (redisSr' = Missing \/ OneFetch(redisSr'))
    BY <1>1, <1>7 DEF LoadSr
  <2> QED BY <1>1, <1>2, <1>3, <1>7, <2>1 DEF LoadSr, SrInv
<1>8. CASE ExpireSr
  BY <1>1, <1>2, <1>3, <1>8 DEF ExpireSr, SrInv
<1>9. CASE RestartSr
  BY <1>1, <1>2, <1>3, <1>4, <1>9 DEF RestartSr, SrInv
<1>10. ASSUME NEW ok \in BOOLEAN, ReplaceTable(ok) PROVE SrInv'
  <2>1. srJob' \in [pc : {"idle", "table", "redis"}, bars : Fetched] /\ OneFetch(srTable')
    BY <1>1, <1>5, <1>10 DEF ReplaceTable
  <2> QED BY <1>1, <1>2, <1>3, <1>10, <2>1 DEF ReplaceTable, SrInv
<1>11. ASSUME NEW ok \in BOOLEAN, ReplaceCache(ok) PROVE SrInv'
  <2>1. OneFetch(cacheSr') /\ (redisSr' = Missing \/ OneFetch(redisSr'))
    BY <1>1, <1>5, <1>11 DEF ReplaceCache
  <2> QED BY <1>1, <1>2, <1>3, <1>4, <1>11, <2>1 DEF ReplaceCache, SrInv
<1>12. CASE UNCHANGED srVars
  BY <1>1, <1>2, <1>3, <1>12 DEF srVars, SrInv
<1> QED BY <1>6, <1>7, <1>8, <1>9, <1>10, <1>11, <1>12 DEF SrNext

(* At most one zone is nearest to a price.                                 *)
LEMMA OneNearest ==
  ASSUME NEW N, \A y, z \in N : y = z
  PROVE  Cardinality(N) <= 1
<1>1. CASE N = {}
  BY <1>1, FS_EmptySet
<1>2. CASE N # {}
  <2>1. PICK y \in N : TRUE
    BY <1>2
  <2>2. N = {y}
    BY <2>1
  <2> QED BY <2>2, FS_Singleton
<1> QED BY <1>1, <1>2

LEMMA SrInvApart == SrInv => ZonesApart
<1> SUFFICES ASSUME SrInv PROVE ZonesApart
  OBVIOUS
<1>1. daily \in Seq(DayBars) /\ OneFetch(cacheSr) /\ OneFetch(srTable)
  BY DEF SrInv
<1>2. PICK bars \in Fetched : cacheSr = Zones(bars)
  BY <1>1 DEF OneFetch
<1>3. bars \in Seq(DayBars)
  BY <1>1, FetchedIs
<1>4. ASSUME NEW y \in cacheSr, NEW z \in cacheSr, y # z
      PROVE  /\ y.sum * z.strength \in Int /\ z.sum * y.strength \in Int
             /\ y.sum * z.strength # z.sum * y.strength
  BY <1>2, <1>3, <1>4, LevelsDiffer
<1>5. ASSUME NEW price
      PROVE  Cardinality(AboveOf(cacheSr, price)) <= 1 /\ Cardinality(BelowOf(cacheSr, price)) <= 1
  <2>1. ASSUME NEW y \in AboveOf(cacheSr, price), NEW z \in AboveOf(cacheSr, price) PROVE y = z
    <3> SUFFICES ASSUME y # z PROVE FALSE
      OBVIOUS
    <3>1. /\ y \in cacheSr /\ z \in cacheSr
          /\ y.sum * z.strength <= z.sum * y.strength /\ z.sum * y.strength <= y.sum * z.strength
      BY DEF AboveOf
    <3> QED BY <1>4, <3>1
  <2>2. ASSUME NEW y \in BelowOf(cacheSr, price), NEW z \in BelowOf(cacheSr, price) PROVE y = z
    <3> SUFFICES ASSUME y # z PROVE FALSE
      OBVIOUS
    <3>1. /\ y \in cacheSr /\ z \in cacheSr
          /\ y.sum * z.strength >= z.sum * y.strength /\ z.sum * y.strength >= y.sum * z.strength
      BY DEF BelowOf
    <3> QED BY <1>4, <3>1
  <2> QED BY <2>1, <2>2, OneNearest
<1>6. \E day \in Fetched : cacheSr = Zones(day)
  BY <1>2
<1>7. srTable = {} \/ \E day \in Fetched : srTable = Zones(day)
  BY <1>1 DEF OneFetch
<1> QED BY <1>4, <1>5, <1>6, <1>7 DEF ZonesApart

(* historical_sr.py and bootstrap_daily_ohlcv: for any daily bars,         *)
(* whatever failed or expired, the zones in the cache and in the table     *)
(* are those of one fetch, and no two in the cache have the same level.    *)
THEOREM LevelsApart == SrSpec => []ZonesApart
<1>1. SrInv /\ [SrNext]_srVars => SrInv'
  BY NewDaySrInv, SrStepInv
<1>2. SrSpec => []SrInv
  BY <1>1, SrInitInv, PTL DEF SrSpec
<1> QED BY <1>2, SrInvApart, PTL

-----------------------------------------------------------------------------
(* The bars of five minutes.                                               *)

(* What holds of 0 and of the successor of each place it holds of, holds   *)
(* up to n.                                                                *)
LEMMA UpTo ==
  ASSUME NEW n \in Nat, NEW P, 0 \in P, \A k \in 1..n : k - 1 \in P => k \in P
  PROVE  \A k \in 0..n : k \in P
<1> DEFINE Bad == {k \in 0..n : k \notin P}
<1> SUFFICES ASSUME Bad # {} PROVE FALSE
  OBVIOUS
<1>1. PICK k \in Bad : \A j \in Bad : k <= j
  <2>1. Bad \in SUBSET Nat
    OBVIOUS
  <2> HIDE DEF Bad
  <2> QED BY <2>1, LeastNat
<1>2. k \in 1..n /\ k - 1 \in 0..n /\ ~(k <= k - 1)
  BY <1>1
<1>3. k - 1 \in P
  BY <1>1, <1>2
<1> QED BY <1>1, <1>2, <1>3

(* A function defined step by step exists.                                 *)
Follows(f, n, base, next) == f[0] = base /\ \A k \in 1..n : f[k] = next[k][f[k - 1]]
LEMMA StepByStep ==
  ASSUME NEW n \in Nat, NEW Y, NEW base \in Y, NEW next \in [1..n -> [Y -> Y]]
  PROVE  \E f \in [0..n -> Y] : Follows(f, n, base, next)
<1> USE DEF Follows
<1> DEFINE Good(m) == \E f \in [0..n -> Y] : Follows(f, m, base, next)
           P == {m \in 0..n : Good(m)}
<1>1. 0 \in P
  <2>1. [k \in 0..n |-> base] \in [0..n -> Y] /\ [k \in 0..n |-> base][0] = base
    OBVIOUS
  <2>2. Good(0)
    <3>1. 1..0 = {}
      OBVIOUS
    <3> QED BY <2>1, <3>1
  <2> HIDE DEF Good
  <2> QED BY <2>2
<1>2. ASSUME NEW m \in 1..n, m - 1 \in P PROVE m \in P
  <2>1. PICK f \in [0..n -> Y] : f[0] = base /\ \A k \in 1..(m - 1) : f[k] = next[k][f[k - 1]]
    BY <1>2
  <2> DEFINE g == [f EXCEPT ![m] = next[m][f[m - 1]]]
  <2>2. m - 1 \in 0..n /\ m \in 0..n
    BY <1>2
  <2>3. next[m][f[m - 1]] \in Y
    BY <2>1, <2>2
  <2>4. g \in [0..n -> Y] /\ g[0] = base
    BY <2>1, <2>2, <2>3
  <2>5. ASSUME NEW k \in 1..m PROVE g[k] = next[k][g[k - 1]]
    <3>1. k - 1 # m /\ g[k - 1] = f[k - 1]
      BY <2>1, <2>5
    <3>2. CASE k = m
      BY <2>1, <2>2, <3>1, <3>2
    <3>3. CASE k # m
      BY <2>1, <2>5, <3>1, <3>3
    <3> QED BY <3>2, <3>3
  <2> HIDE DEF g
  <2>6. Good(m)
    BY <2>4, <2>5
  <2> HIDE DEF Good
  <2> QED BY <2>2, <2>6
<1>3. \A k \in 0..n : k \in P
  <2> HIDE DEF P
  <2> QED BY <1>1, <1>2, UpTo
<1>4. Good(n)
  <2> HIDE DEF Good
  <2> QED BY <1>3
<1> QED BY <1>4

BarSeq == Seq(MinuteBars)
Amount(bars, I, k) == IF k \in I THEN bars[k].vol ELSE 0
VolumeWalk(bars, I, upto) ==
  /\ upto \in [0..Len(bars) -> Nat] /\ upto[0] = 0
  /\ \A k \in 1..Len(bars) : upto[k] = upto[k - 1] + Amount(bars, I, k)

LEMMA NoBars == <<>> \in BarSeq
BY EmptySeq DEF BarSeq

LEMMA BarIs ==
  ASSUME NEW bars \in BarSeq, NEW k \in 1..Len(bars)
  PROVE  bars[k] \in MinuteBars /\ bars[k].vol \in Nat
<1>1. bars[k] \in MinuteBars
  BY DEF BarSeq
<1> QED BY <1>1 DEF MinuteBars

LEMMA VolumeIs ==
  ASSUME NEW bars \in BarSeq, NEW I
  PROVE  \E upto : VolumeWalk(bars, I, upto) /\ B!Volume(bars, I) = upto[Len(bars)]
<1> DEFINE n == Len(bars)
           next == [k \in 1..n |-> [x \in Nat |-> x + Amount(bars, I, k)]]
           At(f, k) == IF k = 0 THEN 0 ELSE f[k - 1] + (IF k \in I THEN bars[k].vol ELSE 0)
           upto == CHOOSE f : f = [k \in 0..n |-> At(f, k)]
<1>1. n \in Nat /\ \A k \in 1..n : Amount(bars, I, k) \in Nat
  BY BarIs DEF BarSeq, Amount
<1>2. next \in [1..n -> [Nat -> Nat]]
  BY <1>1
<1>3. PICK f \in [0..n -> Nat] : f[0] = 0 /\ \A k \in 1..n : f[k] = next[k][f[k - 1]]
  <2> HIDE DEF n, next
  <2>1. \A b \in Nat : \E f \in [0..n -> Nat] : Follows(f, n, b, next)
    BY <1>1, <1>2, StepByStep, Zenon
  <2>2. PICK b \in Nat : b = 0
    OBVIOUS
  <2>3. PICK f \in [0..n -> Nat] : Follows(f, n, b, next)
    BY <2>1
  <2> QED BY <2>2, <2>3 DEF Follows
<1>4. ASSUME NEW k \in 1..n PROVE f[k] = f[k - 1] + Amount(bars, I, k)
  <2>1. f[k - 1] \in Nat
    BY <1>1, <1>3
  <2>2. next[k][f[k - 1]] = f[k - 1] + Amount(bars, I, k)
    BY <2>1
  <2> QED BY <1>3, <2>2
<1>5. ASSUME NEW k \in 0..n PROVE f[k] = At(f, k)
  <2>1. CASE k = 0
    BY <1>3, <2>1
  <2>2. CASE k # 0
    <3>1. k \in 1..n
      BY <1>1, <2>2
    <3> QED BY <1>4, <2>2, <3>1 DEF Amount
  <2> QED BY <2>1, <2>2
<1>6. f = [k \in 0..n |-> At(f, k)]
  <2> HIDE DEF At
  <2> QED BY <1>3, <1>5
<1>7. upto = [k \in 0..n |-> At(upto, k)]
  <2> HIDE DEF At
  <2> QED BY <1>6
<1>8. B!Volume(bars, I) = upto[n]
  BY DEF B!Volume
<1>9. upto[0] = 0 /\ \A k \in 1..n : upto[k] = upto[k - 1] + Amount(bars, I, k)
  <2>1. \A k \in 0..n : upto[k] = At(upto, k)
    <3> HIDE DEF At, upto
    <3> QED BY <1>7
  <2> HIDE DEF upto
  <2> QED BY <1>1, <2>1 DEF Amount
<1>10. DOMAIN upto = 0..n
  <2> HIDE DEF At, upto
  <2> QED BY <1>7
<1>11. \A k \in 0..n : upto[k] \in Nat
  <2> HIDE DEF upto
  <2> DEFINE P == {k \in 0..n : upto[k] \in Nat}
  <2>1. 0 \in P
    BY <1>1, <1>9
  <2>2. \A k \in 1..n : k - 1 \in P => k \in P
    BY <1>1, <1>9
  <2>3. \A k \in 0..n : k \in P
    <3> HIDE DEF P, n
    <3> QED BY <1>1, <2>1, <2>2, UpTo
  <2> QED BY <2>3
<1>12. upto \in [0..n -> Nat]
  <2>1. upto = [k \in 0..n |-> upto[k]]
    <3> HIDE DEF At, upto
    <3> QED BY <1>7
  <2> HIDE DEF upto
  <2> QED BY <1>11, <2>1
<1> HIDE DEF upto
<1> QED BY <1>8, <1>9, <1>12 DEF VolumeWalk

(* Two series that agree up to a place have the same volume up to there.   *)
LEMMA SameVolume ==
  ASSUME NEW s \in BarSeq, NEW t \in BarSeq, NEW I, NEW J, NEW u, NEW v,
         VolumeWalk(s, I, u), VolumeWalk(t, J, v),
         NEW n \in Nat, n <= Len(s), n <= Len(t),
         \A k \in 1..n : Amount(s, I, k) = Amount(t, J, k)
  PROVE  \A k \in 0..n : u[k] = v[k]
<1> DEFINE P == {k \in 0..n : u[k] = v[k]}
<1>0. Len(s) \in Nat /\ Len(t) \in Nat
  BY DEF BarSeq
<1>1. 0 \in P
  BY DEF VolumeWalk
<1>2. \A k \in 1..n : k - 1 \in P => k \in P
  BY <1>0 DEF VolumeWalk
<1>3. \A k \in 0..n : k \in P
  <2> HIDE DEF P
  <2> QED BY <1>1, <1>2, UpTo
<1> QED BY <1>3

DayVolume(bars, day) == B!Volume(bars, B!DayOf(bars, day))
Part(b, day) == IF b.day = day THEN b.vol ELSE 0

LEMMA AmountIs ==
  ASSUME NEW bars \in BarSeq, NEW day, NEW k \in 1..Len(bars)
  PROVE  Amount(bars, B!DayOf(bars, day), k) = Part(bars[k], day)
BY DEF Amount, Part, B!DayOf, BarSeq

(* A bar appended, or the last bar enlarged.                               *)
LEMMA VolumeGrows ==
  ASSUME NEW s \in BarSeq, NEW t \in BarSeq, NEW day, NEW n \in Nat, NEW more \in Nat,
         Len(t) = n + 1, Len(s) \in {n, n + 1}, \A k \in 1..n : s[k] = t[k],
         Part(t[n + 1], day) = more + (IF Len(s) = n THEN 0 ELSE Part(s[n + 1], day))
  PROVE  DayVolume(t, day) = DayVolume(s, day) + more
<1> DEFINE I == B!DayOf(s, day)
           J == B!DayOf(t, day)
<1>1. PICK u : VolumeWalk(s, I, u) /\ B!Volume(s, I) = u[Len(s)]
  BY VolumeIs
<1>2. PICK v : VolumeWalk(t, J, v) /\ B!Volume(t, J) = v[Len(t)]
  BY VolumeIs
<1>3. \A k \in 1..n : Amount(s, I, k) = Amount(t, J, k)
  BY AmountIs
<1> HIDE DEF I, J
<1>4. u[n] = v[n] /\ u[n] \in Nat
  <2>1. n <= Len(s) /\ n <= Len(t) /\ n \in 0..n /\ n \in 0..Len(s)
    OBVIOUS
  <2>2. u[n] = v[n]
    BY <1>1, <1>2, <1>3, <2>1, SameVolume
  <2> QED BY <1>1, <2>1, <2>2 DEF VolumeWalk
<1>5. v[n + 1] = v[n] + Part(t[n + 1], day)
  <2>1. Amount(t, J, n + 1) = Part(t[n + 1], day)
    BY AmountIs DEF J
  <2>2. n + 1 \in 1..Len(t) /\ n + 1 - 1 = n
    OBVIOUS
  <2> QED BY <1>2, <2>1, <2>2 DEF VolumeWalk
<1>6. CASE Len(s) = n
  BY <1>1, <1>2, <1>4, <1>5, <1>6 DEF DayVolume, I, J
<1>7. CASE Len(s) = n + 1
  <2>1. Amount(s, I, n + 1) = Part(s[n + 1], day)
    BY <1>7, AmountIs DEF I
  <2>2. n + 1 \in 1..Len(s) /\ n + 1 - 1 = n /\ Len(s) # n
    BY <1>7
  <2>3. u[n + 1] = u[n] + Part(s[n + 1], day)
    BY <1>1, <2>1, <2>2 DEF VolumeWalk
  <2>4. Part(s[n + 1], day) \in Nat
    BY <2>2, BarIs DEF Part
  <2>5. Part(t[n + 1], day) = more + Part(s[n + 1], day)
    <3> HIDE DEF I, J
    <3> QED BY <2>2, Zenon
  <2>6. v[n + 1] = u[n + 1] + more
    BY <1>4, <1>5, <2>3, <2>4, <2>5
  <2> QED BY <1>1, <1>2, <1>7, <2>6 DEF DayVolume, I, J
<1> QED BY <1>6, <1>7

(* A bar of the opening range; the bucket of a bar is in it or not like    *)
(* the bar.                                                                *)
Early(b) == b.min < B!SessionStart + 15

LEMMA BucketIs ==
  ASSUME NEW b \in MinuteBars, b.min >= B!SessionStart
  PROVE  /\ B!BucketStart(b.min) \in Int /\ B!BucketStart(b.min) >= B!SessionStart
         /\ B!BucketStart(b.min) < B!SessionStart + 15 <=> b.min < B!SessionStart + 15
BY DEF MinuteBars, B!SessionStart, B!BucketStart

(* A minute of the session, b, becomes or enlarges the last bar of fives.  *)
Taken(b, fives, new, n) ==
  LET last == new[n + 1]
      old  == fives[n + 1]
  IN  /\ Len(new) = n + 1 /\ Len(fives) \in {n, n + 1}
      /\ \A k \in 1..n : fives[k] = new[k]
      /\ last.day = b.day /\ (Early(last) <=> Early(b))
      /\ last.min \in Int /\ last.min >= B!SessionStart
      /\ Len(fives) = n => last.high = b.high /\ last.low = b.low /\ last.vol = b.vol
      /\ Len(fives) = n + 1 =>
           /\ old.day = b.day /\ (Early(old) <=> Early(b)) /\ last.vol = old.vol + b.vol
           /\ last.high = IF b.high > old.high THEN b.high ELSE old.high
           /\ last.low = IF b.low < old.low THEN b.low ELSE old.low

LEMMA TakeMinuteIs ==
  ASSUME NEW fives \in BarSeq, NEW b \in MinuteBars
  PROVE  /\ B!TakeMinute(b, fives) \in BarSeq
         /\ b.min >= B!SessionStart => \E n \in Nat : Taken(b, fives, B!TakeMinute(b, fives), n)
         /\ b.min < B!SessionStart => B!TakeMinute(b, fives) = fives
<1> DEFINE new == B!TakeMinute(b, fives)
<1>0. /\ B!SessionStart \in Int /\ b.min \in Int /\ B!BucketStart(b.min) \in Int
      /\ ~(b.min < B!SessionStart) => /\ b.min >= B!SessionStart
                                      /\ B!BucketStart(b.min) >= B!SessionStart
                                      /\ B!BucketStart(b.min) < B!SessionStart + 15 <=> Early(b)
  BY BucketIs DEF MinuteBars, Early, B!SessionStart, B!BucketStart
<1>1. CASE b.min < B!SessionStart
  <2>1. new = fives
    BY <1>1 DEF B!TakeMinute
  <2> QED BY <1>0, <1>1, <2>1
<1>2. CASE ~(b.min < B!SessionStart) /\ ~(fives # <<>> /\ B!SameBucket(fives[Len(fives)], b))
  <2> DEFINE f == B!Begin5(b)
             n == Len(fives)
  <2>1. new = Append(fives, f)
    BY <1>2 DEF B!TakeMinute
  <2>2. f = [b EXCEPT !.min = B!BucketStart(b.min)]
    BY DEF B!Begin5
  <2>3. /\ f \in MinuteBars /\ f.day = b.day /\ f.high = b.high /\ f.low = b.low /\ f.vol = b.vol
        /\ f.min = B!BucketStart(b.min)
    <3> HIDE DEF f
    <3> QED BY <1>0, <2>2 DEF MinuteBars
  <2>6. f.min \in Int /\ f.min >= B!SessionStart /\ (Early(f) <=> Early(b))
    <3> HIDE DEF f
    <3> QED BY <1>0, <1>2, <2>3 DEF Early
  <2> HIDE DEF f, new
  <2>4. new \in BarSeq /\ n \in Nat /\ Len(new) = n + 1 /\ new[n + 1] = f /\ \A k \in 1..n : fives[k] = new[k]
    BY <2>1, <2>3 DEF BarSeq
  <2>5. Taken(b, fives, new, n)
    BY <2>3, <2>4, <2>6 DEF Taken
  <2> QED BY <1>2, <2>4, <2>5 DEF new
<1>3. CASE ~(b.min < B!SessionStart) /\ fives # <<>> /\ B!SameBucket(fives[Len(fives)], b)
  <2> DEFINE m == Len(fives)
             old == fives[m]
             f == B!Extend5(old, b)
             n == m - 1
  <2>1. new = [fives EXCEPT ![m] = f]
    BY <1>3 DEF B!TakeMinute
  <2>2. m \in Nat /\ m \in 1..m /\ n \in Nat /\ m = n + 1
    <3>1. \A s \in Seq(MinuteBars) : s # <<>> => Len(s) \in Nat \ {0}
      BY EmptySeq
    <3>2. Len(fives) \in Nat \ {0}
      BY <1>3, <3>1 DEF BarSeq
    <3> QED BY <3>2
  <2>3. old \in MinuteBars /\ old.day = b.day /\ old.min = B!BucketStart(b.min)
    <3>1. m \in 1..Len(fives)
      BY <2>2
    <3>2. old.day = b.day /\ old.min = B!BucketStart(b.min)
      BY <1>3 DEF B!SameBucket
    <3> HIDE DEF m
    <3> QED BY <3>1, <3>2, BarIs
  <2>4. f = [old EXCEPT !.high = IF b.high > old.high THEN b.high ELSE old.high,
                        !.low = IF b.low < old.low THEN b.low ELSE old.low,
                        !.close = b.close, !.vol = old.vol + b.vol]
    BY DEF B!Extend5
  <2> HIDE DEF f, old
  <2>5. /\ f \in MinuteBars /\ f.day = old.day /\ f.min = old.min /\ f.vol = old.vol + b.vol
        /\ f.high = IF b.high > old.high THEN b.high ELSE old.high
        /\ f.low = IF b.low < old.low THEN b.low ELSE old.low
    <3> DEFINE hi == IF b.high > old.high THEN b.high ELSE old.high
               lo == IF b.low < old.low THEN b.low ELSE old.low
               total == old.vol + b.vol
    <3>1. hi \in Nat \ {0} /\ lo \in Nat \ {0} /\ total \in Nat /\ b.close \in Nat \ {0}
      BY <2>3 DEF MinuteBars
    <3>2. f = [old EXCEPT !.high = hi, !.low = lo, !.close = b.close, !.vol = total]
      BY <2>4
    <3> HIDE DEF hi, lo, total
    <3>3. f \in MinuteBars /\ f.day = old.day /\ f.min = old.min /\ f.vol = total /\ f.high = hi /\ f.low = lo
      BY <2>3, <3>1, <3>2 DEF MinuteBars
    <3> QED BY <3>3 DEF hi, lo, total
  <2> HIDE DEF new, m
  <2>6. new \in BarSeq /\ Len(new) = m /\ new[m] = f /\ \A k \in 1..n : fives[k] = new[k]
    <3>1. fives \in Seq(MinuteBars)
      BY DEF BarSeq
    <3>2. m \in 1..Len(fives) /\ m = Len(fives) /\ \A k \in 1..n : k # m /\ k \in 1..Len(fives)
      <4>1. m = Len(fives)
        BY DEF m
      <4>2. \A k \in 1..n : k # m /\ k \in 1..m
        BY <2>2
      <4> QED BY <2>2, <4>1, <4>2
    <3>3. new \in Seq(MinuteBars) /\ Len(new) = Len(fives)
          /\ \A k \in 1..Len(fives) : new[k] = IF k = m THEN f ELSE fives[k]
      <4>1. f \in MinuteBars /\ m \in 1..Len(fives)
        BY <2>5, <3>2
      <4>2. LET g == [fives EXCEPT ![m] = f]
            IN  /\ g \in Seq(MinuteBars) /\ Len(g) = Len(fives)
                /\ \A k \in 1..Len(fives) : g[k] = IF k = m THEN f ELSE fives[k]
        BY <3>1, <4>1, ExceptSeq
      <4> QED BY <2>1, <4>2
    <3> QED BY <3>2, <3>3 DEF BarSeq
  <2>7. fives[n + 1] = old /\ new[n + 1] = f /\ Len(fives) = n + 1
    BY <2>2, <2>6 DEF old, m
  <2>8. /\ f.min \in Int /\ f.min >= B!SessionStart
        /\ (Early(f) <=> Early(b)) /\ (Early(old) <=> Early(b))
    BY <1>0, <1>3, <2>3, <2>5 DEF Early
  <2> HIDE DEF n
  <2>9. Taken(b, fives, new, n)
    BY <2>2, <2>3, <2>5, <2>6, <2>7, <2>8 DEF Taken
  <2> QED BY <1>3, <2>2, <2>6, <2>9 DEF new
<1> QED BY <1>1, <1>2, <1>3

LEMMA TakeVolume ==
  ASSUME NEW fives \in BarSeq, NEW b \in MinuteBars, b.min >= B!SessionStart, NEW day
  PROVE  DayVolume(B!TakeMinute(b, fives), day) = DayVolume(fives, day) + Part(b, day)
<1> DEFINE new == B!TakeMinute(b, fives)
<1>1. new \in BarSeq
  BY TakeMinuteIs
<1>2. PICK n \in Nat : Taken(b, fives, new, n)
  BY TakeMinuteIs
<1>3. b.vol \in Nat /\ Part(b, day) \in Nat
  BY DEF MinuteBars, Part
<1> HIDE DEF new
<1>4. /\ Len(new) = n + 1 /\ Len(fives) \in {n, n + 1} /\ \A k \in 1..n : fives[k] = new[k]
      /\ n + 1 \in 1..Len(new)
  BY <1>2 DEF Taken
<1>5. Part(new[n + 1], day) = Part(b, day) + (IF Len(fives) = n THEN 0 ELSE Part(fives[n + 1], day))
  <2>1. CASE Len(fives) = n
    BY <1>2, <1>3, <2>1 DEF Taken, Part
  <2>2. CASE Len(fives) = n + 1
    <3>1. n + 1 \in 1..Len(fives) /\ Len(fives) # n
      BY <2>2
    <3>2. fives[n + 1].vol \in Nat
      BY <3>1, BarIs
    <3>3. new[n + 1].day = b.day /\ fives[n + 1].day = b.day /\ new[n + 1].vol = fives[n + 1].vol + b.vol
      BY <1>2, <2>2 DEF Taken
    <3> QED BY <1>3, <3>1, <3>2, <3>3 DEF Part
  <2> QED BY <1>4, <2>1, <2>2
<1>6. DayVolume(new, day) = DayVolume(fives, day) + Part(b, day)
  BY <1>1, <1>3, <1>4, <1>5, VolumeGrows
<1> QED BY <1>6 DEF new

(* The bars of a day, or those of its opening range.                       *)
In(b, day, o) == b.day = day /\ (o => Early(b))

(* The bars of five minutes of a day, or of its opening range, reach as    *)
(* high and as low as its first k bars, and no farther; all are of the     *)
(* session.                                                                *)
Covers(bars, k, fives, day, o) ==
  /\ \A i \in 1..k : In(bars[i], day, o) =>
       \E j \in 1..Len(fives) : /\ In(fives[j], day, o)
                                /\ bars[i].high <= fives[j].high /\ fives[j].low <= bars[i].low
  /\ \A j \in 1..Len(fives) : In(fives[j], day, o) =>
       /\ \E i \in 1..k : In(bars[i], day, o) /\ bars[i].high = fives[j].high
       /\ \E i \in 1..k : In(bars[i], day, o) /\ bars[i].low = fives[j].low
  /\ \A j \in 1..Len(fives) : fives[j].min \in Int /\ fives[j].min >= B!SessionStart

LEMMA TakeCovers ==
  ASSUME NEW bars \in BarSeq, NEW k \in 1..Len(bars), NEW fives \in BarSeq, NEW day,
         NEW o \in BOOLEAN, Covers(bars, k - 1, fives, day, o), bars[k].min >= B!SessionStart
  PROVE  Covers(bars, k, B!TakeMinute(bars[k], fives), day, o)
<1> DEFINE b == bars[k]
           new == B!TakeMinute(b, fives)
<1>1. b \in MinuteBars /\ b.min >= B!SessionStart
  BY BarIs
<1>2. PICK n \in Nat : Taken(b, fives, new, n)
  BY <1>1, TakeMinuteIs
<1>3. new \in BarSeq
  BY <1>1, TakeMinuteIs
<1>4. b.high \in Nat /\ b.low \in Nat
  BY <1>1 DEF MinuteBars
<1>5. Len(bars) \in Nat /\ k \in Nat /\ \A i \in 1..k : i \in 1..(k - 1) \/ i = k
  BY DEF BarSeq
<1>6. \A i \in 1..(k - 1) : bars[i].high \in Nat /\ bars[i].low \in Nat
  <2> TAKE i \in 1..(k - 1)
  <2>1. bars[i] \in MinuteBars
    BY <1>5, BarIs
  <2> QED BY <2>1 DEF MinuteBars
<1>7. \A j \in 1..Len(fives) : fives[j].high \in Nat /\ fives[j].low \in Nat
  <2> TAKE j \in 1..Len(fives)
  <2>1. fives[j] \in MinuteBars
    BY BarIs
  <2> QED BY <2>1 DEF MinuteBars
<1> HIDE DEF new, b
<1>8. /\ Len(new) = n + 1 /\ Len(fives) \in {n, n + 1} /\ \A j \in 1..n : fives[j] = new[j]
      /\ In(new[n + 1], day, o) <=> In(b, day, o)
      /\ new[n + 1].min \in Int /\ new[n + 1].min >= B!SessionStart
      /\ n + 1 \in 1..(n + 1) /\ \A j \in 1..(n + 1) : j \in 1..n \/ j = n + 1
  BY <1>2 DEF Taken, In
<1>9. /\ b.high <= new[n + 1].high /\ new[n + 1].low <= b.low
      /\ Len(fives) = n + 1 => /\ In(fives[n + 1], day, o) <=> In(b, day, o)
                               /\ fives[n + 1].high <= new[n + 1].high /\ new[n + 1].low <= fives[n + 1].low
                               /\ new[n + 1].high \in {b.high, fives[n + 1].high}
                               /\ new[n + 1].low \in {b.low, fives[n + 1].low}
      /\ Len(fives) = n => new[n + 1].high = b.high /\ new[n + 1].low = b.low
      /\ new[n + 1].high \in Nat /\ new[n + 1].low \in Nat
  <2>1. CASE Len(fives) = n
    BY <1>2, <1>4, <2>1 DEF Taken
  <2>2. CASE Len(fives) = n + 1
    <3>1. fives[n + 1].high \in Nat /\ fives[n + 1].low \in Nat
      BY <1>7, <2>2
    <3>2. In(fives[n + 1], day, o) <=> In(b, day, o)
      BY <1>2, <2>2 DEF Taken, In
    <3> QED BY <1>2, <1>4, <2>2, <3>1, <3>2 DEF Taken
  <2> QED BY <1>8, <2>1, <2>2
<1>10. ASSUME NEW i \in 1..k, In(bars[i], day, o)
       PROVE  \E j \in 1..Len(new) : /\ In(new[j], day, o)
                                     /\ bars[i].high <= new[j].high /\ new[j].low <= bars[i].low
  <2>1. CASE i = k
    BY <1>8, <1>9, <1>10, <2>1 DEF b
  <2>2. CASE i \in 1..(k - 1)
    <3>1. PICK j \in 1..Len(fives) : /\ In(fives[j], day, o)
                                     /\ bars[i].high <= fives[j].high /\ fives[j].low <= bars[i].low
      BY <1>10, <2>2 DEF Covers
    <3>2. CASE j \in 1..n
      BY <1>8, <3>1, <3>2
    <3>3. CASE j = n + 1
      <4>1. Len(fives) = n + 1
        BY <1>8, <3>3
      <4>2. bars[i].high <= new[n + 1].high /\ new[n + 1].low <= bars[i].low
        BY <1>6, <1>7, <1>9, <2>2, <3>1, <3>3, <4>1
      <4>3. In(new[n + 1], day, o)
        BY <1>8, <1>9, <3>1, <3>3, <4>1
      <4> QED BY <1>8, <4>2, <4>3
    <3> QED BY <1>8, <3>2, <3>3
  <2> QED BY <1>5, <2>1, <2>2
<1>11. ASSUME NEW j \in 1..Len(new), In(new[j], day, o)
       PROVE  /\ \E i \in 1..k : In(bars[i], day, o) /\ bars[i].high = new[j].high
              /\ \E i \in 1..k : In(bars[i], day, o) /\ bars[i].low = new[j].low
  <2>0. k \in 1..k /\ \A i \in 1..(k - 1) : i \in 1..k
    BY <1>5
  <2>1. CASE j \in 1..Len(fives) /\ new[j] = fives[j]
    <3>1. PICK i \in 1..(k - 1) : In(bars[i], day, o) /\ bars[i].high = fives[j].high
      BY <1>11, <2>1 DEF Covers
    <3>2. PICK h \in 1..(k - 1) : In(bars[h], day, o) /\ bars[h].low = fives[j].low
      BY <1>11, <2>1 DEF Covers
    <3> QED BY <2>0, <2>1, <3>1, <3>2
  <2>2. CASE j = n + 1
    <3>1. In(b, day, o)
      BY <1>8, <1>11, <2>2
    <3>2. new[j].high = b.high \/ \E i \in 1..k : In(bars[i], day, o) /\ bars[i].high = new[j].high
      <4>1. CASE Len(fives) = n + 1
        <5>1. n + 1 \in 1..Len(fives) /\ In(fives[n + 1], day, o)
          BY <1>9, <3>1, <4>1
        <5>2. PICK i \in 1..(k - 1) : In(bars[i], day, o) /\ bars[i].high = fives[n + 1].high
          BY <5>1 DEF Covers
        <5> QED BY <1>9, <2>0, <2>2, <4>1, <5>2
      <4> QED BY <1>8, <1>9, <2>2, <4>1
    <3>3. new[j].low = b.low \/ \E i \in 1..k : In(bars[i], day, o) /\ bars[i].low = new[j].low
      <4>1. CASE Len(fives) = n + 1
        <5>1. n + 1 \in 1..Len(fives) /\ In(fives[n + 1], day, o)
          BY <1>9, <3>1, <4>1
        <5>2. PICK i \in 1..(k - 1) : In(bars[i], day, o) /\ bars[i].low = fives[n + 1].low
          BY <5>1 DEF Covers
        <5> QED BY <1>9, <2>0, <2>2, <4>1, <5>2
      <4> QED BY <1>8, <1>9, <2>2, <4>1
    <3> QED BY <2>0, <3>1, <3>2, <3>3 DEF b
  <2> QED BY <1>8, <2>1, <2>2
<1>12. \A j \in 1..Len(new) : new[j].min \in Int /\ new[j].min >= B!SessionStart
  <2> TAKE j \in 1..Len(new)
  <2>1. CASE j \in 1..n
    <3>1. j \in 1..Len(fives) /\ new[j] = fives[j]
      BY <1>8, <2>1
    <3> QED BY <3>1 DEF Covers
  <2>2. CASE j = n + 1
    BY <1>8, <2>2
  <2> QED BY <1>8, <2>1, <2>2
<1>13. Covers(bars, k, new, day, o)
  BY <1>10, <1>11, <1>12 DEF Covers
<1> QED BY <1>13 DEF new, b

FiveWalk(bars, walk) ==
  /\ walk \in [0..Len(bars) -> BarSeq] /\ walk[0] = <<>>
  /\ \A k \in 1..Len(bars) : walk[k] = B!TakeMinute(bars[k], walk[k - 1])

LEMMA FivesAre ==
  ASSUME NEW bars \in BarSeq
  PROVE  \E walk : FiveWalk(bars, walk) /\ B!AggregateTo5m(bars) = walk[Len(bars)]
<1> DEFINE n == Len(bars)
           next == [k \in 1..n |-> [x \in BarSeq |-> B!TakeMinute(bars[k], x)]]
           At(f, k) == IF k = 0 THEN <<>> ELSE B!TakeMinute(bars[k], f[k - 1])
           walk == CHOOSE f : f = [k \in 0..n |-> At(f, k)]
<1>1. n \in Nat /\ \A k \in 1..n : bars[k] \in MinuteBars
  BY BarIs DEF BarSeq
<1>2. next \in [1..n -> [BarSeq -> BarSeq]]
  BY <1>1, TakeMinuteIs
<1>3. PICK f \in [0..n -> BarSeq] : f[0] = <<>> /\ \A k \in 1..n : f[k] = next[k][f[k - 1]]
  <2> HIDE DEF n, next
  <2>1. \A b \in BarSeq : \E f \in [0..n -> BarSeq] : Follows(f, n, b, next)
    BY <1>1, <1>2, StepByStep, Zenon
  <2>2. PICK b \in BarSeq : b = <<>>
    BY NoBars
  <2>3. PICK f \in [0..n -> BarSeq] : Follows(f, n, b, next)
    BY <2>1
  <2> QED BY <2>2, <2>3 DEF Follows
<1>4. ASSUME NEW k \in 0..n PROVE f[k] = At(f, k)
  <2>1. CASE k = 0
    BY <1>3, <2>1
  <2>2. CASE k # 0
    <3>1. k \in 1..n /\ f[k - 1] \in BarSeq
      BY <1>1, <1>3, <2>2
    <3>2. next[k][f[k - 1]] = B!TakeMinute(bars[k], f[k - 1])
      BY <3>1
    <3> QED BY <1>3, <2>2, <3>1, <3>2
  <2> QED BY <2>1, <2>2
<1>5. f = [k \in 0..n |-> At(f, k)]
  <2> HIDE DEF At
  <2> QED BY <1>3, <1>4
<1>6. walk = [k \in 0..n |-> At(walk, k)]
  <2> HIDE DEF At
  <2> QED BY <1>5
<1>7. B!AggregateTo5m(bars) = walk[n]
  BY DEF B!AggregateTo5m
<1>8. walk = [k \in 0..n |-> walk[k]] /\ \A k \in 0..n : walk[k] = At(walk, k)
  <2> HIDE DEF At, walk
  <2> QED BY <1>6
<1> HIDE DEF walk
<1>9. walk[0] = <<>> /\ \A k \in 1..n : walk[k] = B!TakeMinute(bars[k], walk[k - 1])
  BY <1>1, <1>8
<1>10. \A k \in 0..n : walk[k] \in BarSeq
  <2> DEFINE P == {k \in 0..n : walk[k] \in BarSeq}
  <2>1. 0 \in P
    BY <1>1, <1>9, NoBars
  <2>2. \A k \in 1..n : k - 1 \in P => k \in P
    BY <1>1, <1>9, TakeMinuteIs
  <2>3. \A k \in 0..n : k \in P
    <3> HIDE DEF P, n
    <3> QED BY <1>1, <2>1, <2>2, UpTo
  <2> QED BY <2>3
<1>11. walk \in [0..n -> BarSeq]
  <2> HIDE DEF At
  <2> QED BY <1>8, <1>10
<1> QED BY <1>7, <1>9, <1>11 DEF FiveWalk

LEMMA NoVolume == \A day : DayVolume(<<>>, day) = 0
<1> TAKE day
<1>1. PICK u : VolumeWalk(<<>>, B!DayOf(<<>>, day), u) /\ B!Volume(<<>>, B!DayOf(<<>>, day)) = u[Len(<<>>)]
  BY NoBars, VolumeIs
<1>2. Len(<<>>) = 0
  OBVIOUS
<1> QED BY <1>1, <1>2 DEF VolumeWalk, DayVolume

(* aggregate_1m_to_5m loses nothing of a day whose bars are all of the     *)
(* session.                                                                *)
LEMMA FivesKeep ==
  ASSUME NEW bars \in BarSeq, NEW day, NEW o \in BOOLEAN,
         \A k \in 1..Len(bars) : bars[k].day = day => bars[k].min >= B!SessionStart
  PROVE  /\ B!AggregateTo5m(bars) \in BarSeq
         /\ Covers(bars, Len(bars), B!AggregateTo5m(bars), day, o)
         /\ DayVolume(B!AggregateTo5m(bars), day) = DayVolume(bars, day)
<1> DEFINE n == Len(bars)
           I == B!DayOf(bars, day)
<1>1. PICK walk : FiveWalk(bars, walk) /\ B!AggregateTo5m(bars) = walk[n]
  BY FivesAre
<1>2. PICK u : VolumeWalk(bars, I, u) /\ B!Volume(bars, I) = u[n]
  BY VolumeIs
<1>3. /\ n \in Nat /\ walk[0] = <<>> /\ u[0] = 0
      /\ \A k \in 1..n : /\ walk[k] = B!TakeMinute(bars[k], walk[k - 1])
                         /\ walk[k - 1] \in BarSeq /\ walk[k] \in BarSeq
                         /\ bars[k] \in MinuteBars /\ bars[k].min \in Int
                         /\ u[k] = u[k - 1] + Part(bars[k], day) /\ u[k - 1] \in Nat
  <2>1. n \in Nat /\ \A k \in 1..n : k \in 0..n /\ k - 1 \in 0..n
    BY DEF BarSeq
  <2>2. ASSUME NEW k \in 1..n PROVE bars[k] \in MinuteBars /\ bars[k].min \in Int
    <3>1. bars[k] \in MinuteBars
      BY BarIs
    <3> QED BY <3>1 DEF MinuteBars
  <2>3. \A k \in 1..n : u[k] = u[k - 1] + Part(bars[k], day) /\ u[k - 1] \in Nat
    <3> TAKE k \in 1..n
    <3>1. Amount(bars, I, k) = Part(bars[k], day)
      BY AmountIs
    <3> QED BY <1>2, <2>1, <3>1 DEF VolumeWalk
  <2> QED BY <1>1, <1>2, <2>1, <2>2, <2>3 DEF FiveWalk, VolumeWalk
<1>4. B!SessionStart \in Int
  BY DEF B!SessionStart
<1> DEFINE Kept(k) == Covers(bars, k, walk[k], day, o) /\ DayVolume(walk[k], day) = u[k]
           P == {k \in 0..n : Kept(k)}
<1>5. Kept(0)
  <2>1. Covers(bars, 0, <<>>, day, o)
    <3>1. 1..0 = {} /\ Len(<<>>) = 0
      OBVIOUS
    <3> QED BY <3>1 DEF Covers
  <2> QED BY <1>3, <2>1, NoVolume
<1>6. ASSUME NEW k \in 1..n, Kept(k - 1) PROVE Kept(k)
  <2>1. CASE bars[k].min >= B!SessionStart
    <3>1. Covers(bars, k, walk[k], day, o)
      BY <1>3, <1>6, <2>1, TakeCovers
    <3>2. DayVolume(walk[k], day) = DayVolume(walk[k - 1], day) + Part(bars[k], day)
      BY <1>3, <2>1, TakeVolume
    <3> QED BY <1>3, <1>6, <3>1, <3>2
  <2>2. CASE ~(bars[k].min >= B!SessionStart)
    <3>1. walk[k] = walk[k - 1]
      <4>1. bars[k].min < B!SessionStart
        BY <1>3, <1>4, <2>2
      <4> QED BY <1>3, <4>1, TakeMinuteIs
    <3>2. bars[k].day # day
      BY <2>2
    <3>3. u[k] = u[k - 1]
      BY <1>3, <3>2 DEF Part
    <3>4. k \in Nat /\ \A i \in 1..k : i \in 1..(k - 1) \/ i = k
      BY <1>3
    <3>5. \A i \in 1..(k - 1) : i \in 1..k
      BY <3>4
    <3>6. Covers(bars, k, walk[k - 1], day, o)
      BY <1>6, <3>2, <3>4, <3>5 DEF Covers, In
    <3> QED BY <1>6, <3>1, <3>3, <3>6
  <2> QED BY <2>1, <2>2
<1>7. Kept(n)
  <2>1. 0 \in P
    <3> HIDE DEF Kept
    <3> QED BY <1>3, <1>5
  <2>2. \A k \in 1..n : k - 1 \in P => k \in P
    <3> HIDE DEF Kept
    <3> QED BY <1>3, <1>6
  <2>3. \A k \in 0..n : k \in P
    <3> HIDE DEF P, n
    <3> QED BY <1>3, <2>1, <2>2, UpTo
  <2> HIDE DEF Kept
  <2> QED BY <1>3, <2>3
<1>8. walk[n] \in BarSeq
  BY <1>1, <1>3 DEF FiveWalk
<1> QED BY <1>1, <1>2, <1>7, <1>8 DEF DayVolume

LEMMA MaxIs ==
  ASSUME NEW S \in SUBSET Int, NEW x \in S, \A y \in S : y <= x
  PROVE  B!Max(S) = x
<1>1. \E m \in S : \A y \in S : m >= y
  OBVIOUS
<1>2. B!Max(S) \in S /\ \A y \in S : B!Max(S) >= y
  BY <1>1 DEF B!Max
<1>3. B!Max(S) \in Int /\ x \in Int /\ x >= B!Max(S)
  BY <1>2
<1>4. B!Max(S) >= x
  BY <1>2
<1> HIDE DEF B!Max
<1> QED BY <1>3, <1>4

LEMMA MinIs ==
  ASSUME NEW S \in SUBSET Int, NEW x \in S, \A y \in S : x <= y
  PROVE  B!Min(S) = x
<1>1. \E m \in S : \A y \in S : m <= y
  OBVIOUS
<1>2. B!Min(S) \in S /\ \A y \in S : B!Min(S) <= y
  BY <1>1 DEF B!Min
<1>3. B!Min(S) \in Int /\ x \in Int /\ x <= B!Min(S)
  BY <1>2
<1>4. B!Min(S) <= x
  BY <1>2
<1> HIDE DEF B!Min
<1> QED BY <1>3, <1>4

LEMMA Highest ==
  ASSUME NEW one \in BarSeq, Len(one) >= 1
  PROVE  \E i \in 1..Len(one) : \A j \in 1..Len(one) : one[j].high <= one[i].high
<1> DEFINE n == Len(one)
           Top(k) == \E i \in 1..k : \A j \in 1..k : one[j].high <= one[i].high
           P == {k \in 0..n : k = 0 \/ Top(k)}
<1>1. n \in Nat /\ \A j \in 1..n : one[j].high \in Nat
  <2>1. \A j \in 1..n : one[j] \in MinuteBars
    BY BarIs
  <2>2. Len(one) \in Nat
    BY DEF BarSeq
  <2> QED BY <2>1, <2>2 DEF MinuteBars
<1>2. 0 \in P
  <2> HIDE DEF Top
  <2> QED BY <1>1
<1>3. ASSUME NEW k \in 1..n, k - 1 \in P PROVE k \in P
  <2>0. k \in 1..k /\ \A j \in 1..k : j = k \/ (j \in 1..(k - 1) /\ k # 1)
    BY <1>1
  <2>1. CASE k = 1
    <3>1. Top(1)
      BY <1>1, <1>3, <2>1
    <3> HIDE DEF Top
    <3> QED BY <1>1, <2>1, <3>1
  <2>2. CASE k # 1
    <3>1. PICK i \in 1..(k - 1) : \A j \in 1..(k - 1) : one[j].high <= one[i].high
      BY <1>1, <1>3, <2>2
    <3>2. i \in 1..k /\ one[i].high \in Nat /\ one[k].high \in Nat
      BY <1>1
    <3>3. Top(k)
      <4>1. CASE one[k].high <= one[i].high
        <5>1. \A j \in 1..k : one[j].high <= one[i].high
          BY <2>0, <3>1, <4>1
        <5> QED BY <3>2, <5>1
      <4>2. CASE ~(one[k].high <= one[i].high)
        <5>1. ASSUME NEW j \in 1..k PROVE one[j].high <= one[k].high
          <6>1. j \in 1..n /\ one[j].high \in Nat
            BY <1>1
          <6> QED BY <2>0, <3>1, <3>2, <4>2, <6>1
        <5> QED BY <2>0, <5>1
      <4> QED BY <4>1, <4>2
    <3> HIDE DEF Top
    <3> QED BY <1>1, <3>3
  <2> QED BY <2>1, <2>2
<1>4. \A k \in 0..n : k \in P
  <2>1. n \in Nat
    BY <1>1
  <2>2. \A k \in 1..n : k - 1 \in P => k \in P
    <3> HIDE DEF P
    <3> QED BY <1>3
  <2> HIDE DEF P, n
  <2> QED BY <1>2, <2>1, <2>2, UpTo
<1>5. n \in 0..n /\ n # 0
  BY <1>1
<1>6. Top(n)
  <2> HIDE DEF Top
  <2> QED BY <1>4, <1>5
<1> QED BY <1>6

(* The same among the bars at the places in I.                             *)
LEMMA HighestIn ==
  ASSUME NEW one \in BarSeq, NEW I \in SUBSET (1..Len(one)), I # {}
  PROVE  \E i \in I : \A j \in I : one[j].high <= one[i].high
<1>1. \A j \in 1..Len(one) : one[j].high \in Nat
  <2>1. \A j \in 1..Len(one) : one[j] \in MinuteBars
    BY BarIs
  <2> QED BY <2>1 DEF MinuteBars
<1>2. Len(one) >= 1
  <2>1. PICK i \in 1..Len(one) : i \in I
    OBVIOUS
  <2>2. Len(one) \in Nat /\ 1 <= i /\ i <= Len(one)
    BY DEF BarSeq
  <2> QED BY <2>2
<1>3. PICK top \in 1..Len(one) : \A j \in 1..Len(one) : one[j].high <= one[top].high
  BY <1>2, Highest
<1> DEFINE gaps == {one[top].high - one[j].high : j \in I}
<1>4. gaps \in SUBSET Nat /\ gaps # {}
  <2>1. ASSUME NEW j \in I PROVE one[top].high - one[j].high \in Nat
    <3>1. /\ j \in 1..Len(one) /\ one[j].high \in Nat /\ one[top].high \in Nat
          /\ one[j].high <= one[top].high
      BY <1>1, <1>3
    <3> QED BY <3>1
  <2> QED BY <2>1
<1>5. PICK g \in gaps : \A h \in gaps : g <= h
  <2> HIDE DEF gaps
  <2> QED BY <1>4, LeastNat
<1>6. PICK i \in I : g = one[top].high - one[i].high
  OBVIOUS
<1>7. ASSUME NEW j \in I PROVE one[j].high <= one[i].high
  <2>1. one[top].high - one[i].high <= one[top].high - one[j].high
    BY <1>5, <1>6
  <2> QED BY <1>1, <2>1
<1> QED BY <1>7

LEMMA LowestIn ==
  ASSUME NEW one \in BarSeq, NEW I \in SUBSET (1..Len(one)), I # {}
  PROVE  \E i \in I : \A j \in I : one[i].low <= one[j].low
<1> DEFINE S == {one[j].low : j \in I}
<1>1. \A j \in 1..Len(one) : one[j].low \in Nat
  <2>1. \A j \in 1..Len(one) : one[j] \in MinuteBars
    BY BarIs
  <2> QED BY <2>1 DEF MinuteBars
<1>2. S \in SUBSET Nat /\ S # {}
  BY <1>1
<1>3. \E x \in S : \A y \in S : x <= y
  <2> HIDE DEF S
  <2> QED BY <1>2, LeastNat
<1> QED BY <1>3

(* The bars that a scan is shown: those of today are all of the session,   *)
(* from its first minute on.                                               *)
LEMMA TodayIs ==
  ASSUME NEW m \in First..(Last + 1)
  PROVE  /\ TodayShown(m) \in BarSeq /\ Len(TodayShown(m)) >= 1
         /\ \A i \in 1..Len(TodayShown(m)) :
              /\ TodayShown(m)[i].day = Today /\ TodayShown(m)[i].min >= B!SessionStart
              /\ TodayShown(m)[i].min = B!SessionStart + i - 1
<1> DEFINE n == ClockOf(Newest(m)) - B!SessionStart + 1
           bar(i) == LET b == TodayBars[B!SessionStart + i - 1]
                     IN  IF b.min = ClockOf(m) THEN Begun(b) ELSE b
<1>1. B!SessionStart \in Int /\ n \in Nat /\ n >= 1 /\ First \in Int /\ Last \in Int /\ Clock \in Int
      /\ n <= Clock + Last - First - B!SessionStart + 1
  <2>1. Newest(m) \in Int /\ First <= Newest(m) /\ Newest(m) <= Last /\ First \in Int /\ Last \in Int
    BY NewestIn, CandleAssumption DEF Minutes
  <2>2. B!SessionStart \in Int
    BY DEF B!SessionStart
  <2>3. Clock \in Int /\ Clock >= B!SessionStart
    BY ScanAssumption
  <2>4. n = Clock + Newest(m) - First - B!SessionStart + 1
    BY <2>1, <2>2, <2>3 DEF ClockOf
  <2> HIDE DEF n
  <2> QED BY <2>1, <2>2, <2>3, <2>4
<1>2. ASSUME NEW i \in 1..n
      PROVE  /\ bar(i) \in MinuteBars /\ bar(i).day = Today
             /\ bar(i).min >= B!SessionStart /\ bar(i).min = B!SessionStart + i - 1
  <2> DEFINE t == B!SessionStart + i - 1
             b == TodayBars[t]
  <2>1. t \in B!SessionStart..(Clock + Last - First)
    BY <1>1
  <2>2. b \in MinuteBars /\ b.min = t /\ b.day = Today /\ t >= B!SessionStart
    BY <1>1, <2>1, ScanAssumption
  <2>5. t = B!SessionStart + i - 1
    OBVIOUS
  <2> HIDE DEF b, t
  <2>3. Begun(b) \in MinuteBars /\ Begun(b).min = b.min /\ Begun(b).day = b.day
    <3>1. b.vol \div 2 \in Nat
      BY <2>2 DEF MinuteBars
    <3> DEFINE half == b.vol \div 2
    <3> HIDE DEF half
    <3>2. Begun(b) = [b EXCEPT !.high = b.open, !.low = b.open, !.close = b.open, !.vol = half]
      BY DEF Begun, half
    <3> QED BY <2>2, <3>1, <3>2 DEF MinuteBars, half
  <2>4. bar(i) = IF b.min = ClockOf(m) THEN Begun(b) ELSE b
    BY DEF b, t
  <2> HIDE DEF bar
  <2> QED BY <2>2, <2>3, <2>4, <2>5
<1>3. TodayShown(m) = [i \in 1..n |-> bar(i)]
  BY DEF TodayShown
<1> HIDE DEF n, bar
<1>4. TodayShown(m) \in BarSeq /\ Len(TodayShown(m)) = n
  <2>1. [i \in 1..n |-> bar(i)] \in Seq(MinuteBars) /\ Len([i \in 1..n |-> bar(i)]) = n
    BY <1>1, <1>2
  <2> QED BY <1>3, <2>1 DEF BarSeq
<1> QED BY <1>1, <1>2, <1>3, <1>4

LEMMA ShownIs ==
  ASSUME NEW m \in First..(Last + 1)
  PROVE  /\ Shown(m) \in BarSeq
         /\ \A k \in 1..Len(Shown(m)) : Shown(m)[k].day = Today => Shown(m)[k].min >= B!SessionStart
         /\ \A i \in 1..Len(TodayShown(m)) :
              /\ Len(PastBars) + i \in 1..Len(Shown(m))
              /\ Shown(m)[Len(PastBars) + i] = TodayShown(m)[i]
         /\ \A k \in 1..Len(Shown(m)) : Shown(m)[k].day = Today =>
              k > Len(PastBars) /\ k - Len(PastBars) \in 1..Len(TodayShown(m))
         /\ Len(Shown(m)) = Len(PastBars) + Len(TodayShown(m)) /\ Len(PastBars) \in Nat
<1> DEFINE one == TodayShown(m)
<1>1. PastBars \in Seq(MinuteBars) /\ one \in Seq(MinuteBars)
  BY TodayIs, ScanAssumption DEF BarSeq
<1>2. Shown(m) = PastBars \o one
  BY DEF Shown
<1>3. \A k \in 1..Len(PastBars) : PastBars[k].day # Today
  BY <1>1, ScanAssumption
<1> HIDE DEF one
<1>4. /\ Shown(m) \in Seq(MinuteBars) /\ Len(Shown(m)) = Len(PastBars) + Len(one)
      /\ Len(PastBars) \in Nat /\ Len(one) \in Nat
      /\ \A k \in 1..Len(Shown(m)) : Shown(m)[k] = IF k <= Len(PastBars) THEN PastBars[k] ELSE one[k - Len(PastBars)]
  BY <1>1, <1>2
<1>5. \A i \in 1..Len(one) : Len(PastBars) + i \in 1..Len(Shown(m)) /\ Shown(m)[Len(PastBars) + i] = one[i]
  BY <1>4
<1>6. ASSUME NEW k \in 1..Len(Shown(m)), Shown(m)[k].day = Today
      PROVE  k > Len(PastBars) /\ k - Len(PastBars) \in 1..Len(one)
  BY <1>3, <1>4, <1>6
<1>7. \A k \in 1..Len(Shown(m)) : Shown(m)[k].day = Today => Shown(m)[k].min >= B!SessionStart
  <2> SUFFICES ASSUME NEW k \in 1..Len(Shown(m)), Shown(m)[k].day = Today
               PROVE  Shown(m)[k].min >= B!SessionStart
    OBVIOUS
  <2>1. k - Len(PastBars) \in 1..Len(one) /\ Shown(m)[k] = one[k - Len(PastBars)]
    BY <1>4, <1>6
  <2>2. \A i \in 1..Len(one) : one[i].min >= B!SessionStart
    BY TodayIs DEF one
  <2> QED BY <2>1, <2>2
<1> QED BY <1>4, <1>5, <1>6, <1>7 DEF one, BarSeq

(* The volume of the bars of five minutes of today.                        *)
LEMMA TodayVolume ==
  ASSUME NEW m \in First..(Last + 1)
  PROVE  DayVolume(Shown(m), Today) = B!Volume(TodayShown(m), DOMAIN TodayShown(m))
<1> DEFINE one == TodayShown(m)
           all == Shown(m)
           p == Len(PastBars)
           I == B!DayOf(all, Today)
           J == DOMAIN one
<1>1. /\ one \in BarSeq /\ all \in BarSeq /\ p \in Nat /\ Len(one) \in Nat /\ Len(all) = p + Len(one)
  BY TodayIs, ShownIs DEF BarSeq
<1>2. PICK u : VolumeWalk(all, I, u) /\ B!Volume(all, I) = u[Len(all)]
  <2> HIDE DEF I, all
  <2> QED BY <1>1, VolumeIs
<1>3. PICK v : VolumeWalk(one, J, v) /\ B!Volume(one, J) = v[Len(one)]
  <2> HIDE DEF J, one
  <2> QED BY <1>1, VolumeIs
<1>4. \A k \in 1..p : Amount(all, I, k) = 0
  <2> SUFFICES ASSUME NEW k \in 1..p PROVE Amount(all, I, k) = 0
    OBVIOUS
  <2>1. k \in 1..Len(all) /\ ~(k > p)
    BY <1>1
  <2>2. all[k].day # Today
    BY <2>1, ShownIs
  <2>3. Amount(all, I, k) = Part(all[k], Today)
    BY <1>1, <2>1, AmountIs
  <2> QED BY <2>2, <2>3 DEF Part
<1>5. \A i \in 1..Len(one) : Amount(all, I, p + i) = one[i].vol /\ Amount(one, J, i) = one[i].vol
  <2> SUFFICES ASSUME NEW i \in 1..Len(one)
               PROVE  Amount(all, I, p + i) = one[i].vol /\ Amount(one, J, i) = one[i].vol
    OBVIOUS
  <2>1. p + i \in 1..Len(all) /\ all[p + i] = one[i] /\ one[i].day = Today
    BY TodayIs, ShownIs
  <2>2. Amount(all, I, p + i) = Part(all[p + i], Today)
    BY <1>1, <2>1, AmountIs
  <2>3. i \in J
    BY <1>1 DEF BarSeq
  <2> QED BY <2>1, <2>2, <2>3 DEF Part, Amount
<1> HIDE DEF one, all, p, I, J
<1>6. \A k \in 0..p : u[k] = 0
  <2> DEFINE P == {k \in 0..p : u[k] = 0}
  <2>1. 0 \in P
    BY <1>1, <1>2 DEF VolumeWalk
  <2>2. \A k \in 1..p : k - 1 \in P => k \in P
    BY <1>1, <1>2, <1>4 DEF VolumeWalk
  <2>3. \A k \in 0..p : k \in P
    <3> HIDE DEF P
    <3> QED BY <1>1, <2>1, <2>2, UpTo
  <2> QED BY <2>3
<1>7. \A k \in 0..Len(one) : u[p + k] = v[k]
  <2> DEFINE n == Len(one)
             P == {k \in 0..n : u[p + k] = v[k]}
  <2>1. 0 \in P
    <3>1. p \in 0..p /\ p + 0 = p /\ v[0] = 0
      BY <1>1, <1>3 DEF VolumeWalk
    <3> QED BY <1>1, <1>6, <3>1
  <2>2. ASSUME NEW k \in 1..n, k - 1 \in P PROVE k \in P
    <3>1. p + k \in 1..Len(all) /\ p + k - 1 = p + (k - 1) /\ k - 1 \in 0..n
      BY <1>1
    <3>2. u[p + k] = u[p + k - 1] + one[k].vol
      <4>1. Amount(all, I, p + k) = one[k].vol
        BY <1>5
      <4>2. \A j \in 1..Len(all) : u[j] = u[j - 1] + Amount(all, I, j)
        BY <1>2 DEF VolumeWalk
      <4>3. p \in Int /\ k \in Int
        BY <1>1
      <4> QED BY <3>1, <4>1, <4>2, <4>3
    <3>3. v[k] = v[k - 1] + one[k].vol
      BY <1>3, <1>5 DEF VolumeWalk
    <3> QED BY <2>2, <3>1, <3>2, <3>3
  <2>3. \A k \in 0..n : k \in P
    <3>1. n \in Nat
      BY <1>1
    <3> HIDE DEF P, n
    <3> QED BY <2>1, <2>2, <3>1, UpTo
  <2> QED BY <2>3
<1>8. u[Len(all)] = v[Len(one)]
  BY <1>1, <1>7
<1> QED BY <1>2, <1>3, <1>8 DEF DayVolume, all, one, I, J

(* The span of the bars of five minutes of today, or of its opening range. *)
Those(bars, o) == {j \in 1..Len(bars) : In(bars[j], Today, o)}
LEMMA TodaySpan ==
  ASSUME NEW m \in First..(Last + 1), NEW o \in BOOLEAN
  PROVE  LET one == TodayShown(m)
             five == B!AggregateTo5m(Shown(m))
             span == B!Span(five, Those(five, o))
         IN  /\ Those(five, o) # {} /\ span = B!Span(one, Those(one, o))
             /\ span.high \in Nat \ {0} /\ span.low \in Nat \ {0}
             /\ DOMAIN five = 1..Len(five) /\ DOMAIN one = 1..Len(one)
             /\ \A j \in 1..Len(five) : five[j].min \in Int /\ five[j].min >= B!SessionStart
<1> DEFINE one == TodayShown(m)
           all == Shown(m)
           five == B!AggregateTo5m(all)
           own == Those(five, o)
           mine == Those(one, o)
           p == Len(PastBars)
<1>1. /\ one \in BarSeq /\ Len(one) >= 1 /\ all \in BarSeq /\ five \in BarSeq
      /\ Covers(all, Len(all), five, Today, o)
  BY TodayIs, ShownIs, FivesKeep
<1>2. /\ \A i \in 1..Len(one) : p + i \in 1..Len(all) /\ all[p + i] = one[i] /\ one[i].day = Today
      /\ \A k \in 1..Len(all) : all[k].day = Today => k - p \in 1..Len(one) /\ all[k] = one[k - p]
  <2>1. p \in Nat
    BY ShownIs
  <2>2. \A i \in 1..Len(one) : p + i \in 1..Len(all) /\ all[p + i] = one[i] /\ one[i].day = Today
    BY TodayIs, ShownIs
  <2>3. ASSUME NEW k \in 1..Len(all), all[k].day = Today
        PROVE  k - p \in 1..Len(one) /\ all[k] = one[k - p]
    <3>1. k - p \in 1..Len(one)
      BY <2>3, ShownIs
    <3>2. p + (k - p) = k
      BY <2>1
    <3> QED BY <2>2, <3>1, <3>2
  <2> QED BY <2>2, <2>3
<1>3. /\ own = {j \in 1..Len(five) : In(five[j], Today, o)}
      /\ mine = {i \in 1..Len(one) : In(one[i], Today, o)}
      /\ DOMAIN one = 1..Len(one) /\ DOMAIN five = 1..Len(five)
  BY <1>1 DEF BarSeq, Those
<1>4. \A i \in 1..Len(one) : one[i].high \in Nat \ {0} /\ one[i].low \in Nat \ {0}
  <2>1. \A i \in 1..Len(one) : one[i] \in MinuteBars
    BY <1>1, BarIs
  <2> QED BY <2>1 DEF MinuteBars
<1>15. 1 \in mine
  <2>1. 1 \in 1..Len(one) /\ B!SessionStart \in Int
    BY <1>1 DEF BarSeq, B!SessionStart
  <2>2. one[1].day = Today /\ one[1].min = B!SessionStart + 1 - 1
    BY <2>1, TodayIs
  <2> HIDE DEF one, mine
  <2> QED BY <1>3, <2>1, <2>2 DEF In, Early
<1> HIDE DEF one, all, five, own, mine, p
<1>5. ASSUME NEW i \in mine
      PROVE  \E j \in own : one[i].high <= five[j].high /\ five[j].low <= one[i].low
  <2>1. i \in 1..Len(one) /\ In(one[i], Today, o)
    BY <1>3
  <2>2. p + i \in 1..Len(all) /\ all[p + i] = one[i]
    BY <1>2, <2>1
  <2>3. PICK j \in 1..Len(five) : /\ In(five[j], Today, o)
                                  /\ one[i].high <= five[j].high /\ five[j].low <= one[i].low
    BY <1>1, <2>1, <2>2 DEF Covers
  <2> QED BY <1>3, <2>3
<1>6. ASSUME NEW j \in own
      PROVE  (\E i \in mine : one[i].high = five[j].high) /\ \E i \in mine : one[i].low = five[j].low
  <2>1. PICK k \in 1..Len(all) : In(all[k], Today, o) /\ all[k].high = five[j].high
    BY <1>1, <1>3 DEF Covers
  <2>2. PICK h \in 1..Len(all) : In(all[h], Today, o) /\ all[h].low = five[j].low
    BY <1>1, <1>3 DEF Covers
  <2>3. all[k].day = Today /\ all[h].day = Today
    BY <2>1, <2>2 DEF In
  <2>4. /\ k - p \in 1..Len(one) /\ all[k] = one[k - p]
        /\ h - p \in 1..Len(one) /\ all[h] = one[h - p]
    BY <1>2, <2>3
  <2> QED BY <1>3, <2>1, <2>2, <2>4
<1>16. mine \in SUBSET (1..Len(one)) /\ mine # {}
  BY <1>3, <1>15
<1>7. PICK top \in mine : \A i \in mine : one[i].high <= one[top].high
  BY <1>1, <1>16, HighestIn
<1>8. PICK low \in mine : \A i \in mine : one[low].low <= one[i].low
  BY <1>1, <1>16, LowestIn
<1> DEFINE hi == one[top].high
           lo == one[low].low
<1>9. hi \in Nat \ {0} /\ lo \in Nat \ {0}
  BY <1>4, <1>16
<1>10. B!Max(B!Highs(one, mine)) = hi /\ B!Min(B!Lows(one, mine)) = lo
  <2>1. B!Highs(one, mine) \in SUBSET Int /\ B!Lows(one, mine) \in SUBSET Int
    BY <1>4, <1>16 DEF B!Highs, B!Lows
  <2>2. hi \in B!Highs(one, mine) /\ \A y \in B!Highs(one, mine) : y <= hi
    BY <1>7 DEF B!Highs
  <2>3. lo \in B!Lows(one, mine) /\ \A y \in B!Lows(one, mine) : lo <= y
    BY <1>8 DEF B!Lows
  <2> HIDE DEF hi, lo
  <2> QED BY <2>1, <2>2, <2>3, MaxIs, MinIs
<1>11. B!Max(B!Highs(five, own)) = hi /\ B!Min(B!Lows(five, own)) = lo
  <2>1. \A y \in B!Highs(five, own) : y \in Nat /\ y <= hi
    BY <1>4, <1>6, <1>7, <1>16 DEF B!Highs
  <2>2. \A y \in B!Lows(five, own) : y \in Nat /\ lo <= y
    BY <1>4, <1>6, <1>8, <1>16 DEF B!Lows
  <2>3. hi \in B!Highs(five, own)
    <3>1. PICK j \in own : hi <= five[j].high
      BY <1>5
    <3>2. five[j].high \in B!Highs(five, own)
      BY DEF B!Highs
    <3>3. five[j].high = hi
      BY <1>9, <2>1, <3>1, <3>2
    <3> QED BY <3>2, <3>3
  <2>4. lo \in B!Lows(five, own)
    <3>1. PICK j \in own : five[j].low <= lo
      BY <1>5
    <3>2. five[j].low \in B!Lows(five, own)
      BY DEF B!Lows
    <3>3. five[j].low = lo
      BY <1>9, <2>2, <3>1, <3>2
    <3> QED BY <3>2, <3>3
  <2>5. B!Highs(five, own) \in SUBSET Int /\ B!Lows(five, own) \in SUBSET Int
    BY <2>1, <2>2
  <2> HIDE DEF hi, lo
  <2> QED BY <2>1, <2>2, <2>3, <2>4, <2>5, MaxIs, MinIs
<1>12. own # {}
  BY <1>5, <1>15
<1>13. B!Span(five, own) = [high |-> hi, low |-> lo]
  BY <1>11 DEF B!Span
<1>14. B!Span(one, mine) = [high |-> hi, low |-> lo]
  BY <1>10 DEF B!Span
<1>17. \A j \in 1..Len(five) : five[j].min \in Int /\ five[j].min >= B!SessionStart
  BY <1>1 DEF Covers
<1> HIDE DEF hi, lo
<1> QED BY <1>3, <1>9, <1>12, <1>13, <1>14, <1>17 DEF one, all, five, own, mine

(* calculate_day_range.                                                    *)
LEMMA TodayRange ==
  ASSUME NEW m \in First..(Last + 1)
  PROVE  LET one == TodayShown(m)
             day == B!DayRange(B!AggregateTo5m(Shown(m)), Today)
         IN  day = B!Span(one, DOMAIN one) /\ day.high \in Nat \ {0} /\ day.low \in Nat \ {0}
<1> DEFINE one == TodayShown(m)
           five == B!AggregateTo5m(Shown(m))
           span == B!Span(five, Those(five, FALSE))
<1>1. /\ Those(five, FALSE) # {} /\ span = B!Span(one, Those(one, FALSE))
      /\ span.high \in Nat \ {0} /\ span.low \in Nat \ {0}
      /\ DOMAIN five = 1..Len(five) /\ DOMAIN one = 1..Len(one)
  BY TodaySpan
<1>2. \A i \in 1..Len(one) : one[i].day = Today
  BY TodayIs
<1> HIDE DEF one, five
<1>3. Those(five, FALSE) = B!DayOf(five, Today)
  BY <1>1 DEF Those, In, B!DayOf
<1>4. Those(one, FALSE) = DOMAIN one
  BY <1>1, <1>2 DEF Those, In
<1>5. B!DayRange(five, Today) = span
  BY <1>1, <1>3 DEF B!DayRange
<1> QED BY <1>1, <1>4, <1>5 DEF one, five

(* calculate_orb.                                                          *)
LEMMA OpeningSpan ==
  ASSUME NEW m \in First..(Last + 1)
  PROVE  LET one == TodayShown(m)
         IN  B!OrbOf(B!AggregateTo5m(Shown(m)), Today) = B!Span(one, Opening(one))
<1> DEFINE one == TodayShown(m)
           five == B!AggregateTo5m(Shown(m))
           span == B!Span(five, Those(five, TRUE))
           opening == {i \in B!DayOf(five, Today) : five[i].min \in B!SessionStart..B!SessionStart + 14}
<1>1. /\ Those(five, TRUE) # {} /\ span = B!Span(one, Those(one, TRUE))
      /\ DOMAIN five = 1..Len(five) /\ DOMAIN one = 1..Len(one)
      /\ \A j \in 1..Len(five) : five[j].min \in Int /\ five[j].min >= B!SessionStart
  BY TodaySpan
<1>2. \A i \in 1..Len(one) : one[i].day = Today
  BY TodayIs
<1> HIDE DEF one, five
<1>3. Those(five, TRUE) = opening
  <2>1. \A t \in Int : t >= B!SessionStart =>
          (t < B!SessionStart + 15 <=> t \in B!SessionStart..B!SessionStart + 14)
    BY DEF B!SessionStart
  <2>2. \A j \in 1..Len(five) : Early(five[j]) <=> five[j].min \in B!SessionStart..B!SessionStart + 14
    BY <1>1, <2>1 DEF Early
  <2> QED BY <1>1, <2>2 DEF Those, In, B!DayOf
<1>4. Those(one, TRUE) = Opening(one)
  BY <1>1, <1>2 DEF Those, In, Early, Opening
<1>5. B!OrbOf(five, Today) = span
  BY <1>1, <1>3 DEF B!OrbOf
<1> QED BY <1>1, <1>4, <1>5 DEF one, five

(* get_nearest_levels, whatever the levels of the day before.              *)
LEMMA NearestBound ==
  ASSUME NEW ltp \in Nat, NEW day, day.high \in Nat \ {0}, day.low \in Nat \ {0}
  PROVE  LET near == B!NearestLevels(ltp, Prev, day)
         IN  /\ ltp < day.high => near.resistance > 6 * ltp /\ near.resistance <= 6 * day.high
             /\ ltp >= day.low => near.support <= 6 * ltp /\ near.support >= 6 * day.low
<1> DEFINE L == B!LevelSet(Prev, day)
           above == {l \in L : l > 6 * ltp}
           below == {l \in L : l <= 6 * ltp}
           near == B!NearestLevels(ltp, Prev, day)
<1>1. Prev.high \in Nat /\ Prev.low \in Nat /\ Prev.close \in Nat
  BY ScanAssumption
<1>2. \A n \in DOMAIN B!Pivots(Prev) : B!Pivots(Prev)[n] \in Int
  BY <1>1 DEF B!Pivots
<1>3. L \subseteq Int /\ 6 * day.high \in L /\ 6 * day.low \in L
  <2>1. B!CprBc(Prev) \in Int /\ B!CprTc(Prev) \in Int
    BY <1>1 DEF B!CprBc, B!CprTc, B!Pivots
  <2>2. 6 * day.high \in Int /\ 6 * day.high > 0 /\ 6 * day.low \in Int /\ 6 * day.low > 0
        /\ 6 * Prev.high \in Int /\ 6 * Prev.low \in Int
    BY <1>1
  <2> DEFINE more == {6 * Prev.high, 6 * Prev.low, 6 * day.high, 6 * day.low, B!CprBc(Prev), B!CprTc(Prev)}
             piv == B!Pivots(Prev)
  <2>3. L = {piv[n] : n \in DOMAIN piv} \cup {l \in more : l > 0}
    BY DEF B!LevelSet
  <2>4. more \subseteq Int /\ 6 * day.high \in more /\ 6 * day.low \in more
    BY <2>1, <2>2
  <2>5. {piv[n] : n \in DOMAIN piv} \subseteq Int
    BY <1>2
  <2> HIDE DEF L, more, piv
  <2> QED BY <2>2, <2>3, <2>4, <2>5
<1>4. near.resistance = IF above # {} THEN B!Min(above) ELSE B!Pivots(Prev).R5
  BY DEF B!NearestLevels
<1>5. near.support = IF below # {} THEN B!Max(below) ELSE B!Pivots(Prev).S5
  BY DEF B!NearestLevels
<1> HIDE DEF L, near
<1>6. ASSUME ltp < day.high PROVE near.resistance > 6 * ltp /\ near.resistance <= 6 * day.high
  <2>1. 6 * day.high \in above /\ above \in SUBSET Nat
    <3>1. 6 * day.high > 6 * ltp /\ 6 * ltp \in Nat
      BY <1>6
    <3>2. 6 * day.high \in above /\ above \subseteq L
      BY <1>3, <3>1
    <3>3. \A l \in L : l \in Int
      BY <1>3
    <3>4. \A l \in above : l \in Nat
      BY <3>1, <3>3
    <3> QED BY <3>2, <3>4
  <2>2. PICK x \in above : \A y \in above : x <= y
    <3> HIDE DEF above
    <3> QED BY <2>1, LeastNat
  <2>3. B!Min(above) = x
    <3>1. above \in SUBSET Int
      BY <2>1
    <3> HIDE DEF above
    <3> QED BY <2>2, <3>1, MinIs
  <2>4. near.resistance = x
    BY <1>4, <2>1, <2>3
  <2> QED BY <2>1, <2>2, <2>4
<1>7. ASSUME ltp >= day.low PROVE near.support <= 6 * ltp /\ near.support >= 6 * day.low
  <2> DEFINE gaps == {6 * ltp - l : l \in below}
  <2>1. 6 * day.low \in below /\ below \in SUBSET Int
    <3>1. 6 * day.low <= 6 * ltp
      BY <1>7
    <3>2. 6 * day.low \in below /\ below \subseteq L
      BY <1>3, <3>1
    <3> QED BY <1>3, <3>2
  <2>2. gaps \in SUBSET Nat /\ gaps # {}
    BY <2>1
  <2>3. PICK g \in gaps : \A h \in gaps : g <= h
    <3> HIDE DEF gaps
    <3> QED BY <2>2, LeastNat
  <2>4. PICK x \in below : \A y \in below : y <= x
    <3>1. PICK x \in below : g = 6 * ltp - x
      OBVIOUS
    <3>2. \A y \in below : 6 * ltp - x <= 6 * ltp - y
      BY <2>3, <3>1
    <3> QED BY <2>1, <3>2
  <2>5. B!Max(below) = x
    <3> HIDE DEF below
    <3> QED BY <2>1, <2>4, MaxIs
  <2>6. near.support = x
    BY <1>5, <2>1, <2>5
  <2> QED BY <2>1, <2>4, <2>6
<1> QED BY <1>6, <1>7 DEF near

(* The forming bar moves the confidence by at most 22 points.              *)
LEMMA DeltaBound ==
  ASSUME NEW bars, NEW position, NEW norm
  PROVE  B!ConfidenceDelta(bars, position, norm) \in -22..22
<1>1. \A x \in Int : B!Clamp(x, 22) \in -22..22
  BY DEF B!Clamp
<1> QED BY <1>1, SMTT(60) DEF B!ConfidenceDelta

LEMMA FormingBound ==
  ASSUME NEW m, NEW at
  PROVE  FormingDelta(m, at) \in -22..22
<1>1. 0 \in -22..22
  OBVIOUS
<1> QED BY <1>1, DeltaBound DEF FormingDelta

LEMMA AllExact ==
  ASSUME NEW x \in Snapshots
  PROVE  Exact(x)
<1>1. PICK m \in First..(Last + 1), at \in First..(Last + 1), ltp \in Quotes :
        x = [asOf |-> m, at |-> at, ltp |-> ltp,
             ind |-> Indicators(m, ltp), delta |-> FormingDelta(m, at)]
  BY DEF Snapshots
<1> DEFINE one == TodayShown(m)
           five == B!AggregateTo5m(Shown(m))
           day == B!DayRange(five, Today)
<1>2. day = B!Span(one, DOMAIN one) /\ day.high \in Nat \ {0} /\ day.low \in Nat \ {0}
  BY TodayRange
<1>3. B!Volume(five, B!DayOf(five, Today)) = B!Volume(one, DOMAIN one)
  <2>1. \A o \in BOOLEAN : DayVolume(five, Today) = DayVolume(Shown(m), Today)
    BY ShownIs, FivesKeep
  <2> QED BY <2>1, TodayVolume DEF DayVolume
<1>4. /\ x.asOf = m /\ x.ltp = ltp /\ x.delta = FormingDelta(m, at)
      /\ x.ind.day = day /\ x.ind.near = B!NearestLevels(ltp, Prev, day)
      /\ x.ind.volume = B!Volume(five, B!DayOf(five, Today))
  BY <1>1 DEF Indicators
<1>5. ltp \in Nat
  BY ScanAssumption
<1> HIDE DEF one, five, day
<1>6. LET near == B!NearestLevels(ltp, Prev, day)
      IN  /\ ltp < day.high => near.resistance > 6 * ltp /\ near.resistance <= 6 * day.high
          /\ ltp >= day.low => near.support <= 6 * ltp /\ near.support >= 6 * day.low
  BY <1>2, <1>5, NearestBound
<1>7. x.delta \in -22..22
  BY <1>4, FormingBound
<1> QED BY <1>2, <1>3, <1>4, <1>6, <1>7 DEF Exact, one

(* What a scan publishes is exact: the day's range and volume are those of *)
(* today's 1-minute bars, the nearest levels lie within the day's range    *)
(* on their side of the price, the forming bar's influence is bounded.     *)
THEOREM PublishedExact == ScanSpec => SnapshotExact
<1>1. [ScanNext]_scanVars => [snap' # snap => Exact(snap')]_snap
  <2> SUFFICES ASSUME ScanNext, snap' # snap PROVE Exact(snap')
    BY DEF scanVars
  <2>1. PICK s \in Scans : PublishSnapshot(s)
    BY DEF ScanNext
  <2>2. snap' \in Snapshots
    BY <2>1 DEF PublishSnapshot
  <2> QED BY <2>2, AllExact
<1> QED BY <1>1, PTL DEF ScanSpec, SnapshotExact

(* The opening range of a published snapshot is the span of today's        *)
(* 1-minute bars of before 09:30, as its scan was shown them: the buckets  *)
(* of five minutes neither lose one of them nor mix a later one or one of  *)
(* an earlier day into the range (technicals.py:115-133, 170-206).         *)
THEOREM OpeningExact == ScanSpec => []OpeningRange
<1> DEFINE Known == snap = NoSnapshot \/ snap \in Snapshots
<1>1. ScanInit => Known
  BY DEF ScanInit
<1>2. Known /\ [ScanNext]_scanVars => Known'
  <2> SUFFICES ASSUME Known, ScanNext, snap' # snap PROVE Known'
    BY DEF scanVars
  <2>1. PICK s \in Scans : PublishSnapshot(s)
    BY DEF ScanNext
  <2> QED BY <2>1 DEF PublishSnapshot
<1>3. Known => OpeningRange
  <2> SUFFICES ASSUME snap \in Snapshots
               PROVE  LET one == TodayShown(snap.asOf) IN snap.ind.orb = B!Span(one, Opening(one))
    BY DEF OpeningRange
  <2>1. PICK m \in First..(Last + 1), at \in First..(Last + 1), ltp \in Quotes :
          snap = [asOf |-> m, at |-> at, ltp |-> ltp,
                  ind |-> Indicators(m, ltp), delta |-> FormingDelta(m, at)]
    BY DEF Snapshots
  <2>2. snap.asOf = m /\ snap.ind.orb = B!OrbOf(B!AggregateTo5m(Shown(m)), Today)
    BY <2>1 DEF Indicators
  <2> QED BY <2>2, OpeningSpan
<1> QED BY <1>1, <1>2, <1>3, PTL DEF ScanSpec
=============================================================================
