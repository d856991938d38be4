------------------------- MODULE DecisionFlowProofs -------------------------
(***************************************************************************)
(* Proofs about DecisionFlow, for any followers and scans, any batch size  *)
(* and any number of decisions and faults.  Three invariants besides the   *)
(* types:                                                                  *)
(*                                                                         *)
(*   OnceInv  the stream ahead of the consumer and its batch, in order     *)
(*   MarkInv  what a row, its mark and an insert still on its way can be   *)
(*   LeadInv  what the followers have heard of the lead                    *)
(***************************************************************************)
EXTENDS DecisionFlow, FiniteSetTheorems, TLAPS

-----------------------------------------------------------------------------
(* Types.                                                                  *)

(* A scan starts only with room for a decision on every symbol: those that *)
(* may still publish one fit under the bound.                              *)
Room == made + Cardinality(Coming) <= MaxDecisions

(* What a coroutine has published it keeps until its row is written.       *)
Held == \A c \in Coroutines : IF stage[c] = "row" THEN current[c] \in Messages
                                               ELSE current[c] = NoDecision

Types == TypeOK /\ Room /\ Held

(* The coroutines that may still publish are finitely many, and of one     *)
(* scan there are as many as symbols.                                      *)
LEMMA ComingFinite == IsFiniteSet(Coroutines) /\ IsFiniteSet(Coming) /\ Cardinality(Coming) \in Nat
<1>1. IsFiniteSet(Symbols)
  BY FlowAssumption, FS_Union, FS_Singleton DEF Symbols
<1>2. IsFiniteSet(Coroutines)
  BY <1>1, FlowAssumption, FS_Product DEF Coroutines
<1>3. IsFiniteSet(Coming)
  BY <1>2, FS_Subset DEF Coming
<1> QED BY <1>2, <1>3, FS_CardinalityType

LEMMA OfScan ==
  ASSUME NEW k \in Scans
  PROVE  /\ IsFiniteSet({k} \X Symbols)
         /\ Cardinality({k} \X Symbols) = Cardinality(Symbols) /\ Cardinality(Symbols) \in Nat
<1>1. IsFiniteSet(Symbols) /\ IsFiniteSet({k}) /\ Cardinality({k}) = 1
  BY FlowAssumption, FS_Union, FS_Singleton DEF Symbols
<1>2. Cardinality(Symbols) \in Nat
  BY <1>1, FS_CardinalityType
<1>3. IsFiniteSet({k} \X Symbols) /\ Cardinality({k} \X Symbols) = 1 * Cardinality(Symbols)
  BY <1>1, FS_Product
<1> QED BY <1>2, <1>3

(* One coroutine less leaves room for one decision more.                   *)
LEMMA OneLess ==
  ASSUME NEW c \in Coroutines, Types, stage[c] \in {"data", "llm"},
         NEW l \in {"idle", "row"}, stage' = [stage EXCEPT ![c] = l]
  PROVE  made + 1 + Cardinality(Coming') <= MaxDecisions
<1>1. stage \in [Coroutines -> {"idle", "data", "llm", "row"}]
  BY DEF Types, TypeOK
<1>2. c \in Coming /\ Coming' = Coming \ {c}
  BY <1>1 DEF Coming
<1>3. Cardinality(Coming') = Cardinality(Coming) - 1
  BY <1>2, ComingFinite, FS_RemoveElement
<1> QED BY <1>3, ComingFinite, FlowAssumption DEF Types, TypeOK, Room

(* A coroutine that moves on without publishing needs no more room.        *)
LEMMA NoMore ==
  ASSUME NEW c \in Coroutines, Types, stage[c] # "idle", made' = made,
         NEW l \in {"idle", "llm"}, l = "llm" => stage[c] = "data",
         stage' = [stage EXCEPT ![c] = l]
  PROVE  Room'
<1>1. stage \in [Coroutines -> {"idle", "data", "llm", "row"}]
  BY DEF Types, TypeOK
<1>2. Coming' \subseteq Coming
  BY <1>1 DEF Coming
<1>3. Cardinality(Coming') <= Cardinality(Coming) /\ Cardinality(Coming') \in Nat
  BY <1>2, ComingFinite, FS_Subset, FS_CardinalityType
<1> QED BY <1>3, ComingFinite, FlowAssumption DEF Types, TypeOK, Room

(* The initial state.                                                      *)
LEMMA TypesInit == Init => Types
<1> SUFFICES ASSUME Init PROVE Types
  OBVIOUS
<1>1. Coming = {}
  BY DEF Init, Coming
<1>2. Cardinality(Coming) = 0
  BY <1>1, FS_EmptySet
<1>3. ahead \in Seq(Messages) /\ batch \in Seq(Messages)
  BY DEF Init
<1> QED BY <1>2, <1>3, FlowAssumption DEF Init, Types, TypeOK, Room, Held, NoSignal, Silence, Unheard

(* A coroutine that ends leaves the types right.                           *)
LEMMA LeaveTypes ==
  ASSUME Types, NEW c \in Coroutines, Leave(c), stage[c] # "idle", made' = made
  PROVE  /\ stage' \in [Coroutines -> {"idle", "data", "llm", "row"}]
         /\ peer' \in [Coroutines -> Directions \cup {None}]
         /\ current' \in [Coroutines -> Messages \cup {NoDecision}]
         /\ heard' \in [Coroutines -> [dir : Directions \cup {None}, crossed : BOOLEAN]]
         /\ Room' /\ Held'
<1>1. Room'
  BY NoMore DEF Leave
<1> QED BY <1>1 DEF Types, TypeOK, Held, Leave, Unheard

(* Publishing gives the decision the next id.                              *)
LEMMA PublishTypes ==
  ASSUME Types, NEW c \in Coroutines, stage[c] = "llm", NEW d \in Directions, Publish(c, d)
  PROVE  /\ stage' \in [Coroutines -> {"idle", "data", "llm", "row"}]
         /\ current' \in [Coroutines -> Messages \cup {NoDecision}]
         /\ signal' \in [id : Nat, dir : Directions \cup {None}, crossed : BOOLEAN] /\ due' \subseteq Ids
         /\ made' \in 0..MaxDecisions /\ ahead' \in Seq(Messages)
         /\ Room' /\ Held'
<1> DEFINE msg == [id |-> made + 1, dir |-> d]
<1>1. /\ made' = made + 1 /\ ahead' = Append(ahead, msg)
      /\ due' = (IF dollar THEN due ELSE due \cup {msg.id})
      /\ current' = [current EXCEPT ![c] = msg] /\ stage' = [stage EXCEPT ![c] = "row"]
      /\ signal' = IF OfLead(c) THEN [id |-> msg.id, dir |-> d, crossed |-> FALSE] ELSE signal
  BY DEF Publish
<1>2. made + 1 + Cardinality(Coming') <= MaxDecisions
  BY <1>1, OneLess
<1>3. Cardinality(Coming') \in Nat /\ made \in Nat
  <2>1. IsFiniteSet(Coming')
    BY ComingFinite, FS_Subset, FlowAssumption DEF Coming
  <2> QED BY <2>1, FS_CardinalityType DEF Types, TypeOK
<1>4. made + 1 \in Ids /\ msg \in Messages
  BY <1>2, <1>3, FlowAssumption DEF Ids, Messages
<1>5. ahead' \in Seq(Messages)
  BY <1>1, <1>4 DEF Types, TypeOK
<1>6. made' \in 0..MaxDecisions
  BY <1>1, <1>4 DEF Ids
<1>7. Room'
  BY <1>1, <1>2 DEF Room
<1>8. due' \subseteq Ids
  BY <1>1, <1>4 DEF Types, TypeOK
<1>9. Held'
  BY <1>1, <1>4 DEF Types, TypeOK, Held
<1>10. /\ stage' \in [Coroutines -> {"idle", "data", "llm", "row"}]
       /\ current' \in [Coroutines -> Messages \cup {NoDecision}]
       /\ signal' \in [id : Nat, dir : Directions \cup {None}, crossed : BOOLEAN]
  BY <1>1, <1>4 DEF Types, TypeOK
<1> QED BY <1>5, <1>6, <1>7, <1>8, <1>9, <1>10

(* Steps of the scan.                                                      *)
LEMMA ScanTypes == Types /\ ScanStep => Types'
<1> SUFFICES ASSUME Types, ScanStep PROVE Types'
  OBVIOUS
<1>0. TypeOK
  BY DEF Types
<1>1. ASSUME NEW k \in Scans, StartScan(k) PROVE Types'
  <2>1. /\ Coming' \subseteq Coming \cup ({k} \X Symbols) /\ made' = made
        /\ stage' = [c \in Coroutines |-> IF c[1] = k THEN "data" ELSE stage[c]]
        /\ UNCHANGED <<peer, current, heard>>
        /\ \A c \in Coroutines : c[1] = k => stage[c] = "idle"
    <3>1. \A c \in Coroutines : c[1] = k => c \in {k} \X Symbols
      BY DEF Coroutines
    <3> QED BY <1>0, <1>1, <3>1 DEF StartScan, Scanning, Coming, TypeOK, past
  <2>2. Cardinality(Coming') <= Cardinality(Coming) + Cardinality(Symbols)
    <3>1. IsFiniteSet(Coming \cup ({k} \X Symbols))
      BY ComingFinite, OfScan, FS_Union
    <3>2. Cardinality(Coming \cup ({k} \X Symbols)) <= Cardinality(Coming) + Cardinality(Symbols)
      <4>1. /\ Cardinality(Coming \cup ({k} \X Symbols))
                 = Cardinality(Coming) + Cardinality({k} \X Symbols)
                   - Cardinality(Coming \cap ({k} \X Symbols))
            /\ Cardinality(Coming \cap ({k} \X Symbols)) \in Nat
        BY ComingFinite, OfScan, FS_Union, FS_Intersection, FS_CardinalityType
      <4> QED BY <4>1, ComingFinite, OfScan
    <3>3. /\ Cardinality(Coming') <= Cardinality(Coming \cup ({k} \X Symbols))
          /\ Cardinality(Coming') \in Nat /\ Cardinality(Coming \cup ({k} \X Symbols)) \in Nat
      BY <2>1, <3>1, FS_Subset, FS_CardinalityType
    <3>4. Cardinality(Coming) \in Nat /\ Cardinality(Symbols) \in Nat
      BY ComingFinite, OfScan
    <3> QED BY <3>2, <3>3, <3>4
  <2>3. Room'
    <3>1. Cardinality(Coming') \in Nat
      BY <2>1, ComingFinite, OfScan, FS_Union, FS_Subset, FS_CardinalityType
    <3>2. Cardinality(Coming) \in Nat /\ Cardinality(Symbols) \in Nat
      BY ComingFinite, OfScan
    <3>3. made + Cardinality(Coming) + Cardinality(Symbols) <= MaxDecisions
      BY <1>1 DEF StartScan
    <3>4. made' = made
      BY <2>1
    <3>5. made + Cardinality(Coming') <= MaxDecisions
      <4>1. made \in Nat
        BY <1>0 DEF TypeOK
      <4> QED BY <2>2, <3>1, <3>2, <3>3, <4>1, FlowAssumption
    <3> QED BY <3>4, <3>5 DEF Room
  <2>4. TypeOK'
    BY <1>1, <1>0, <2>1 DEF StartScan, TypeOK, consumer, table, past, delivery
  <2>5. Held'
    BY <2>1 DEF Types, Held
  <2> QED BY <2>3, <2>4, <2>5 DEF Types
<1>2. ASSUME NEW c \in Coroutines, SkipSymbol(c) \/ Garbled(c) PROVE Types'
  <2>1. Leave(c) /\ stage[c] # "idle" /\ made' = made
    BY <1>2 DEF SkipSymbol, Garbled
  <2> QED BY <1>0, <1>2, <2>1, LeaveTypes
          DEF SkipSymbol, Garbled, Types, TypeOK, consumer, table, delivery
<1>3. ASSUME NEW c \in Coroutines, Ask(c) PROVE Types'
  <2>1. Room'
    BY <1>3, NoMore DEF Ask
  <2>2. PeerSignal(c) \in Directions \cup {None}
    BY <1>0 DEF PeerSignal, TypeOK
  <2>3. Held'
    BY <1>0, <1>3 DEF Ask, Types, Held, TypeOK
  <2>4. heard' \in [Coroutines -> [dir : Directions \cup {None}, crossed : BOOLEAN]]
    BY <1>0, <1>3 DEF Ask, TypeOK, Unheard
  <2> QED BY <1>0, <1>3, <2>1, <2>2, <2>3, <2>4 DEF Ask, Types, TypeOK, consumer, table, delivery
<1>4. ASSUME NEW c \in Coroutines, NEW d \in Directions, Answer(c, d) PROVE Types'
  <2>1. stage[c] = "llm" /\ CrossSymbolGate(peer[c], d) \in Directions
    BY <1>4 DEF Answer, CrossSymbolGate, Directions
  <2>2. Publish(c, CrossSymbolGate(peer[c], d))
    BY <1>4 DEF Answer
  <2> HIDE DEF CrossSymbolGate, Publish
  <2> QED BY <1>0, <1>4, <2>1, <2>2, PublishTypes DEF Answer, Types, TypeOK, consumer, table
<1>5. ASSUME NEW c \in Coroutines, NEW out \in Outcomes, PersistDecision(c, out) PROVE Types'
  <2>1. Leave(c) /\ stage[c] # "idle" /\ made' = made
    BY <1>5 DEF PersistDecision
  <2>2. current[c] \in Messages
    BY <1>5 DEF PersistDecision, Types, Held
  <2>3. last' \in [dir : Directions \cup {None}, fresh : BOOLEAN]
    BY <1>0, <1>5, <2>2 DEF PersistDecision, Remembered, TypeOK, Messages
  <2>4. row' \in [Ids -> [saved : BOOLEAN, posted : BOOLEAN]]
    <3>1. out \in [saved : BOOLEAN, posted : BOOLEAN]
      <4>1. CASE out = [saved |-> TRUE, posted |-> FALSE]
        BY <4>1
      <4>2. CASE out = [saved |-> FALSE, posted |-> FALSE]
        BY <4>2
      <4>3. CASE out = [saved |-> FALSE, posted |-> TRUE]
        BY <4>3
      <4> QED BY <4>1, <4>2, <4>3 DEF Outcomes, Saved
    <3> QED BY <1>0, <1>5, <3>1 DEF PersistDecision, TypeOK
  <2>5. faults' \in 0..MaxFaults
    BY <1>0, <1>5, FlowAssumption DEF PersistDecision, Faulty, TypeOK
  <2>6. signal' \in [id : Nat, dir : Directions \cup {None}, crossed : BOOLEAN]
    <3> DEFINE crossed == current[c].id # signal.id
    <3>1. signal' = [signal EXCEPT !.crossed = crossed] \/ signal' = signal
      BY <1>5 DEF PersistDecision
    <3>2. crossed \in BOOLEAN
      OBVIOUS
    <3> HIDE DEF crossed
    <3> QED BY <1>0, <3>1, <3>2 DEF TypeOK
  <2> QED BY <1>0, <1>5, <2>1, <2>3, <2>4, <2>5, <2>6, LeaveTypes
          DEF PersistDecision, Types, TypeOK, consumer, delivery
<1>6. ASSUME NEW c \in Coroutines, ScanFails(c) PROVE Types'
  <2>1. Leave(c) /\ stage[c] # "idle" /\ made' = made
    BY <1>6 DEF ScanFails
  <2>2. faults' \in 0..MaxFaults
    BY <1>0, <1>6, FlowAssumption DEF ScanFails, Faulty, TypeOK
  <2>3. signal' \in [id : Nat, dir : Directions \cup {None}, crossed : BOOLEAN]
    BY <1>0, <1>6 DEF ScanFails, TypeOK
  <2> QED BY <1>0, <1>6, <2>1, <2>2, <2>3, LeaveTypes
          DEF ScanFails, Types, TypeOK, consumer, table, delivery
<1>7. CASE Age
  <2>1. Coming' = Coming
    BY <1>7 DEF Age, Coming
  <2>2. signal' \in [id : Nat, dir : Directions \cup {None}, crossed : BOOLEAN]
    BY <1>0, <1>7 DEF Age, TypeOK
  <2> QED BY <1>0, <1>7, <2>1, <2>2 DEF Age, Types, TypeOK, Room, Held, consumer, table, delivery
<1>8. CASE CoreRestart
  <2>1. Coming' = {}
    BY <1>8 DEF CoreRestart, Coming
  <2>2. Cardinality(Coming') = 0
    BY <2>1, FS_EmptySet
  <2>3. faults' \in 0..MaxFaults
    BY <1>0, <1>8, FlowAssumption DEF CoreRestart, Faulty, TypeOK
  <2>4. Room' /\ Held'
    BY <1>0, <1>8, <2>2 DEF CoreRestart, TypeOK, Room, Held
  <2> QED BY <1>0, <1>8, <2>3, <2>4 DEF CoreRestart, NoSignal, Silence, Unheard, Types, TypeOK,
                                                consumer, table, delivery
<1>9. "HOLD" \in Directions
  BY DEF Directions
<1> QED BY <1>1, <1>2, <1>3, <1>4, <1>5, <1>6, <1>7, <1>8, <1>9 DEF ScanStep, Proceed, LlmTimeout

(* The next entry of a batch.                                              *)
LEMMA NextEntryTypes ==
  ASSUME batch \in Seq(Messages), batch # <<>>, NextEntry
  PROVE  /\ batch' \in Seq(Messages) /\ at' \in {"handle", "watch"}
         /\ at' = "handle" <=> batch' # <<>>
  BY DEF NextEntry

(* The types of what the consumer, Redis and the data-service hold.        *)
Entries == /\ ahead \in Seq(Messages) /\ batch \in Seq(Messages)
           /\ at \in {"read", "handle", "mark", "watch"}
           /\ at \in {"handle", "mark"} <=> batch # <<>>
Counts  == /\ dollar \in BOOLEAN
           /\ row \in [Ids -> [saved : BOOLEAN, posted : BOOLEAN]] /\ acted \subseteq Ids
           /\ handled \in [Ids -> Nat] /\ due \subseteq Ids
           /\ faults \in 0..MaxFaults

LEMMA RestTypes == Types /\ UNCHANGED <<core, made, past>> /\ Entries' /\ Counts' => Types'
  BY DEF Types, TypeOK, Room, Held, Coming, Entries, Counts, core, past

(* A step that may fail counts the failure.                                *)
LEMMA FaultyType == ASSUME Types, NEW bad \in BOOLEAN, Faulty(bad) PROVE faults' \in 0..MaxFaults
  BY FlowAssumption DEF Types, TypeOK, Faulty

(* Steps of the consumer and the data-service.                             *)
LEMMA ConsumeTypes ==
  Types /\ (Consume \/ HandlerFails \/ SimRestart \/ \E i \in Ids : UpsertDecision(i)) => Types'
<1> SUFFICES ASSUME Types, Consume \/ HandlerFails \/ SimRestart \/ \E i \in Ids : UpsertDecision(i)
             PROVE  Types'
  OBVIOUS
<1>1. UNCHANGED <<core, made, past>>
  BY DEF Consume, HandlerFails, SimRestart, UpsertDecision, ReadTimeout, Receive, HandleDecision,
         HandleAndOpen, MarkActed, CheckStopTargets
<1> SUFFICES Entries' /\ Counts'
  BY <1>1, RestTypes
<1>2. Entries /\ Counts
  BY DEF Types, TypeOK, Entries, Counts
<1>3. at \in {"handle", "mark"} =>
        /\ batch # <<>> /\ Head(batch) \in Messages /\ Tail(batch) \in Seq(Messages)
        /\ Head(batch).id \in Ids
  <2>1. \A m \in Messages : m.id \in Ids
    BY DEF Messages
  <2>2. \A q \in Seq(Messages) : q # <<>> => Head(q) \in Messages /\ Tail(q) \in Seq(Messages)
    OBVIOUS
  <2> QED BY <1>2, <2>1, <2>2 DEF Entries
<1>4. CASE ReadTimeout
  BY <1>2, <1>4 DEF ReadTimeout, Entries, Counts, table, delivery
<1>5. CASE Receive
  <2> DEFINE n == IF Len(ahead) < Batch THEN Len(ahead) ELSE Batch
  <2>1. n \in 1..Len(ahead) /\ Len(ahead) \in Nat
    BY <1>2, <1>5, FlowAssumption DEF Receive, Entries
  <2>2. /\ batch' = SubSeq(ahead, 1, n) /\ ahead' = SubSeq(ahead, n + 1, Len(ahead))
        /\ at' = "handle" /\ UNCHANGED <<dollar, table, delivery, faults>>
    BY <1>5 DEF Receive
  <2> HIDE DEF n
  <2>3. batch' \in Seq(Messages) /\ batch' # <<>> /\ ahead' \in Seq(Messages)
    <3>1. \A q \in Seq(Messages) : \A k \in 1..Len(q) :
            /\ SubSeq(q, 1, k) \in Seq(Messages) /\ SubSeq(q, k + 1, Len(q)) \in Seq(Messages)
            /\ Len(SubSeq(q, 1, k)) = k
      OBVIOUS
    <3>2. ahead \in Seq(Messages)
      BY <1>2 DEF Entries
    <3>3. Len(batch') = n /\ n # 0
      BY <2>1, <2>2, <3>1, <3>2
    <3>4. Len(<<>>) = 0
      OBVIOUS
    <3>5. batch' \in Seq(Messages) /\ ahead' \in Seq(Messages)
      BY <2>1, <2>2, <3>1, <3>2
    <3> QED BY <3>3, <3>4, <3>5
  <2> QED BY <1>2, <2>2, <2>3 DEF Entries, Counts, table, delivery
<1>6. CASE HandleDecision
  <2>1. at = "handle" /\ NextEntry /\ ahead' = ahead
    BY <1>6 DEF HandleDecision
  <2>2. Entries'
    BY <1>2, <1>3, <2>1, NextEntryTypes DEF Entries
  <2>3. handled' \in [Ids -> Nat]
    BY <1>2, <1>3, <1>6 DEF HandleDecision, Begin, Counts
  <2> QED BY <1>2, <1>6, <2>2, <2>3 DEF HandleDecision, Begin, Counts, table
<1>7. CASE HandleAndOpen
  <2>1. handled' \in [Ids -> Nat]
    BY <1>2, <1>3, <1>7 DEF HandleAndOpen, Begin, Counts
  <2> QED BY <1>2, <1>3, <1>7, <2>1 DEF HandleAndOpen, Begin, Entries, Counts, table
<1>8. ASSUME NEW reached \in BOOLEAN, MarkActed(reached) PROVE Entries' /\ Counts'
  <2>1. at = "mark" /\ NextEntry /\ ahead' = ahead
    BY <1>8 DEF MarkActed
  <2>2. Entries'
    BY <1>2, <1>3, <2>1, NextEntryTypes DEF Entries
  <2>3. faults' \in 0..MaxFaults
    BY <1>8, FaultyType DEF MarkActed
  <2>4. acted' \subseteq Ids
    BY <1>2, <1>3, <1>8 DEF MarkActed, Counts
  <2> QED BY <1>2, <1>8, <2>2, <2>3, <2>4 DEF MarkActed, Counts, delivery
<1>9. CASE CheckStopTargets
  BY <1>2, <1>9 DEF CheckStopTargets, ReadFrom, Entries, Counts, table
<1>10. CASE HandlerFails
  <2>1. faults' \in 0..MaxFaults
    BY <1>10, FaultyType DEF HandlerFails
  <2>2. at = "handle" /\ batch' = <<>> /\ ahead' = Tail(batch) \o ahead /\ at' = "read"
    BY <1>10 DEF HandlerFails, Refetched
  <2>3. Entries'
    BY <1>2, <1>3, <2>2 DEF Entries
  <2>4. handled' \in [Ids -> Nat]
    BY <1>2, <1>3, <1>10 DEF HandlerFails, Begin, Counts
  <2> QED BY <1>2, <1>10, <2>1, <2>3, <2>4 DEF HandlerFails, Begin, Counts, table
<1>11. CASE SimRestart
  <2>1. faults' \in 0..MaxFaults
    BY <1>11, FaultyType DEF SimRestart
  <2> QED BY <1>2, <1>11, <2>1 DEF SimRestart, Entries, Counts, table
<1>12. ASSUME NEW i \in Ids, UpsertDecision(i) PROVE Entries' /\ Counts'
  BY <1>2, <1>12 DEF UpsertDecision, Saved, Entries, Counts, consumer, delivery
<1> QED BY <1>4, <1>5, <1>6, <1>7, <1>8, <1>9, <1>10, <1>11, <1>12 DEF Consume

(* Types is inductive.                                                     *)
LEMMA TypesStep == Types /\ [Next]_vars => Types'
<1>1. Types /\ UNCHANGED vars => Types'
  BY DEF Types, TypeOK, Room, Held, Coming, vars, core, consumer, table, past, delivery
<1> QED BY <1>1, ScanTypes, ConsumeTypes DEF Next

(* Every variable keeps its type, for any number of followers and scans:   *)
(* the ids of the stream, of the rows and of the handler's counts agree    *)
(* (jobs.py, main.py, data_client.py).                                     *)
THEOREM TypeCorrect == Spec => []TypeOK
<1>1. Types => TypeOK
  BY DEF Types
<1> QED BY <1>1, TypesInit, TypesStep, PTL DEF Spec

-----------------------------------------------------------------------------
(* Each decision is handled once.                                          *)

(* The entries the consumer has not begun with: what XREAD will return and *)
(* what it has returned, but for the first of the batch once that is only  *)
(* to be marked.  They are in the order of the stream and untouched.       *)
Ordered(q)   == \A j, k \in 1..Len(q) : j < k => q[j].id < q[k].id
Untouched(i) == i <= made /\ handled[i] = 0
OnceInv ==
  /\ Ordered(batch) /\ Ordered(ahead)
  /\ \A j \in 1..Len(batch), k \in 1..Len(ahead) : batch[j].id < ahead[k].id
  /\ \A k \in 1..Len(ahead) : Untouched(ahead[k].id)
  /\ \A k \in 1..Len(batch) : k > 1 \/ at = "handle" => Untouched(batch[k].id)
  /\ \A k \in 1..Len(batch) : batch[k].id <= made
  /\ \A i \in Ids : handled[i] <= 1 /\ (i > made => handled[i] = 0)

(* The first entry of a batch is its head, the others are the tail.        *)
LEMMA TailOf == \A q \in Seq(Messages) : q # <<>> =>
  /\ Head(q) = q[1] /\ Len(q) \in Nat \ {0} /\ Len(Tail(q)) = Len(q) - 1
  /\ Tail(q) \in Seq(Messages)
  /\ \A k \in 1..Len(Tail(q)) : Tail(q)[k] = q[k + 1]
  OBVIOUS

(* A message has an id.                                                    *)
LEMMA MessageId == \A q \in Seq(Messages) : \A k \in 1..Len(q) : q[k].id \in Ids /\ q[k].id \in Nat
<1>1. \A m \in Messages : m.id \in Ids
  BY DEF Messages
<1> QED BY <1>1 DEF Ids

(* XADD appends the newest id.                                             *)
LEMMA OncePublish ==
  ASSUME Types, OnceInv, NEW c \in Coroutines, NEW d \in Directions, Publish(c, d), made + 1 \in Ids,
         UNCHANGED <<batch, at, handled>>
  PROVE  OnceInv'
<1> DEFINE msg == [id |-> made + 1, dir |-> d]
<1>1. made' = made + 1 /\ ahead' = Append(ahead, msg) /\ made \in Nat
  BY DEF Publish, Types, TypeOK
<1>2. ahead \in Seq(Messages) /\ batch \in Seq(Messages) /\ handled \in [Ids -> Nat]
  BY DEF Types, TypeOK
<1>3. msg.id = made + 1 /\ handled[made + 1] = 0
  BY <1>1 DEF OnceInv
<1> HIDE DEF msg
<1>4. /\ Len(ahead) \in Nat /\ Len(ahead') = Len(ahead) + 1 /\ ahead'[Len(ahead) + 1] = msg
      /\ \A k \in 1..Len(ahead) : ahead'[k] = ahead[k]
  BY <1>1, <1>2
<1>5. /\ \A k \in 1..Len(ahead) : ahead[k].id \in Nat
      /\ \A k \in 1..Len(batch) : batch[k].id \in Nat
  BY <1>2, MessageId
<1>6. \A k \in 1..Len(ahead') : k \in 1..Len(ahead) \/ k = Len(ahead) + 1
  BY <1>4
<1>7. Ordered(ahead)'
  BY <1>1, <1>3, <1>4, <1>5, <1>6 DEF OnceInv, Ordered, Untouched
<1>8. \A k \in 1..Len(ahead') : ahead'[k].id <= made' /\ handled'[ahead'[k].id] = 0
  BY <1>1, <1>3, <1>4, <1>5, <1>6 DEF OnceInv, Untouched
<1>9. \A j \in 1..Len(batch), k \in 1..Len(ahead') : batch[j].id < ahead'[k].id
  BY <1>1, <1>3, <1>4, <1>5, <1>6 DEF OnceInv
<1>10. \A k \in 1..Len(batch) : batch[k].id <= made' /\ (k > 1 \/ at = "handle" => handled'[batch[k].id] = 0)
  BY <1>1, <1>5 DEF OnceInv, Untouched
<1>11. \A i \in Ids : handled[i] <= 1 /\ (i > made' => handled[i] = 0)
  BY <1>1 DEF OnceInv, Ids
<1> QED BY <1>7, <1>8, <1>9, <1>10, <1>11 DEF OnceInv, Ordered, Untouched

(* Steps of the scan.                                                      *)
LEMMA OnceScan == Types /\ OnceInv /\ ScanStep => OnceInv'
<1> SUFFICES ASSUME Types, OnceInv, ScanStep PROVE OnceInv'
  OBVIOUS
<1>1. CASE UNCHANGED <<made, ahead, consumer, handled>>
  BY <1>1 DEF OnceInv, Ordered, Untouched, consumer
<1>2. ASSUME NEW c \in Coroutines, NEW d \in Directions, Answer(c, d) PROVE OnceInv'
  <2>1. stage[c] = "llm" /\ CrossSymbolGate(peer[c], d) \in Directions
    BY <1>2 DEF Answer, CrossSymbolGate, Directions
  <2>2. Publish(c, CrossSymbolGate(peer[c], d)) /\ UNCHANGED <<batch, at, handled>>
    BY <1>2 DEF Answer, consumer
  <2>3. made' = made + 1
    BY <2>2 DEF Publish
  <2>4. made' \in 0..MaxDecisions
    BY <2>1, <2>2, PublishTypes
  <2>5. made + 1 \in Ids
    BY <2>3, <2>4 DEF Types, TypeOK, Ids
  <2> QED BY <2>1, <2>2, <2>5, OncePublish
<1>3. "HOLD" \in Directions
  BY DEF Directions
<1>4. UNCHANGED <<made, ahead, consumer, handled>>
      \/ \E c \in Coroutines, d \in Directions : Answer(c, d)
  BY <1>3 DEF ScanStep, StartScan, Proceed, SkipSymbol, Garbled, Ask, LlmTimeout, PersistDecision,
              ScanFails, Age, CoreRestart, delivery
<1> QED BY <1>1, <1>2, <1>4

(* Going on to the next entry drops the one that was begun with.           *)
LEMMA OnceNext ==
  ASSUME Types, OnceInv, at \in {"handle", "mark"}, NextEntry, UNCHANGED <<made, ahead>>,
         \/ handled' = handled
         \/ at = "handle" /\ handled' = [handled EXCEPT ![Head(batch).id] = @ + 1]
  PROVE  OnceInv'
<1>1. ahead \in Seq(Messages) /\ batch \in Seq(Messages) /\ batch # <<>> /\ handled \in [Ids -> Nat]
      /\ made \in Nat
  BY DEF Types, TypeOK
<1>2. /\ Head(batch) = batch[1] /\ Len(batch) \in Nat \ {0} /\ Len(batch') = Len(batch) - 1
      /\ \A k \in 1..Len(batch') : batch'[k] = batch[k + 1]
  BY <1>1, TailOf DEF NextEntry
<1>3. /\ \A k \in 1..Len(batch) : batch[k].id \in Ids /\ batch[k].id \in Nat
      /\ \A k \in 1..Len(ahead) : ahead[k].id \in Ids /\ ahead[k].id \in Nat
  BY <1>1, MessageId
<1>4. \A k \in 1..Len(batch') : k + 1 \in 1..Len(batch) /\ k + 1 > 1 /\ 1 < k + 1
  BY <1>2
<1>5. 1 \in 1..Len(batch)
  BY <1>2
<1>6. \A i \in Ids : i # batch[1].id => handled'[i] = handled[i]
  BY <1>1, <1>2
<1>7. \A i \in Ids : handled'[i] <= 1 /\ (i > made => handled'[i] = 0)
  <2>1. CASE handled' = handled
    BY <2>1 DEF OnceInv
  <2>2. CASE at = "handle" /\ handled' = [handled EXCEPT ![Head(batch).id] = @ + 1]
    <3>1. Untouched(batch[1].id)
      BY <1>5, <2>2 DEF OnceInv
    <3>2. handled'[batch[1].id] = 1 /\ batch[1].id <= made
      BY <1>1, <1>2, <1>3, <1>5, <2>2, <3>1 DEF Untouched
    <3> QED BY <1>3, <1>5, <1>6, <3>2, <1>1 DEF OnceInv, Ids
  <2> QED BY <2>1, <2>2
<1>8. \A k \in 1..Len(batch') : batch'[k].id # batch[1].id /\ Untouched(batch'[k].id)
  <2>1. \A k \in 1..Len(batch) : k > 1 => batch[k].id # batch[1].id
    BY <1>3, <1>5 DEF OnceInv, Ordered
  <2>2. \A k \in 1..Len(batch) : k > 1 => Untouched(batch[k].id)
    BY DEF OnceInv
  <2> QED BY <1>2, <1>4, <2>1, <2>2
<1>9. \A k \in 1..Len(ahead) : ahead[k].id # batch[1].id /\ Untouched(ahead[k].id)
  BY <1>3, <1>5 DEF OnceInv
<1>10. \A k \in 1..Len(batch') : batch'[k].id <= made' /\ handled'[batch'[k].id] = 0
  BY <1>2, <1>3, <1>4, <1>6, <1>8 DEF Untouched
<1>11. \A k \in 1..Len(ahead) : ahead[k].id <= made' /\ handled'[ahead[k].id] = 0
  BY <1>3, <1>6, <1>9 DEF Untouched
<1>12. Ordered(batch)' /\ Ordered(ahead)'
  BY <1>2, <1>4 DEF OnceInv, Ordered
<1>13. \A j \in 1..Len(batch'), k \in 1..Len(ahead) : batch'[j].id < ahead[k].id
  BY <1>2, <1>4 DEF OnceInv
<1> QED BY <1>7, <1>10, <1>11, <1>12, <1>13 DEF OnceInv, Untouched

(* Steps of the consumer and the data-service.                             *)
LEMMA OnceConsume ==
  Types /\ OnceInv
    /\ (Consume \/ HandlerFails \/ SimRestart \/ \E i \in Ids : UpsertDecision(i)) => OnceInv'
<1> SUFFICES ASSUME Types, OnceInv,
                    Consume \/ HandlerFails \/ SimRestart \/ \E i \in Ids : UpsertDecision(i)
             PROVE  OnceInv'
  OBVIOUS
<1>1. /\ ahead \in Seq(Messages) /\ batch \in Seq(Messages) /\ handled \in [Ids -> Nat] /\ made \in Nat
      /\ at \in {"handle", "mark"} <=> batch # <<>>
  BY DEF Types, TypeOK
<1>2. Len(<<>>) = 0 /\ \A k \in 1..0 : FALSE
  OBVIOUS
<1>3. /\ \A k \in 1..Len(batch) : batch[k].id \in Ids /\ batch[k].id \in Nat
      /\ \A k \in 1..Len(ahead) : ahead[k].id \in Ids /\ ahead[k].id \in Nat
  BY <1>1, MessageId
<1>4. CASE ReadTimeout
  BY <1>1, <1>2, <1>4 DEF ReadTimeout, delivery, OnceInv, Ordered, Untouched
<1>5. CASE Receive
  <2> DEFINE n == IF Len(ahead) < Batch THEN Len(ahead) ELSE Batch
  <2>1. n \in 1..Len(ahead) /\ Len(ahead) \in Nat
    BY <1>1, <1>5, FlowAssumption DEF Receive
  <2>2. /\ batch' = SubSeq(ahead, 1, n) /\ ahead' = SubSeq(ahead, n + 1, Len(ahead))
        /\ at' = "handle" /\ UNCHANGED <<made, handled>>
    BY <1>5 DEF Receive, delivery
  <2> HIDE DEF n
  <2>3. /\ Len(batch') = n /\ \A k \in 1..n : batch'[k] = ahead[k]
        /\ Len(ahead') = Len(ahead) - n /\ \A k \in 1..(Len(ahead) - n) : ahead'[k] = ahead[k + n]
    BY <1>1, <2>1, <2>2
  <2>4. /\ \A k \in 1..n : k \in 1..Len(ahead)
        /\ \A k \in 1..(Len(ahead) - n) : k + n \in 1..Len(ahead) /\ \A j \in 1..n : j < k + n
    BY <2>1
  <2>5. Ordered(batch)'
    BY <2>3, <2>4 DEF OnceInv, Ordered
  <2>6. Ordered(ahead)'
    <3>1. \A j, k \in 1..(Len(ahead) - n) : j < k => j + n < k + n
      BY <2>1
    <3> QED BY <2>3, <2>4, <3>1 DEF OnceInv, Ordered
  <2>7. \A j \in 1..Len(batch'), k \in 1..Len(ahead') : batch'[j].id < ahead'[k].id
    BY <2>3, <2>4 DEF OnceInv, Ordered
  <2>8. /\ \A k \in 1..Len(ahead') : ahead'[k].id <= made' /\ handled'[ahead'[k].id] = 0
        /\ \A k \in 1..Len(batch') : batch'[k].id <= made' /\ handled'[batch'[k].id] = 0
    <3>1. \A k \in 1..Len(ahead) : ahead[k].id <= made' /\ handled'[ahead[k].id] = 0
      BY <2>2 DEF OnceInv, Untouched
    <3>2. \A k \in 1..n : ahead[k].id <= made' /\ handled'[ahead[k].id] = 0
      BY <2>4, <3>1
    <3>3. \A k \in 1..(Len(ahead) - n) : ahead[k + n].id <= made' /\ handled'[ahead[k + n].id] = 0
      BY <2>4, <3>1
    <3>4. \A k \in 1..Len(batch') : batch'[k].id <= made' /\ handled'[batch'[k].id] = 0
      BY <2>3, <3>2
    <3>5. \A k \in 1..Len(ahead') : ahead'[k].id <= made' /\ handled'[ahead'[k].id] = 0
      BY <2>3, <3>3
    <3> QED BY <3>4, <3>5
  <2> QED BY <2>2, <2>5, <2>6, <2>7, <2>8 DEF OnceInv, Untouched
<1>6. CASE HandleDecision
  BY <1>6, OnceNext DEF HandleDecision, Begin
<1>7. CASE HandleAndOpen
  <2>1. /\ at = "handle" /\ at' = "mark" /\ UNCHANGED <<made, ahead, batch>>
        /\ handled' = [handled EXCEPT ![Head(batch).id] = @ + 1] /\ batch # <<>>
    BY <1>1, <1>7 DEF HandleAndOpen, Begin
  <2>2. Head(batch) = batch[1] /\ 1 \in 1..Len(batch)
    BY <1>1, <2>1, TailOf
  <2>3. Untouched(batch[1].id)
    BY <2>1, <2>2 DEF OnceInv
  <2>4. handled'[batch[1].id] = 1 /\ \A i \in Ids : i # batch[1].id => handled'[i] = handled[i]
    BY <1>1, <1>3, <2>1, <2>2, <2>3 DEF Untouched
  <2>5. \A i \in Ids : handled'[i] <= 1 /\ (i > made => handled'[i] = 0)
    BY <1>1, <1>3, <2>2, <2>3, <2>4 DEF OnceInv, Untouched, Ids
  <2>6. \A k \in 1..Len(ahead) : ahead[k].id # batch[1].id
    BY <1>3, <2>2 DEF OnceInv
  <2>7. \A k \in 1..Len(batch) : k > 1 => batch[k].id # batch[1].id /\ Untouched(batch[k].id)
    BY <1>3, <2>2 DEF OnceInv, Ordered
  <2>8. \A k \in 1..Len(ahead) : ahead[k].id <= made' /\ handled'[ahead[k].id] = 0
    BY <1>3, <2>1, <2>4, <2>6 DEF OnceInv, Untouched
  <2>9. \A k \in 1..Len(batch) : k > 1 => batch[k].id <= made' /\ handled'[batch[k].id] = 0
    BY <1>3, <2>1, <2>4, <2>7 DEF Untouched
  <2> QED BY <2>1, <2>5, <2>8, <2>9 DEF OnceInv, Ordered, Untouched
<1>8. ASSUME NEW reached \in BOOLEAN, MarkActed(reached) PROVE OnceInv'
  <2>1. at = "mark" /\ NextEntry /\ UNCHANGED <<made, ahead>> /\ handled' = handled
    BY <1>8 DEF MarkActed, delivery
  <2> QED BY <2>1, OnceNext DEF NextEntry
<1>9. CASE CheckStopTargets
  <2>1. CASE dollar
    <3>1. ahead' = <<>>
      BY <1>9, <2>1 DEF CheckStopTargets, ReadFrom
    <3> QED BY <1>1, <1>2, <1>9, <3>1 DEF CheckStopTargets, ReadFrom, OnceInv, Ordered, Untouched
  <2>2. CASE ~dollar
    BY <1>1, <1>2, <1>9, <2>2 DEF CheckStopTargets, ReadFrom, OnceInv, Ordered, Untouched
  <2> QED BY <2>1, <2>2
<1>10. CASE HandlerFails
  <2>1. /\ at = "handle" /\ batch' = <<>> /\ ahead' = Tail(batch) \o ahead /\ at' = "read"
        /\ made' = made /\ handled' = [handled EXCEPT ![Head(batch).id] = @ + 1] /\ batch # <<>>
    BY <1>1, <1>10 DEF HandlerFails, Begin, Refetched
  <2> DEFINE n == Len(batch) - 1
  <2>2. /\ Head(batch) = batch[1] /\ 1 \in 1..Len(batch) /\ Len(batch) \in Nat /\ Len(ahead) \in Nat
        /\ n \in Nat /\ Len(Tail(batch)) = n /\ Tail(batch) \in Seq(Messages)
        /\ \A k \in 1..n : Tail(batch)[k] = batch[k + 1]
    BY <1>1, <2>1, TailOf
  <2> HIDE DEF n
  <2>3. /\ Len(ahead') = n + Len(ahead)
        /\ \A k \in 1..(n + Len(ahead)) :
             ahead'[k] = IF k <= n THEN Tail(batch)[k] ELSE ahead[k - n]
    <3>1. \A p, q \in Seq(Messages) :
            /\ Len(p \o q) = Len(p) + Len(q)
            /\ \A k \in 1..(Len(p) + Len(q)) : (p \o q)[k] = IF k <= Len(p) THEN p[k] ELSE q[k - Len(p)]
      OBVIOUS
    <3> QED BY <1>1, <2>1, <2>2, <3>1
  <2>4. \A k \in 1..(n + Len(ahead)) :
          \/ k \in 1..n /\ k + 1 \in 1..Len(batch) /\ k + 1 > 1 /\ ahead'[k] = batch[k + 1]
          \/ k > n /\ k - n \in 1..Len(ahead) /\ ahead'[k] = ahead[k - n]
    BY <2>2, <2>3 DEF n
  <2>5. Untouched(batch[1].id)
    BY <2>1, <2>2 DEF OnceInv
  <2>6. handled'[batch[1].id] = 1 /\ \A i \in Ids : i # batch[1].id => handled'[i] = handled[i]
    BY <1>1, <1>3, <2>1, <2>2, <2>5 DEF Untouched
  <2>7. \A i \in Ids : handled'[i] <= 1 /\ (i > made => handled'[i] = 0)
    BY <1>1, <1>3, <2>2, <2>5, <2>6 DEF OnceInv, Untouched, Ids
  <2>8. \A k \in 1..Len(ahead) : ahead[k].id # batch[1].id /\ Untouched(ahead[k].id)
    BY <1>3, <2>2 DEF OnceInv
  <2>9. \A k \in 1..Len(batch) : k > 1 => batch[k].id # batch[1].id /\ Untouched(batch[k].id)
    BY <1>3, <2>2 DEF OnceInv, Ordered
  <2>10. ASSUME NEW k \in 1..Len(ahead') PROVE ahead'[k].id <= made' /\ handled'[ahead'[k].id] = 0
    <3>1. CASE k + 1 \in 1..Len(batch) /\ k + 1 > 1 /\ ahead'[k] = batch[k + 1]
      BY <1>3, <2>1, <2>6, <2>9, <3>1 DEF Untouched
    <3>2. CASE k - n \in 1..Len(ahead) /\ ahead'[k] = ahead[k - n]
      BY <1>3, <2>1, <2>6, <2>8, <3>2 DEF Untouched
    <3> QED BY <2>3, <2>4, <3>1, <3>2
  <2>11. ASSUME NEW j \in 1..Len(ahead'), NEW k \in 1..Len(ahead'), j < k
         PROVE  ahead'[j].id < ahead'[k].id
    <3>0. j \in Int /\ k \in Int /\ n \in Int
      BY <2>2
    <3>1. CASE k \in 1..n
      <4>1. j + 1 \in 1..Len(batch) /\ k + 1 \in 1..Len(batch) /\ j + 1 < k + 1
            /\ ahead'[j] = batch[j + 1] /\ ahead'[k] = batch[k + 1]
        BY <2>3, <2>4, <2>11, <3>0, <3>1
      <4> QED BY <4>1 DEF OnceInv, Ordered
    <3>2. CASE j \in 1..n /\ k > n
      <4>1. j + 1 \in 1..Len(batch) /\ k - n \in 1..Len(ahead)
            /\ ahead'[j] = batch[j + 1] /\ ahead'[k] = ahead[k - n]
        BY <2>3, <2>4, <3>0, <3>2
      <4> QED BY <4>1 DEF OnceInv
    <3>3. CASE j > n
      <4>1. j - n \in 1..Len(ahead) /\ k - n \in 1..Len(ahead) /\ j - n < k - n
            /\ ahead'[j] = ahead[j - n] /\ ahead'[k] = ahead[k - n]
        BY <2>3, <2>4, <2>11, <3>0, <3>3
      <4> QED BY <4>1 DEF OnceInv, Ordered
    <3> QED BY <3>0, <3>1, <3>2, <3>3, <2>3
  <2> QED BY <1>2, <2>1, <2>7, <2>10, <2>11 DEF OnceInv, Ordered, Untouched
<1>11. CASE SimRestart
  BY <1>2, <1>11 DEF SimRestart, OnceInv, Ordered, Untouched
<1>12. ASSUME NEW i \in Ids, UpsertDecision(i) PROVE OnceInv'
  BY <1>12 DEF UpsertDecision, OnceInv, Ordered, Untouched, consumer, delivery
<1> QED BY <1>4, <1>5, <1>6, <1>7, <1>8, <1>9, <1>10, <1>11, <1>12 DEF Consume

(* OnceInv holds at the start.                                             *)
LEMMA OnceInit == Init => OnceInv
<1>1. Len(<<>>) = 0 /\ \A k \in 1..0 : FALSE
  OBVIOUS
<1> QED BY <1>1 DEF Init, OnceInv, Ordered, Ids

(* OnceInv is inductive.                                                   *)
LEMMA OnceStep == Types /\ OnceInv /\ [Next]_vars => OnceInv'
<1>1. OnceInv /\ UNCHANGED vars => OnceInv'
  BY DEF OnceInv, Ordered, Untouched, vars, consumer, delivery
<1> QED BY <1>1, OnceScan, OnceConsume DEF Next

(* No decision is traded twice: through exceptions in a handler, batches   *)
(* read again and restarts, each is handled at most once (main.py:270).    *)
THEOREM EachHandledOnce == Spec => []HandledOnce
<1>1. OnceInv => HandledOnce
  BY DEF OnceInv, HandledOnce
<1> QED BY <1>1, TypesInit, TypesStep, OnceInit, OnceStep, PTL DEF Spec

-----------------------------------------------------------------------------
(* An acted mark stays.                                                    *)

(* A decision that is not yet a row has left nothing in the table, and two *)
(* coroutines never write the same row; a marked row is complete, and no   *)
(* insert of it is still on its way.                                       *)
NoRow    == [saved |-> FALSE, posted |-> FALSE]
Writes(c, i) == stage[c] = "row" /\ current[c].id = i
MarkInv ==
  /\ \A i \in Ids : row[i] \in Outcomes
  /\ \A i \in acted : row[i] = Saved
  /\ \A i \in Ids : i > made \/ (\E c \in Coroutines : Writes(c, i)) => row[i] = NoRow
  /\ \A c \in Coroutines : stage[c] = "row" => current[c].id <= made
  /\ \A c, t \in Coroutines : stage[c] = "row" /\ stage[t] = "row" /\ current[c].id = current[t].id
                             => c = t

(* A coroutine that ends, or goes on without publishing, writes no row.    *)
LEMMA MarkLeaves ==
  ASSUME Types, MarkInv, UNCHANGED <<made, row, acted>>,
         \A c \in Coroutines : stage'[c] = "row" => stage[c] = "row" /\ current'[c] = current[c]
  PROVE  MarkInv'
  BY DEF MarkInv, Writes

(* Steps of the scan.                                                      *)
LEMMA MarkScan == Types /\ MarkInv /\ ScanStep => MarkInv' /\ acted' = acted
<1> SUFFICES ASSUME Types, MarkInv, ScanStep PROVE MarkInv' /\ acted' = acted
  OBVIOUS
<1>1. /\ stage \in [Coroutines -> {"idle", "data", "llm", "row"}]
      /\ current \in [Coroutines -> Messages \cup {NoDecision}]
      /\ row \in [Ids -> [saved : BOOLEAN, posted : BOOLEAN]] /\ made \in Nat /\ acted \subseteq Ids
  BY DEF Types, TypeOK
<1>2. CASE /\ UNCHANGED <<made, row, acted>>
           /\ \A c \in Coroutines : stage'[c] = "row" => stage[c] = "row" /\ current'[c] = current[c]
  BY <1>2, MarkLeaves
<1>3. ASSUME NEW k \in Scans, StartScan(k) PROVE MarkInv' /\ acted' = acted
  <2>1. \A c \in Coroutines : stage'[c] = "row" => stage[c] = "row" /\ current'[c] = current[c]
    BY <1>3 DEF StartScan
  <2> QED BY <1>2, <1>3, <2>1 DEF StartScan, table
<1>4. ASSUME NEW c \in Coroutines, SkipSymbol(c) \/ Garbled(c) \/ ScanFails(c) PROVE MarkInv' /\ acted' = acted
  BY <1>1, <1>2, <1>4 DEF SkipSymbol, Garbled, ScanFails, Leave, table
<1>5. ASSUME NEW c \in Coroutines, Ask(c) PROVE MarkInv' /\ acted' = acted
  BY <1>1, <1>2, <1>5 DEF Ask, table
<1>6. ASSUME NEW c \in Coroutines, NEW d \in Directions, Answer(c, d) PROVE MarkInv' /\ acted' = acted
  <2> DEFINE msg == [id |-> made + 1, dir |-> CrossSymbolGate(peer[c], d)]
  <2>1. /\ stage[c] = "llm" /\ made' = made + 1 /\ UNCHANGED <<row, acted>>
        /\ current' = [current EXCEPT ![c] = msg] /\ stage' = [stage EXCEPT ![c] = "row"]
    BY <1>6 DEF Answer, Publish, table
  <2>2. msg.id = made + 1
    OBVIOUS
  <2> HIDE DEF msg
  <2>3. current'[c].id = made + 1 /\ stage'[c] = "row"
        /\ \A t \in Coroutines \ {c} : current'[t] = current[t] /\ stage'[t] = stage[t]
    BY <1>1, <2>1, <2>2
  <2>4. \A i \in Ids : i > made' => i > made
    BY <1>1, <2>1 DEF Ids
  <2>5. \A i \in Ids : i = made + 1 => i > made
    BY <1>1
  <2>6. \A i \in Ids : i > made' \/ (\E t \in Coroutines : Writes(t, i)') => row'[i] = NoRow
    BY <2>1, <2>3, <2>4, <2>5 DEF MarkInv, Writes
  <2>7. \A t \in Coroutines : stage[t] = "row" => current[t].id \in Nat /\ current[t].id <= made
    BY <1>1 DEF Types, Held, Messages, Ids, MarkInv
  <2>8. \A t \in Coroutines : stage'[t] = "row" => current'[t].id <= made'
    BY <1>1, <2>1, <2>3, <2>7
  <2>9. \A t, u \in Coroutines : stage'[t] = "row" /\ stage'[u] = "row" /\ current'[t].id = current'[u].id
                                => t = u
    BY <1>1, <2>1, <2>3, <2>7 DEF MarkInv
  <2> QED BY <2>1, <2>6, <2>8, <2>9 DEF MarkInv
<1>7. ASSUME NEW c \in Coroutines, NEW out \in Outcomes, PersistDecision(c, out)
      PROVE  MarkInv' /\ acted' = acted
  <2> DEFINE i == current[c].id
  <2>1. /\ stage[c] = "row" /\ UNCHANGED <<made, acted>> /\ row' = [row EXCEPT ![i] = out]
        /\ stage' = [stage EXCEPT ![c] = "idle"] /\ current' = [current EXCEPT ![c] = NoDecision]
    BY <1>7 DEF PersistDecision, Leave
  <2>2. i \in Ids /\ i <= made /\ row[i] = NoRow /\ Saved # NoRow
    BY <2>1 DEF Types, Held, Messages, MarkInv, Writes, Saved, NoRow
  <2> HIDE DEF i
  <2>3. i \notin acted
    BY <2>2 DEF MarkInv
  <2>4. row'[i] = out /\ \A j \in Ids : j # i => row'[j] = row[j]
    BY <1>1, <2>1, <2>2
  <2>5. \A t \in Coroutines : stage'[t] = "row" => t # c /\ stage[t] = "row" /\ current'[t] = current[t]
    BY <1>1, <2>1
  <2>6. \A t \in Coroutines : stage'[t] = "row" => current'[t].id # i
    BY <2>1, <2>5 DEF MarkInv, i
  <2>7. \A j \in Ids : j > made => j # i
    BY <1>1, <2>2 DEF Ids
  <2>8. \A j \in Ids : j > made \/ (\E t \in Coroutines : Writes(t, j)') => row'[j] = NoRow
    BY <2>4, <2>5, <2>6, <2>7 DEF MarkInv, Writes
  <2>9. /\ \A j \in Ids : row'[j] \in Outcomes
        /\ \A j \in acted : row'[j] = Saved
    BY <1>1, <2>3, <2>4 DEF MarkInv
  <2>10. /\ \A t \in Coroutines : stage'[t] = "row" => current'[t].id <= made
         /\ \A t, u \in Coroutines : stage'[t] = "row" /\ stage'[u] = "row"
                                    /\ current'[t].id = current'[u].id => t = u
    BY <2>5 DEF MarkInv
  <2> QED BY <2>1, <2>8, <2>9, <2>10 DEF MarkInv
<1>8. CASE Age \/ CoreRestart
  BY <1>1, <1>2, <1>8 DEF Age, CoreRestart, table
<1>9. "HOLD" \in Directions
  BY DEF Directions
<1> QED BY <1>3, <1>4, <1>5, <1>6, <1>7, <1>8, <1>9 DEF ScanStep, Proceed, LlmTimeout

(* Steps of the consumer and the data-service.                             *)
LEMMA MarkConsume ==
  Types /\ MarkInv
    /\ (Consume \/ HandlerFails \/ SimRestart \/ \E i \in Ids : UpsertDecision(i))
    => MarkInv' /\ acted \subseteq acted'
<1> SUFFICES ASSUME Types, MarkInv,
                    Consume \/ HandlerFails \/ SimRestart \/ \E i \in Ids : UpsertDecision(i)
             PROVE  MarkInv' /\ acted \subseteq acted'
  OBVIOUS
<1>1. UNCHANGED <<stage, current, made>>
  BY DEF Consume, HandlerFails, SimRestart, UpsertDecision, ReadTimeout, Receive, HandleDecision,
         HandleAndOpen, MarkActed, CheckStopTargets, core
<1>2. CASE UNCHANGED table
  BY <1>1, <1>2 DEF MarkInv, Writes, table
<1>3. row \in [Ids -> [saved : BOOLEAN, posted : BOOLEAN]] /\ acted \subseteq Ids
      /\ Saved.saved /\ ~Saved.posted /\ ~NoRow.saved /\ ~NoRow.posted
  BY DEF Types, TypeOK, Saved, NoRow
<1>4. \A out \in Outcomes : out.saved => out = Saved
  BY DEF Outcomes, Saved
<1>5. ASSUME NEW reached \in BOOLEAN, MarkActed(reached) PROVE MarkInv' /\ acted \subseteq acted'
  <2> DEFINE i == Head(batch).id
  <2>1. /\ row' = row /\ at = "mark"
        /\ acted' = IF reached /\ row[i].saved THEN acted \cup {i} ELSE acted
    BY <1>5 DEF MarkActed
  <2>2. i \in Ids
    <3>1. \A q \in Seq(Messages) : q # <<>> => Head(q) \in Messages
      OBVIOUS
    <3>2. \A m \in Messages : m.id \in Ids
      BY DEF Messages
    <3> QED BY <2>1, <3>1, <3>2 DEF Types, TypeOK
  <2> HIDE DEF i
  <2>3. \A j \in acted' : row[j] = Saved
    BY <1>4, <2>1, <2>2 DEF MarkInv
  <2> QED BY <1>1, <2>1, <2>3 DEF MarkInv, Writes
<1>6. ASSUME NEW i \in Ids, UpsertDecision(i) PROVE MarkInv' /\ acted \subseteq acted'
  <2>1. row[i].posted /\ row' = [row EXCEPT ![i] = Saved] /\ acted' = acted \ {i}
    BY <1>6 DEF UpsertDecision
  <2>2. i \notin acted /\ row[i] # NoRow
    BY <1>3, <2>1 DEF MarkInv
  <2>3. row'[i] = Saved /\ \A j \in Ids : j # i => row'[j] = row[j]
    BY <1>3, <2>1
  <2>4. Saved \in Outcomes
    BY DEF Outcomes
  <2>5. acted' = acted
    BY <2>1, <2>2
  <2>6. \A j \in Ids : j > made \/ (\E c \in Coroutines : Writes(c, j)) => j # i
    BY <2>2 DEF MarkInv
  <2>7. \A j \in Ids : j > made \/ (\E c \in Coroutines : Writes(c, j)') => row'[j] = NoRow
    BY <1>1, <2>3, <2>6 DEF MarkInv, Writes
  <2>8. (\A j \in Ids : row'[j] \in Outcomes) /\ \A j \in acted : row'[j] = Saved
    BY <1>3, <2>2, <2>3, <2>4 DEF MarkInv
  <2> QED BY <1>1, <2>5, <2>7, <2>8 DEF MarkInv
<1> QED BY <1>2, <1>5, <1>6 DEF Consume, HandlerFails, SimRestart, ReadTimeout, Receive,
                                HandleDecision, HandleAndOpen, CheckStopTargets

(* MarkInv holds at the start.                                             *)
LEMMA MarkInit == Init => MarkInv
  BY DEF Init, MarkInv, Writes, NoRow, Outcomes

(* MarkInv is inductive, and a step that keeps it takes no mark back.      *)
LEMMA MarkStep == Types /\ MarkInv /\ [Next]_vars => MarkInv' /\ acted \subseteq acted'
<1>1. MarkInv /\ UNCHANGED vars => MarkInv' /\ acted \subseteq acted'
  BY DEF MarkInv, Writes, vars, core, table
<1> QED BY <1>1, MarkScan, MarkConsume DEF Next

(* acted_upon, once set, stays set, late inserts of given-up requests      *)
(* included (data-service upsert_decision).                                *)
THEOREM MarksStay == Spec => MarkSticks
<1>1. Types /\ MarkInv /\ [Next]_vars => [acted \subseteq acted']_vars
  BY MarkStep
<1> QED BY <1>1, TypesInit, TypesStep, MarkInit, MarkStep, PTL DEF Spec, MarkSticks

-----------------------------------------------------------------------------
(* The lead's direction binds the followers.                               *)

(* What the cache holds, once no coroutine of the lead is between XADD and *)
(* the end of its row, unless an earlier decision went into it last: the   *)
(* lead's latest direction, still young.  A coroutine still writing is of  *)
(* that direction if its decision is the latest.  A follower gates with    *)
(* what it has heard.                                                      *)
LeadInv ==
  /\ signal.id <= made
  /\ \A c \in Coroutines : OfLead(c) /\ stage[c] = "row" /\ current[c].id = signal.id
                             => signal.dir \in {None, current[c].dir}
  /\ ~LeadWriting /\ ~signal.crossed /\ signal.dir # None => last.fresh /\ last.dir = signal.dir
  /\ \A c \in Coroutines : OfLead(c) /\ stage[c] = "row" => current[c].id <= signal.id
  /\ \A c \in Coroutines : heard[c].crossed \/ heard[c].dir \in {None, peer[c]}

(* The gate turns what opposes the peer signal into HOLD.                  *)
LEMMA GateHolds == \A p, d : ~Opposed(p, CrossSymbolGate(p, d))
  BY DEF Opposed, CrossSymbolGate

(* What a coroutine publishes in a step opposes nothing it has heard.      *)
Unopposed == \A c \in Coroutines : Publishes(c) /\ ~heard[c].crossed
                                      => ~Opposed(heard[c].dir, current'[c].dir)

(* A step that publishes nothing is unopposed.                             *)
LEMMA Quiet ==
  ASSUME \A c \in Coroutines : current'[c] \in {current[c], NoDecision}
  PROVE  Unopposed
  BY DEF Unopposed, Publishes

(* A coroutine that ends disturbs no other, and is unopposed.              *)
LEMMA LeaveLead ==
  ASSUME Types, LeadInv, NEW c \in Coroutines, Leave(c)
  PROVE  /\ stage'[c] = "idle"
         /\ \A b \in Coroutines : b # c => stage'[b] = stage[b] /\ current'[b] = current[b]
         /\ \A b \in Coroutines : heard'[b].crossed \/ heard'[b].dir \in {None, peer'[b]}
         /\ Unopposed
<1>1. /\ stage \in [Coroutines -> {"idle", "data", "llm", "row"}]
      /\ current \in [Coroutines -> Messages \cup {NoDecision}]
      /\ peer \in [Coroutines -> Directions \cup {None}]
      /\ heard \in [Coroutines -> [dir : Directions \cup {None}, crossed : BOOLEAN]]
  BY DEF Types, TypeOK
<1>2. /\ stage'[c] = "idle" /\ current'[c] = NoDecision /\ heard'[c] = Unheard
      /\ \A b \in Coroutines : b # c => stage'[b] = stage[b] /\ current'[b] = current[b]
      /\ \A b \in Coroutines : b # c => heard'[b] = heard[b] /\ peer'[b] = peer[b]
  BY <1>1 DEF Leave
<1>3. Unheard.dir = None
  BY DEF Unheard
<1>4. \A b \in Coroutines : heard'[b].crossed \/ heard'[b].dir \in {None, peer'[b]}
  BY <1>2, <1>3 DEF LeadInv
<1>5. \A b \in Coroutines : current'[b] \in {current[b], NoDecision}
  BY <1>2
<1> QED BY <1>2, <1>4, <1>5, Quiet

(* Each step keeps LeadInv and is unopposed.                               *)
LEMMA LeadStep == Types /\ LeadInv /\ [Next]_vars => LeadInv' /\ Unopposed
<1> SUFFICES ASSUME Types, LeadInv, [Next]_vars PROVE LeadInv' /\ Unopposed
  OBVIOUS
<1>1. /\ stage \in [Coroutines -> {"idle", "data", "llm", "row"}]
      /\ current \in [Coroutines -> Messages \cup {NoDecision}]
      /\ peer \in [Coroutines -> Directions \cup {None}]
      /\ heard \in [Coroutines -> [dir : Directions \cup {None}, crossed : BOOLEAN]]
      /\ last \in [dir : Directions \cup {None}, fresh : BOOLEAN] /\ made \in Nat
      /\ signal \in [id : Nat, dir : Directions \cup {None}, crossed : BOOLEAN]
  BY DEF Types, TypeOK
<1>2. CASE UNCHANGED <<core, made, past>>
  BY <1>2 DEF LeadInv, LeadWriting, Unopposed, Publishes, core, past
<1>3. ASSUME NEW k \in Scans, StartScan(k) PROVE LeadInv' /\ Unopposed
  <2>1. /\ stage' = [c \in Coroutines |-> IF c[1] = k THEN "data" ELSE stage[c]]
        /\ UNCHANGED <<peer, current, last, made, signal, heard>>
        /\ \A c \in Coroutines : c[1] = k => stage[c] = "idle"
    BY <1>3 DEF StartScan, Scanning, past
  <2>2. \A c \in Coroutines : stage'[c] = "row" <=> stage[c] = "row"
    BY <2>1
  <2> QED BY <2>1, <2>2, Quiet DEF LeadInv, LeadWriting
<1>4. ASSUME NEW c \in Coroutines, SkipSymbol(c) \/ Garbled(c) PROVE LeadInv' /\ Unopposed
  <2>1. /\ Leave(c) /\ stage[c] # "row" /\ UNCHANGED <<last, made, signal>>
    BY <1>4 DEF SkipSymbol, Garbled
  <2>2. \A b \in Coroutines : OfLead(b) =>
             /\ stage'[b] = "row" <=> stage[b] = "row"
             /\ stage'[b] = "row" => current'[b] = current[b]
    BY <2>1, LeaveLead
  <2>3. LeadWriting' <=> LeadWriting
    BY <2>2 DEF LeadWriting, OfLead
  <2> QED BY <2>1, <2>2, <2>3, LeaveLead DEF LeadInv
<1>5. ASSUME NEW c \in Coroutines, Ask(c) PROVE LeadInv' /\ Unopposed
  <2>1. /\ stage[c] = "data" /\ stage' = [stage EXCEPT ![c] = "llm"]
        /\ peer' = [peer EXCEPT ![c] = PeerSignal(c)]
        /\ heard' = [heard EXCEPT ![c] = IF OfLead(c) \/ LeadWriting THEN Unheard
                                         ELSE [dir |-> signal.dir, crossed |-> signal.crossed]]
        /\ UNCHANGED <<current, last, made, signal>>
    BY <1>5 DEF Ask
  <2>2. ~OfLead(c) /\ ~LeadWriting /\ ~signal.crossed => signal.dir \in {None, PeerSignal(c)}
    BY DEF LeadInv, PeerSignal
  <2>3. \A b \in Coroutines : heard'[b].crossed \/ heard'[b].dir \in {None, peer'[b]}
    BY <1>1, <2>1, <2>2 DEF LeadInv, Unheard
  <2>4. \A b \in Coroutines : stage'[b] = "row" <=> stage[b] = "row"
    BY <1>1, <2>1
  <2> QED BY <2>1, <2>3, <2>4, Quiet DEF LeadInv, LeadWriting
<1>6. ASSUME NEW c \in Coroutines, NEW d \in Directions, Answer(c, d) PROVE LeadInv' /\ Unopposed
  <2> DEFINE e == CrossSymbolGate(peer[c], d)
             msg == [id |-> made + 1, dir |-> e]
  <2>1. /\ stage[c] = "llm" /\ UNCHANGED <<peer, last, heard>> /\ made' = made + 1
        /\ current' = [current EXCEPT ![c] = msg] /\ stage' = [stage EXCEPT ![c] = "row"]
        /\ signal' = IF OfLead(c) THEN [id |-> made + 1, dir |-> e, crossed |-> FALSE] ELSE signal
    BY <1>6 DEF Answer, Publish
  <2>2. msg.dir = e /\ msg.id = made + 1
    OBVIOUS
  <2>3. ~heard[c].crossed => ~Opposed(heard[c].dir, e)
    <3>1. CASE heard[c].dir = None
      BY <3>1, FlowAssumption DEF Opposed
    <3>2. CASE heard[c].dir = peer[c]
      BY <3>2, GateHolds
    <3> QED BY <3>1, <3>2 DEF LeadInv
  <2> HIDE DEF e, msg
  <2>4. /\ stage'[c] = "row" /\ current'[c] = msg
        /\ \A b \in Coroutines : b # c => stage'[b] = stage[b] /\ current'[b] = current[b]
    BY <1>1, <2>1
  <2>5. Unopposed
    BY <2>2, <2>3, <2>4 DEF Unopposed, Publishes
  <2>6. \A b \in Coroutines : stage[b] = "row" => current[b].id \in Nat
    BY DEF Types, Held, Messages, Ids
  <2>7. CASE OfLead(c)
    <3>1. /\ signal'.id = made + 1 /\ signal'.dir = e /\ ~signal'.crossed /\ LeadWriting'
      BY <2>1, <2>4, <2>7 DEF LeadWriting, OfLead
    <3>2. \A b \in Coroutines : OfLead(b) /\ b # c /\ stage'[b] = "row" => current'[b].id < made + 1
      BY <1>1, <2>4, <2>6 DEF LeadInv
    <3>3. \A b \in Coroutines : OfLead(b) /\ stage'[b] = "row"
             => current'[b].id <= signal'.id
                /\ (current'[b].id = signal'.id => signal'.dir \in {None, current'[b].dir})
      BY <1>1, <2>2, <2>4, <2>6, <3>1, <3>2
    <3> QED BY <1>1, <2>1, <2>5, <3>1, <3>3 DEF LeadInv
  <2>8. CASE ~OfLead(c)
    <3>1. signal' = signal /\ (LeadWriting' <=> LeadWriting)
      BY <2>1, <2>4, <2>8 DEF LeadWriting, OfLead
    <3>2. \A b \in Coroutines : OfLead(b) => stage'[b] = stage[b] /\ current'[b] = current[b]
      BY <2>4, <2>8
    <3>3. signal.id <= made'
      BY <1>1, <2>1 DEF LeadInv
    <3> QED BY <2>1, <2>5, <3>1, <3>2, <3>3 DEF LeadInv
  <2> QED BY <2>7, <2>8
<1>7. ASSUME NEW c \in Coroutines, NEW out \in Outcomes, PersistDecision(c, out)
      PROVE  LeadInv' /\ Unopposed
  <2> DEFINE crossed == current[c].id # signal.id
  <2>1. /\ stage[c] = "row" /\ Leave(c) /\ made' = made
        /\ signal' = IF OfLead(c) THEN [signal EXCEPT !.crossed = crossed] ELSE signal
        /\ last' = IF OfLead(c) THEN [dir |-> current[c].dir, fresh |-> TRUE] ELSE last
    BY <1>7 DEF PersistDecision, Remembered
  <2>2. \A b \in Coroutines : stage'[b] = "row" => stage[b] = "row" /\ current'[b] = current[b]
    BY <2>1, LeaveLead
  <2>3. CASE OfLead(c)
    <3>1. signal'.id = signal.id /\ signal'.dir = signal.dir /\ signal'.crossed = crossed
      <4>1. signal' = [signal EXCEPT !.crossed = crossed]
        BY <2>1, <2>3
      <4> HIDE DEF crossed
      <4> QED BY <1>1, <4>1
    <3>2. ~signal'.crossed => signal.dir \in {None, current[c].dir}
      <4>1. ~crossed => signal.dir \in {None, current[c].dir}
        BY <2>1, <2>3 DEF LeadInv
      <4> HIDE DEF crossed
      <4> QED BY <3>1, <4>1
    <3>3. last'.fresh /\ last'.dir = current[c].dir
      BY <2>1, <2>3
    <3> HIDE DEF crossed
    <3>4. ~LeadWriting' /\ ~signal'.crossed /\ signal'.dir # None
            => last'.fresh /\ last'.dir = signal'.dir
      BY <3>1, <3>2, <3>3
    <3>5. \A b \in Coroutines : OfLead(b) /\ stage'[b] = "row"
             => current'[b].id <= signal'.id
                /\ (current'[b].id = signal'.id => signal'.dir \in {None, current'[b].dir})
      BY <2>2, <3>1 DEF LeadInv
    <3>6. signal'.id <= made'
      BY <2>1, <3>1 DEF LeadInv
    <3> QED BY <2>1, <3>4, <3>5, <3>6, LeaveLead DEF LeadInv
  <2>4. CASE ~OfLead(c)
    <3>1. signal' = signal /\ last' = last /\ made' = made
      BY <2>1, <2>4
    <3>2. \A b \in Coroutines : OfLead(b) => stage'[b] = stage[b] /\ current'[b] = current[b]
      BY <2>1, <2>4, LeaveLead
    <3>3. LeadWriting' <=> LeadWriting
      BY <3>2 DEF LeadWriting, OfLead
    <3> QED BY <2>1, <3>1, <3>2, <3>3, LeaveLead DEF LeadInv, OfLead
  <2> QED BY <2>3, <2>4
<1>8. ASSUME NEW c \in Coroutines, ScanFails(c) PROVE LeadInv' /\ Unopposed
  <2>1. /\ Leave(c) /\ UNCHANGED <<last, made>>
        /\ signal' = IF OfLead(c) /\ stage[c] = "row" THEN [signal EXCEPT !.dir = None] ELSE signal
    BY <1>8 DEF ScanFails
  <2>2. \A b \in Coroutines : stage'[b] = "row" => stage[b] = "row" /\ current'[b] = current[b]
    BY <2>1, LeaveLead
  <2>3. CASE OfLead(c) /\ stage[c] = "row"
    <3>1. signal'.id = signal.id /\ signal'.dir = None
      BY <1>1, <2>1, <2>3
    <3>2. \A b \in Coroutines : OfLead(b) /\ stage'[b] = "row" => current'[b].id <= signal'.id
      BY <2>2, <3>1 DEF LeadInv
    <3> QED BY <2>1, <3>1, <3>2, LeaveLead DEF LeadInv
  <2>4. CASE ~(OfLead(c) /\ stage[c] = "row")
    <3>1. signal' = signal /\ last' = last /\ made' = made
      BY <2>1, <2>4
    <3>2. \A b \in Coroutines : OfLead(b) =>
             /\ stage'[b] = "row" <=> stage[b] = "row"
             /\ stage'[b] = "row" => current'[b] = current[b]
      BY <2>1, <2>4, LeaveLead
    <3>3. LeadWriting' <=> LeadWriting
      BY <3>2 DEF LeadWriting, OfLead
    <3> QED BY <2>1, <3>1, <3>2, <3>3, LeaveLead DEF LeadInv, OfLead
  <2> QED BY <2>3, <2>4
<1>9. CASE Age
  <2>1. /\ UNCHANGED <<stage, peer, current, made, heard>>
        /\ signal' = IF LeadWriting THEN signal ELSE [signal EXCEPT !.dir = None]
    BY <1>9 DEF Age
  <2>2. signal'.id = signal.id /\ (LeadWriting' <=> LeadWriting)
    BY <1>1, <2>1 DEF LeadWriting, OfLead
  <2>3. signal'.dir = None \/ (LeadWriting /\ signal' = signal)
    BY <1>1, <2>1
  <2> QED BY <2>1, <2>2, <2>3, Quiet DEF LeadInv
<1>10. CASE CoreRestart
  BY <1>1, <1>10, Quiet DEF CoreRestart, Silence, Unheard, LeadInv, LeadWriting
<1>11. UNCHANGED <<core, made, past>> \/ ScanStep
  BY DEF Next, vars, Consume, HandlerFails, SimRestart, UpsertDecision, ReadTimeout, Receive,
         HandleDecision, HandleAndOpen, MarkActed, CheckStopTargets
<1>12. "HOLD" \in Directions
  BY DEF Directions
<1> QED BY <1>2, <1>3, <1>4, <1>5, <1>6, <1>7, <1>8, <1>9, <1>10, <1>11, <1>12
        DEF ScanStep, Proceed, LlmTimeout

(* LeadInv holds at the start.                                             *)
LEMMA LeadInit == Init => LeadInv
  BY DEF Init, LeadInv, LeadWriting, Silence, Unheard

(* Whatever scans overlap, a follower never publishes the opposite of the  *)
(* lead's latest direction, if that was the last one remembered when the   *)
(* follower took its peer signal (jobs.py:60).                             *)
THEOREM LeadObeyed == Spec => NotOpposed
<1>1. Types /\ LeadInv /\ [Next]_vars => [Unopposed]_vars
  BY LeadStep
<1> QED BY <1>1, TypesInit, TypesStep, LeadInit, LeadStep, PTL DEF Spec, NotOpposed, Unopposed
=============================================================================
