---------------------------- MODULE DecisionFlow ----------------------------
(***************************************************************************)
(* A decision on its way from the market scan of the core-engine           *)
(* (scheduler/jobs.py, llm/decision.py) over the Redis stream "decisions"  *)
(* to the consumer of the simulation-engine (main.py), and its row in the  *)
(* data-service.                                                           *)
(*                                                                         *)
(* A scan runs one coroutine per symbol under asyncio.gather, and scans    *)
(* may overlap: the scheduler runs one instance of its job at a time, but  *)
(* POST /scan/trigger takes no lock.  The consumer is one task of another  *)
(* process.  One action is the code up to the next await that matters.     *)
(* Prompts, prices, indicators, the candle tables and the confidence are   *)
(* left out: a decision is its direction.  Whether it opens a position is  *)
(* the subject of EntryGates and PaperBroker; here it is a choice.         *)
(***************************************************************************)
EXTENDS Integers, Sequences, FiniteSets

CONSTANTS
  Lead,       \* _CROSS_SYMBOL_LEAD
  Followers,  \* the other symbols of the watchlist
  Scans,      \* the scheduled scan, and requests of a scan that run beside it
  None,       \* no direction
  Batch,      \* count of XREAD
  MaxDecisions, \* bound: decisions published
  MaxFaults   \* bound: exceptions, restarts and calls lost or late

ASSUME FlowAssumption ==
  /\ Lead \notin Followers /\ IsFiniteSet(Followers) /\ IsFiniteSet(Scans)
  /\ None \notin {"BUY", "SELL", "HOLD"}
  /\ Batch \in Nat \ {0} /\ MaxDecisions \in Nat /\ MaxFaults \in Nat

Symbols    == {Lead} \cup Followers
Coroutines == Scans \X Symbols       \* _process_symbol(symbol) of a scan
Directions == {"BUY", "SELL", "HOLD"}
Ids        == 1..MaxDecisions
Messages   == [id : Ids, dir : Directions]

VARIABLES
  \* core-engine
  stage,    \* where each coroutine is suspended
  peer,     \* its peer_signal
  current,  \* the decision it has published
  last,     \* the lead's entry in _last_decisions
  made,     \* decisions published
  \* Redis: the entries of "decisions" after the consumer's last_id
  ahead,
  \* simulation-engine
  at,       \* where the consumer is
  batch,    \* the entries XREAD returned that are not handled yet
  dollar,   \* last_id is still "$"
  \* data-service
  row,      \* ai_decisions, and the insert a timed-out client left behind
  acted,    \* rows with acted_upon
  \* history, read by no action
  signal,   \* the lead's latest published direction, while it is 15 minutes young,
            \* and whether an earlier decision was remembered after it
  heard,    \* what signal was when a follower took its peer_signal, unless
            \* the lead was about to replace what it is based on
  handled,  \* how often each decision was handled
  due,      \* published to a consumer past its first message, not handled yet
  faults    \* exceptions, restarts and calls lost or late so far

core     == <<stage, peer, current, last>>
consumer == <<at, batch, dollar>>
table    == <<row, acted>>
past     == <<signal, heard>>
delivery == <<handled, due>>
vars == <<core, made, ahead, consumer, table, past, delivery, faults>>

(* Something goes wrong, within the bound.                                 *)
Faulty(bad) == IF bad THEN faults < MaxFaults /\ faults' = faults + 1 ELSE faults' = faults

NoSignal   == [dir |-> None, fresh |-> FALSE]
NoDecision == [id |-> 0, dir |-> None]
Silence    == [id |-> 0, dir |-> None, crossed |-> FALSE]
Unheard    == [dir |-> None, crossed |-> FALSE]

Init ==
  /\ stage = [c \in Coroutines |-> "idle"]
  /\ peer = [c \in Coroutines |-> None]
  /\ current = [c \in Coroutines |-> NoDecision]
  /\ last = NoSignal
  /\ made = 0
  /\ ahead = <<>>
  /\ at = "read" /\ batch = <<>> /\ dollar = TRUE
  /\ row = [i \in Ids |-> [saved |-> FALSE, posted |-> FALSE]]
  /\ acted = {}
  /\ signal = Silence
  /\ heard = [c \in Coroutines |-> Unheard]
  /\ handled = [i \in Ids |-> 0]
  /\ due = {}
  /\ faults = 0

-----------------------------------------------------------------------------
(* The market scan.                                                        *)

OfLead(c)   == c[2] = Lead
LeadWriting == \E c \in Coroutines : OfLead(c) /\ stage[c] = "row"
Scanning(k) == \E c \in Coroutines : c[1] = k /\ stage[c] # "idle"

(* The scheduler starts its scan when the one before has ended, a request  *)
(* starts one at any time; here, while there is room for a decision on     *)
(* every symbol besides those that may still come.                         *)
Coming == {c \in Coroutines : stage[c] \in {"data", "llm"}}

StartScan(k) ==
  /\ ~Scanning(k)
  /\ made + Cardinality(Coming) + Cardinality(Symbols) <= MaxDecisions
  /\ stage' = [c \in Coroutines |-> IF c[1] = k THEN "data" ELSE stage[c]]
  /\ UNCHANGED <<peer, current, last, made, ahead, consumer, table, past, delivery, faults>>

(* The coroutine c ends, with its locals.                                  *)
Leave(c) == /\ stage' = [stage EXCEPT ![c] = "idle"]
            /\ peer' = [peer EXCEPT ![c] = None]
            /\ current' = [current EXCEPT ![c] = NoDecision]
            /\ heard' = [heard EXCEPT ![c] = Unheard]

(* No quote, too few candles, session over, or too early in the bar.       *)
SkipSymbol(c) ==
  /\ stage[c] = "data"
  /\ Leave(c)
  /\ UNCHANGED <<last, made, ahead, consumer, table, signal, delivery, faults>>

PeerSignal(c) == IF ~OfLead(c) /\ last.fresh THEN last.dir ELSE None

(* Data written, peer signal taken, prompt sent.                           *)
Ask(c) ==
  /\ stage[c] = "data"
  /\ stage' = [stage EXCEPT ![c] = "llm"]
  /\ peer' = [peer EXCEPT ![c] = PeerSignal(c)]
  /\ heard' = [heard EXCEPT ![c] = IF OfLead(c) \/ LeadWriting THEN Unheard
                                   ELSE [dir |-> signal.dir, crossed |-> signal.crossed]]
  /\ UNCHANGED <<current, last, made, ahead, consumer, table, signal, delivery, faults>>

Opposed(d, e) == {d, e} = {"BUY", "SELL"}

(* _apply_cross_symbol_gate.                                               *)
GateOneWay(p, d) == IF p = "SELL" /\ d = "BUY" THEN "HOLD" ELSE d
CrossSymbolGate(p, d) == IF Opposed(p, d) THEN "HOLD" ELSE d

(* XADD: the consumer will read the entry, unless it steps over it.        *)
Publish(c, d) ==
  LET msg == [id |-> made + 1, dir |-> d]
  IN  /\ made' = made + 1
      /\ ahead' = Append(ahead, msg)
      /\ due' = IF dollar THEN due ELSE due \cup {msg.id}
      /\ current' = [current EXCEPT ![c] = msg]
      /\ stage' = [stage EXCEPT ![c] = "row"]
      /\ signal' = IF OfLead(c) THEN [id |-> msg.id, dir |-> d, crossed |-> FALSE] ELSE signal

(* The LLM's answer d parsed and validated, gated and published.           *)
Answer(c, d) ==
  /\ stage[c] = "llm"
  /\ Publish(c, CrossSymbolGate(peer[c], d))
  /\ UNCHANGED <<peer, last, consumer, table, heard, handled, faults>>

(* An answer without JSON: no decision.                                    *)
Garbled(c) ==
  /\ stage[c] = "llm"
  /\ Leave(c)
  /\ UNCHANGED <<last, made, ahead, consumer, table, signal, delivery, faults>>

(* wait_for gives up after provider.timeout: HOLD.                         *)
NoTimeout(c) == FALSE /\ UNCHANGED vars
LlmTimeout(c) == Answer(c, "HOLD")

(* ZADD decision:log, then the POST of the row: done, lost, or given up    *)
(* after 5 s while the data-service still works on it.  _post swallows     *)
(* every exception, so its retry decorator never sees one.                 *)
Saved    == [saved |-> TRUE, posted |-> FALSE]
Retried  == {Saved, [saved |-> TRUE, posted |-> TRUE]}
Outcomes == {Saved, [saved |-> FALSE, posted |-> FALSE], [saved |-> FALSE, posted |-> TRUE]}

(* The lead's decision is the peer signal of the coroutines to come, also  *)
(* when a later one of the lead was remembered before it.                  *)
FirstKept(c)  == IF OfLead(c) /\ ~last.fresh THEN [dir |-> current[c].dir, fresh |-> TRUE] ELSE last
Remembered(c) == IF OfLead(c) THEN [dir |-> current[c].dir, fresh |-> TRUE] ELSE last

PersistDecision(c, out) ==
  /\ stage[c] = "row"
  /\ row' = [row EXCEPT ![current[c].id] = out]
  /\ Faulty(out # Saved)
  /\ last' = Remembered(c)
  /\ signal' = IF OfLead(c) THEN [signal EXCEPT !.crossed = current[c].id # signal.id]
                            ELSE signal
  /\ Leave(c)
  /\ UNCHANGED <<made, ahead, consumer, acted, delivery>>

(* An exception, of Redis for one, ends the coroutine; gather collects it.  *)
(* After XADD it comes from the ZADD: the decision is out, but neither kept *)
(* as a row nor remembered.                                                *)
ScanFails(c) ==
  /\ stage[c] # "idle" /\ Faulty(TRUE)
  /\ Leave(c)
  /\ signal' = IF OfLead(c) /\ stage[c] = "row" THEN [signal EXCEPT !.dir = None] ELSE signal
  /\ UNCHANGED <<last, made, ahead, consumer, table, delivery>>

(* _PEER_SIGNAL_MAX_AGE_S goes by.                                         *)
Age ==
  /\ last.fresh
  /\ last' = [last EXCEPT !.fresh = FALSE]
  /\ signal' = IF LeadWriting THEN signal ELSE [signal EXCEPT !.dir = None]
  /\ UNCHANGED <<stage, peer, current, made, ahead, consumer, table, heard, delivery,
                 faults>>

(* The core-engine restarts: _last_decisions is empty.                     *)
CoreRestart ==
  /\ \E k \in Scans : Scanning(k)
  /\ Faulty(TRUE)
  /\ stage' = [c \in Coroutines |-> "idle"]
  /\ peer' = [c \in Coroutines |-> None]
  /\ current' = [c \in Coroutines |-> NoDecision]
  /\ heard' = [c \in Coroutines |-> Unheard]
  /\ last' = NoSignal /\ signal' = Silence
  /\ UNCHANGED <<made, ahead, consumer, table, delivery>>

-----------------------------------------------------------------------------
(* The data-service.                                                       *)

(* upsert_decision of an insert its client gave up: every column is set,   *)
(* acted_upon to FALSE.                                                    *)
UpsertDecision(i) ==
  /\ row[i].posted
  /\ row' = [row EXCEPT ![i] = Saved]
  /\ acted' = acted \ {i}
  /\ UNCHANGED <<core, made, ahead, consumer, past, delivery, faults>>

-----------------------------------------------------------------------------
(* The consumer.                                                           *)

(* Back to XREAD.  At "$" it asks for entries later than this call: those  *)
(* that came since the last call are stepped over.                         *)
ReadFrom(entries) ==
  /\ at' = "read"
  /\ ahead' = IF dollar THEN <<>> ELSE entries

(* XREAD returns nothing after 5 s.                                        *)
ReadTimeout ==
  /\ at = "read" /\ ahead = <<>>
  /\ at' = "watch"
  /\ UNCHANGED <<core, made, ahead, batch, dollar, table, past, delivery, faults>>

Receive ==
  LET n == IF Len(ahead) < Batch THEN Len(ahead) ELSE Batch
  IN  /\ at = "read" /\ ahead # <<>>
      /\ batch' = SubSeq(ahead, 1, n)
      /\ ahead' = SubSeq(ahead, n + 1, Len(ahead))
      /\ at' = "handle"
      /\ UNCHANGED <<core, made, dollar, table, past, delivery, faults>>

(* last_id moves to the entry, and _handle_decision begins.                *)
Begin(m) == /\ dollar' = FALSE
            /\ handled' = [handled EXCEPT ![m.id] = @ + 1]

(* On to the next entry, or to _check_stop_targets.                        *)
NextEntryOnly == batch' = Tail(batch) /\ at' = "handle"
NextEntry == /\ batch' = Tail(batch)
             /\ at' = IF Tail(batch) = <<>> THEN "watch" ELSE "handle"

(* Nothing opened, or opened by the live broker, which marks no decision.  *)
HandleDecision ==
  /\ at = "handle"
  /\ Begin(Head(batch))
  /\ due' = due \ {Head(batch).id}
  /\ NextEntry
  /\ UNCHANGED <<core, made, ahead, table, past, faults>>

(* The mock broker opened a position.                                      *)
HandleAndOpen ==
  /\ at = "handle" /\ Head(batch).dir # "HOLD"
  /\ Begin(Head(batch))
  /\ due' = due \ {Head(batch).id}
  /\ at' = "mark"
  /\ UNCHANGED <<core, made, ahead, batch, table, past, faults>>

(* mark_decision_acted: answered 404 while there is no row, or lost.       *)
MarkActed(reached) ==
  /\ at = "mark"
  /\ acted' = IF reached /\ row[Head(batch).id].saved THEN acted \cup {Head(batch).id}
                                                      ELSE acted
  /\ Faulty(~reached)
  /\ NextEntry
  /\ UNCHANGED <<core, made, ahead, dollar, row, past, delivery>>

(* An exception in _handle_decision: the rest of the batch is read again,  *)
(* the entry itself is not.                                                *)
RefetchedAll  == batch \o ahead
RefetchedNone == ahead
Refetched     == Tail(batch) \o ahead
HandlerFails ==
  /\ at = "handle" /\ Faulty(TRUE)
  /\ Begin(Head(batch))
  /\ due' = due \ {Head(batch).id}
  /\ batch' = <<>>
  /\ ahead' = Refetched
  /\ at' = "read"
  /\ UNCHANGED <<core, made, table, past>>

(* _check_stop_targets ends, or fails, and the loop reads again.           *)
CheckStopTargets ==
  /\ at = "watch"
  /\ ReadFrom(ahead)
  /\ UNCHANGED <<core, made, batch, dollar, table, past, handled, due, faults>>

(* The simulation-engine restarts, at "$" again.  What is published while  *)
(* it is down is not "new after startup".                                  *)
SimRestart ==
  /\ Faulty(TRUE)
  /\ at' = "read" /\ batch' = <<>> /\ ahead' = <<>> /\ dollar' = TRUE
  /\ due' = {}
  /\ UNCHANGED <<core, made, table, past, handled>>

-----------------------------------------------------------------------------
(* The specification.                                                      *)

(* One coroutine goes on.  An LLM may never answer: see FairSpec.          *)
Proceed(c) == \/ SkipSymbol(c) \/ Ask(c) \/ LlmTimeout(c)
              \/ \E out \in Outcomes : PersistDecision(c, out)

ScanStep == \/ \E k \in Scans : StartScan(k)
            \/ \E c \in Coroutines :
                 \/ Proceed(c) \/ Garbled(c) \/ ScanFails(c)
                 \/ \E d \in Directions : Answer(c, d)
            \/ Age \/ CoreRestart

Consume == \/ ReadTimeout \/ Receive \/ HandleDecision \/ HandleAndOpen
           \/ (\E reached \in BOOLEAN : MarkActed(reached)) \/ CheckStopTargets

Next == \/ ScanStep
        \/ \E i \in Ids : UpsertDecision(i)
        \/ Consume \/ HandlerFails \/ SimRestart

Spec == Init /\ [][Next]_vars

(* Every await returns or times out, so each coroutine and the consumer go *)
(* on; nothing makes an LLM answer, a timer run faster, or a scan start.   *)
Fairness == (\A c \in Coroutines : WF_vars(Proceed(c))) /\ WF_vars(Consume)

FairSpec == Spec /\ Fairness

-----------------------------------------------------------------------------
(* Properties.                                                             *)

TypeOK ==
  /\ stage \in [Coroutines -> {"idle", "data", "llm", "row"}]
  /\ peer \in [Coroutines -> Directions \cup {None}]
  /\ current \in [Coroutines -> Messages \cup {NoDecision}]
  /\ last \in [dir : Directions \cup {None}, fresh : BOOLEAN]
  /\ made \in 0..MaxDecisions
  /\ ahead \in Seq(Messages) /\ batch \in Seq(Messages)
  /\ at \in {"read", "handle", "mark", "watch"} /\ (at \in {"handle", "mark"} <=> batch # <<>>)
  /\ dollar \in BOOLEAN
  /\ row \in [Ids -> [saved : BOOLEAN, posted : BOOLEAN]]
  /\ acted \subseteq Ids
  /\ signal \in [id : Nat, dir : Directions \cup {None}, crossed : BOOLEAN]
  /\ heard \in [Coroutines -> [dir : Directions \cup {None}, crossed : BOOLEAN]]
  /\ handled \in [Ids -> Nat] /\ due \subseteq Ids
  /\ faults \in 0..MaxFaults

(* No decision is traded twice: the handler of a decision begins at most   *)
(* once, through exceptions half-way, batches read again and restarts      *)
(* (main.py:270).                                                          *)
HandledOnce == \A i \in Ids : handled[i] <= 1

(* Once the consumer has had a first decision, it gets all that follow,    *)
(* also those in a batch with one whose handler raised, until it restarts. *)
Served == \A i \in Ids : i \in due ~> i \notin due

(* acted_upon, which the context of later prompts is built from, is never  *)
(* taken back: not by the insert of the same row that its client had given *)
(* up and that the data-service finishes late.                             *)
MarkSticks == [][acted \subseteq acted']_vars

(* The decision c publishes in this step.                                  *)
Publishes(c) == current'[c] \notin {current[c], NoDecision}

(* "its decision gates all other symbols" (jobs.py:60): whatever scans     *)
(* overlap, a follower never publishes the opposite of the lead's latest   *)
(* direction, if that was the last one remembered in _last_decisions when  *)
(* the follower took its peer signal, and less than 15 minutes old.  While *)
(* the lead is still writing its row, when that failed, or when an earlier *)
(* decision of a slower scan was remembered after it, against the "stores  *)
(* last published decision" of jobs.py:57, there is no such promise.       *)
NotOpposed ==
  [][\A c \in Coroutines : Publishes(c) /\ ~heard[c].crossed
       => ~Opposed(heard[c].dir, current'[c].dir)]_vars

(* A scan ends, whether or not the LLM ever answers: the scheduler, which  *)
(* runs one instance of a job at a time, starts no other before that.      *)
ScanEnds == \A k \in Scans : Scanning(k) ~> ~Scanning(k)
=============================================================================
