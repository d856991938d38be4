----------------------------- MODULE EntryGates -----------------------------
(***************************************************************************)
(* The entry gates of the simulation engine: what _handle_decision         *)
(* (main.py) does with a BUY or SELL before it opens a position, over      *)
(* several trading days, with the cached verdict on the opening range and  *)
(* a clock that moves on during the awaits.                                *)
(*                                                                         *)
(* The range in a decision is the one of its scan (MarketScan), which      *)
(* grows with the bars until 09:30: a scan of before 09:30 publishes a     *)
(* partial range, and its decision may still be handled after 09:30, when  *)
(* the gates open.                                                         *)
(*                                                                         *)
(* Prices are integers and percentages are compared by cross-              *)
(* multiplication; 0 is a missing level.  Every option costs Entry.  A     *)
(* decision under the confidence floor counts as a HOLD, and a HOLD does   *)
(* nothing.  Cooldown, budget and premium checks are the subject of        *)
(* PaperBroker; here they are a choice.                                    *)
(***************************************************************************)
EXTENDS Integers

CONSTANTS
  Symbols,    \* underlyings
  NoSym,      \* no decision under way
  OrbHigh,    \* the range that the scans publish in the end
  OrbLow,
  Partial,    \* ranges that scans before 09:30 can have published: [high, low]
  Prices,     \* index prices
  Snapshots,  \* invalidation levels of a decision, by name
  Nearest,    \* nearest level in the trade's direction: [at, extreme]
  Bands,      \* recent range: [tight, breakout]
  Entry,      \* option_price
  PaMinGain,  \* gain per unit that reaches PA_MIN_GROSS_PROFIT_PER_LOT
  MaxDays     \* bound: trading days

Full    == [high |-> OrbHigh, low |-> OrbLow]
Unknown == [high |-> 0, low |-> 0]

ASSUME GatesAssumption ==
  /\ NoSym \notin Symbols
  /\ OrbHigh \in Nat \ {0} /\ OrbLow \in 1..OrbHigh
  /\ Partial \subseteq [high : 1..OrbHigh, low : OrbLow..OrbHigh] \ {Full}
  /\ Prices \subseteq Nat \ {0}
  /\ \A snap \in Snapshots : \A n \in DOMAIN snap : snap[n] \in Nat
  /\ Nearest \subseteq [at : Nat, extreme : BOOLEAN]
  /\ Entry \in Nat \ {0} /\ PaMinGain \in Nat
  /\ MaxDays \in Nat \ {0}

VARIABLES
  day,    \* the date
  phase,  \* of the trading day
  broke,  \* symbols whose price has been beyond a threshold of Full today
  cache,  \* _orb_broken_today
  pc,     \* where the handler is suspended
  work,   \* its locals
  pos,    \* positions:open
  early   \* history: symbols with a decision on a partial range today

clock == <<day, phase, broke>>
vars  == <<clock, cache, pc, work, pos, early>>

(* ExitRules supplies check_exit.  Only its operators on constants are     *)
(* used, so what stands for its variables does not matter.                 *)
Exit == INSTANCE ExitRules
          WITH EntryIv <- 0, Premiums <- {}, Spots <- Prices, Greeks <- {}, Votes <- {},
               trade <- pos, pos <- pos, sold <- pos, over <- pos, last <- pos,
               high <- pos, lost <- pos

NoPos  == [side |-> "NONE", spot |-> 0, levels |-> {}, atLevel |-> FALSE, aligned |-> FALSE]
NoWork == [sym |-> NoSym, side |-> "NONE", px |-> 0, range |-> Unknown, want |-> NoPos]

Init ==
  /\ day = 1 /\ phase = "forming" /\ broke = {}
  /\ cache = {}
  /\ pc = "idle" /\ work = NoWork
  /\ pos = [s \in Symbols |-> NoPos]
  /\ early = {}

-----------------------------------------------------------------------------
(* The gates.                                                              *)

(* ORB_BUFFER is 0.20%.                                                    *)
Breakout(side, px, r) == IF side = "BUY" THEN 1000 * px > 1002 * r.high
                                         ELSE 1000 * px < 998 * r.low
Beyond(px, r) == Breakout("BUY", px, r) \/ Breakout("SELL", px, r)

(* Already beyond the range in the trade's direction.                      *)
TrendAligned(side, px, r) ==
  r # Unknown /\ IF side = "BUY" THEN px > r.high ELSE px < r.low

(* In a tight range only a breakout in the trade's direction counts.       *)
Against(side) == IF side = "BUY" THEN "BREAKOUT_LOW" ELSE "BREAKOUT_HIGH"
Consolidating(side, band) == band.tight /\ band.breakout \in {"NONE", Against(side)}

(* Within 0.25% of a level ahead, day extremes excepted.                   *)
NoRoom(side, px, near) ==
  /\ near.at > 0 /\ ~near.extreme
  /\ IF side = "BUY" THEN 9975 * near.at <= 10000 * px /\ px <= near.at
                     ELSE near.at <= px /\ 10000 * px <= 10025 * near.at

(* The level rule of check_exit: within 0.25% on either side, day extremes *)
(* included.  PDL, which the rule tests too, is one of the levels that     *)
(* nearest_support is taken from.                                          *)
AtLevel(px, near) ==
  near.at > 0 /\ 9975 * near.at <= 10000 * px /\ 10000 * px <= 10025 * near.at

(* The position the entry would make, and its first tick: the index where  *)
(* it is, the premium up half a percent, no greeks.                        *)
UnfilteredWant(side, px, r, near, snap) ==
  [side |-> side, spot |-> px, levels |-> Exit!BuiltUnfiltered(side, px, snap),
   atLevel |-> AtLevel(px, near), aligned |-> TrendAligned(side, px, r)]
Want(side, px, r, near, snap) ==
  [side |-> side, spot |-> px, levels |-> Exit!Built(side, px, snap),
   atLevel |-> AtLevel(px, near), aligned |-> TrendAligned(side, px, r)]

Trade(p, type) == [side |-> p.side, day |-> type, levels |-> p.levels]
FirstTick(p)   == [ltp |-> Entry + (Entry \div 200), spot |-> p.spot, atLevel |-> p.atLevel,
                   greeks |-> [delta |-> 0, iv |-> 0], votes |-> <<>>, over |-> FALSE]

WouldExit(p, type) ==
  LET out == Exit!CheckExit(Trade(p, type), [peak |-> Entry, milestone |-> 0], FirstTick(p))
  IN  out.sold # Exit!NotSold \/ (out.milestone > 0 /\ ~p.aligned)

-----------------------------------------------------------------------------
(* The handler.                                                            *)

(* A decision arrives: price refreshed, clock read.  Its range is the one  *)
(* its scan published, a partial one if that was before 09:30, or none if  *)
(* the bars were missing.                                                  *)
Take(s, side, px, r) ==
  /\ pc = "idle" /\ phase \in {"opening", "trading"}
  /\ (r \in Partial => phase = "opening") /\ (Beyond(px, Full) => s \in broke)
  /\ pc' = "orb"
  /\ work' = [NoWork EXCEPT !.sym = s, !.side = side, !.px = px, !.range = r]
  /\ early' = IF r \in Partial THEN early \cup {s} ELSE early
  /\ UNCHANGED <<clock, cache, pos>>

KeyOfSymbol(s) == <<s, 1>>
Key(s) == <<s, day>>

(* _is_orb_broken_today: the cache, the price, or the bars since 09:07,    *)
(* which show a break if there was one and the data-service answers: the   *)
(* "09:30" of the query has pytz's local mean time for an offset.          *)
BarsMayShow(s, r) == r \in Partial \/ s \in broke

DoneDirty == pc' = "idle" /\ UNCHANGED work
Done == pc' = "idle" /\ work' = NoWork

(* The gates, one after the other.  Without a range its gate is skipped.   *)
Check(shown, type, near, snap, band) ==
  LET s      == work.sym
      broken == Key(s) \in cache \/ Beyond(work.px, work.range) \/ shown
      want   == Want(work.side, work.px, work.range, near, snap)
      passes == /\ work.range = Unknown \/ broken
                /\ ~Consolidating(work.side, band)
                /\ want.aligned \/ ~NoRoom(work.side, work.px, near)
                /\ ~WouldExit(want, type)
  IN  /\ pc = "orb" /\ (shown => BarsMayShow(s, work.range) /\ work.range # Unknown)
      /\ cache' = IF work.range # Unknown /\ broken THEN cache \cup {Key(s)} ELSE cache
      /\ IF passes THEN pc' = "look" /\ work' = [work EXCEPT !.want = want] ELSE Done
      /\ UNCHANGED <<clock, pos, early>>

(* No position, one of the same side, or a signal flip: the old one is     *)
(* closed first, which may fail.                                           *)
Look(closed) ==
  LET held == pos[work.sym].side
  IN  /\ pc = "look" /\ (closed <=> held \notin {"NONE", work.side})
      /\ IF held = work.side THEN Done ELSE pc' = "open" /\ UNCHANGED work
      /\ pos' = IF closed THEN [pos EXCEPT ![work.sym] = NoPos] ELSE pos
      /\ UNCHANGED <<clock, cache, early>>

FlipFails ==
  /\ pc = "look" /\ pos[work.sym].side \notin {"NONE", work.side}
  /\ pc' = "open"
  /\ UNCHANGED <<clock, cache, work, pos, early>>

(* open_position: reads the clock again, and the position.                 *)
MayOpen(s) == pos[s] = NoPos /\ phase # "closed"

OpenPosition ==
  /\ pc = "open" /\ MayOpen(work.sym)
  /\ pos' = [pos EXCEPT ![work.sym] = work.want]
  /\ Done
  /\ UNCHANGED <<clock, cache, early>>

Refuse ==
  /\ pc = "open"
  /\ Done
  /\ UNCHANGED <<clock, cache, pos, early>>

-----------------------------------------------------------------------------
(* The world.                                                              *)

(* An exit rule or a manual close.                                         *)
Close(s) ==
  /\ pos[s] # NoPos
  /\ pos' = [pos EXCEPT ![s] = NoPos]
  /\ UNCHANGED <<clock, cache, pc, work, early>>

Restart ==
  /\ pc' = "idle" /\ work' = NoWork
  /\ cache' = {}
  /\ UNCHANGED <<clock, pos, early>>

(* The price of s is beyond a threshold of Full, from 09:15 on.            *)
Break(s) ==
  /\ broke' = broke \cup {s}
  /\ UNCHANGED <<day, phase, cache, pc, work, pos, early>>

(* 09:30, the decisions of the scans before it handled, 15 minutes before  *)
(* the session close, the session close.                                   *)
Later == [forming |-> "opening", opening |-> "trading", trading |-> "cutoff",
          cutoff |-> "closed"]
Advance ==
  /\ phase # "closed"
  /\ phase' = Later[phase]
  /\ UNCHANGED <<day, broke, cache, pc, work, pos, early>>

NewDay ==
  /\ phase = "closed" /\ pc = "idle" /\ day < MaxDays
  /\ day' = day + 1 /\ phase' = "forming" /\ broke' = {} /\ early' = {}
  /\ UNCHANGED <<cache, pc, work, pos>>

Ranges == {Full, Unknown} \cup Partial

Next ==
  \/ \E s \in Symbols, side \in {"BUY", "SELL"}, px \in Prices, r \in Ranges :
       Take(s, side, px, r)
  \/ \E shown \in BOOLEAN, type \in {"TRENDING", "RANGING"}, near \in Nearest,
        snap \in Snapshots, band \in Bands : Check(shown, type, near, snap, band)
  \/ \E closed \in BOOLEAN : Look(closed)
  \/ FlipFails \/ OpenPosition \/ Refuse
  \/ \E s \in Symbols : Close(s) \/ Break(s)
  \/ Restart \/ Advance \/ NewDay

Spec == Init /\ [][Next]_vars

-----------------------------------------------------------------------------
(* Properties.                                                             *)

Positions == [side : {"BUY", "SELL"}, spot : Nat, levels : SUBSET Nat,
              atLevel : BOOLEAN, aligned : BOOLEAN]

TypeOK ==
  /\ day \in 1..MaxDays /\ phase \in DOMAIN Later \cup {"closed"} /\ broke \subseteq Symbols
  /\ cache \subseteq Symbols \X (1..MaxDays)
  /\ pc \in {"idle", "orb", "look", "open"}
  /\ work \in [sym : Symbols \cup {NoSym}, side : {"BUY", "SELL", "NONE"},
               px : Prices \cup {0}, range : Ranges, want : Positions \cup {NoPos}]
  /\ pc = "idle" => work = NoWork
  /\ pc # "idle" => work.sym \in Symbols /\ work.side # "NONE" /\ work.px # 0
  /\ pc \in {"look", "open"} => work.want \in Positions
  /\ pos \in [Symbols -> Positions \cup {NoPos}]
  /\ early \subseteq Symbols

Opened(s) == pos[s] = NoPos /\ pos'[s] # NoPos

(* BUY requires a price above the range, SELL one below, by 0.20%, unless  *)
(* the price has crossed either threshold today (main.py:464-475):         *)
(* whatever was cached yesterday, for another symbol or by a decision of   *)
(* before a restart.  A decision without a range, and a symbol with a      *)
(* decision on a partial one, are excepted.                                *)
OrbRespected ==
  [][\A s \in Symbols : Opened(s) /\ work.range # Unknown
       => Breakout(work.side, work.px, Full) \/ s \in broke \/ s \in early]_vars

(* "we never open a position that the exit logic would immediately want to *)
(* close" (README.md:149): at the index price of its entry, no             *)
(* invalidation level of an open position is crossed, no exit rule fires   *)
(* on the first favourable tick, and no trail engages unless the entry was *)
(* trend-aligned.                                                          *)
FirstTickHolds ==
  \A s \in Symbols, type \in {"TRENDING", "RANGING"} :
    pos[s] # NoPos => /\ ~Exit!Crossed(Trade(pos[s], type), pos[s].spot)
                      /\ ~WouldExit(pos[s], type)
=============================================================================
