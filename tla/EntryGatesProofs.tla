-------------------------- MODULE EntryGatesProofs --------------------------
(***************************************************************************)
(* Proofs about EntryGates: the types, the opening range gate over any     *)
(* number of symbols and days, and the first tick after an entry at any    *)
(* price.                                                                  *)
(***************************************************************************)
EXTENDS EntryGates, TLAPS

-----------------------------------------------------------------------------
(* Types.                                                                  *)

(* What the gates would open is a position with its levels and its price.  *)
LEMMA WantType ==
  ASSUME NEW side \in {"BUY", "SELL"}, NEW px \in Prices, NEW r \in Ranges,
         NEW near \in Nearest, NEW snap \in Snapshots
  PROVE  Want(side, px, r, near, snap) \in Positions
<1>1. Exit!Built(side, px, snap) \in SUBSET Nat
  BY GatesAssumption DEF Exit!Built
<1>2. px \in Nat
  BY GatesAssumption
<1>3. AtLevel(px, near) \in BOOLEAN /\ TrendAligned(side, px, r) \in BOOLEAN
  BY DEF AtLevel, TrendAligned
<1> QED
  BY <1>1, <1>2, <1>3 DEF Want, Positions

LEMMA InitTyped == Init => TypeOK
<1> SUFFICES ASSUME Init PROVE TypeOK
  OBVIOUS
<1>1. NoPos \in Positions \cup {NoPos} /\ Unknown \in Ranges
  BY DEF Ranges
<1>2. work \in [sym : Symbols \cup {NoSym}, side : {"BUY", "SELL", "NONE"},
               px : Prices \cup {0}, range : Ranges, want : Positions \cup {NoPos}]
  BY <1>1 DEF Init, NoWork
<1> QED
  BY <1>1, <1>2, GatesAssumption DEF Init, TypeOK, Later

(* A decision that is dropped or done leaves nothing behind.               *)
LEMMA DoneTyped ==
  ASSUME TypeOK, Done
  PROVE  /\ pc' = "idle" /\ work' = NoWork
         /\ work' \in [sym : Symbols \cup {NoSym}, side : {"BUY", "SELL", "NONE"},
                       px : Prices \cup {0}, range : Ranges, want : Positions \cup {NoPos}]
<1>1. Unknown \in Ranges
  BY DEF Ranges
<1> QED
  BY <1>1 DEF Done, NoWork

LEMMA NextTyped == TypeOK /\ [Next]_vars => TypeOK'
<1> SUFFICES ASSUME TypeOK, [Next]_vars PROVE TypeOK'
  OBVIOUS
<1> DEFINE Works == [sym : Symbols \cup {NoSym}, side : {"BUY", "SELL", "NONE"},
                     px : Prices \cup {0}, range : Ranges, want : Positions \cup {NoPos}]
<1>1. ASSUME NEW s \in Symbols, NEW side \in {"BUY", "SELL"}, NEW px \in Prices,
             NEW r \in Ranges, Take(s, side, px, r)
      PROVE  TypeOK'
  <2>1. work' = [sym |-> s, side |-> side, px |-> px, range |-> r, want |-> NoPos]
    BY <1>1 DEF Take, NoWork
  <2>2. work' \in Works /\ work'.sym \in Symbols /\ work'.side # "NONE" /\ work'.px # 0
    BY <2>1, GatesAssumption
  <2>3. pc' = "orb" /\ early' \subseteq Symbols
    BY <1>1 DEF Take, TypeOK
  <2> QED
    BY <1>1, <2>2, <2>3 DEF Take, TypeOK, clock
<1>2. ASSUME NEW shown \in BOOLEAN, NEW type \in {"TRENDING", "RANGING"}, NEW near \in Nearest,
             NEW snap \in Snapshots, NEW band \in Bands,
             Check(shown, type, near, snap, band)
      PROVE  TypeOK'
  <2> DEFINE want == Want(work.side, work.px, work.range, near, snap)
  <2>1. /\ pc = "orb" /\ work \in Works /\ work.sym \in Symbols
        /\ work.side \in {"BUY", "SELL"} /\ work.px \in Prices /\ work.range \in Ranges
    BY <1>2 DEF Check, TypeOK
  <2>2. want \in Positions
    BY <2>1, WantType
  <2>3. cache' \subseteq Symbols \X (1..MaxDays)
    BY <1>2, <2>1 DEF Check, TypeOK, Key
  <2>4. \/ pc' = "look" /\ work' = [work EXCEPT !.want = want]
        \/ Done
    BY <1>2 DEF Check
  <2>5. CASE Done
    BY <1>2, <2>3, <2>5, DoneTyped DEF Check, TypeOK, clock
  <2>6. CASE pc' = "look" /\ work' = [work EXCEPT !.want = want]
    <3>1. /\ work' \in Works /\ work'.sym = work.sym /\ work'.side = work.side
          /\ work'.px = work.px /\ work'.want = want
      BY <2>1, <2>2, <2>6
    <3>2. work.px # 0
      BY <1>2 DEF Check, TypeOK
    <3> HIDE DEF want
    <3> QED
      BY <1>2, <2>1, <2>2, <2>3, <2>6, <3>1, <3>2 DEF Check, TypeOK, clock
  <2> QED
    BY <2>4, <2>5, <2>6
<1>3. ASSUME NEW closed \in BOOLEAN, Look(closed) PROVE TypeOK'
  <2>1. pos' \in [Symbols -> Positions \cup {NoPos}]
    BY <1>3 DEF Look, TypeOK
  <2>2. CASE Done
    BY <1>3, <2>1, <2>2, DoneTyped DEF Look, TypeOK, clock
  <2>3. CASE pc' = "open" /\ UNCHANGED work
    BY <1>3, <2>1, <2>3 DEF Look, TypeOK, clock
  <2> QED
    BY <1>3, <2>2, <2>3 DEF Look
<1>4. CASE FlipFails
  BY <1>4 DEF FlipFails, TypeOK, clock
<1>5. CASE OpenPosition
  <2>1. work.want \in Positions /\ work.sym \in Symbols
    BY <1>5 DEF OpenPosition, TypeOK
  <2>2. pos' \in [Symbols -> Positions \cup {NoPos}]
    BY <1>5, <2>1 DEF OpenPosition, TypeOK
  <2> QED
    BY <1>5, <2>2, DoneTyped DEF OpenPosition, TypeOK, clock
<1>6. CASE Refuse
  BY <1>6, DoneTyped DEF Refuse, TypeOK, clock
<1>7. ASSUME NEW s \in Symbols, Close(s) PROVE TypeOK'
  <2>1. pos' \in [Symbols -> Positions \cup {NoPos}]
    BY <1>7 DEF Close, TypeOK
  <2> QED
    BY <1>7, <2>1 DEF Close, TypeOK, clock
<1>8. ASSUME NEW s \in Symbols, Break(s) PROVE TypeOK'
  BY <1>8 DEF Break, TypeOK
<1>9. CASE Restart
  <2>1. Done
    BY <1>9 DEF Restart, Done
  <2> QED
    BY <1>9, <2>1, DoneTyped DEF Restart, TypeOK, clock
<1>10. CASE Advance
  BY <1>10 DEF Advance, TypeOK, Later
<1>11. CASE NewDay
  <2>1. day' \in 1..MaxDays
    BY <1>11, GatesAssumption DEF NewDay, TypeOK
  <2> QED
    BY <1>11, <2>1 DEF NewDay, TypeOK, Later
<1>12. CASE UNCHANGED vars
  BY <1>12 DEF vars, clock, TypeOK
<1> QED
  BY <1>1, <1>2, <1>3, <1>4, <1>5, <1>6, <1>7, <1>8, <1>9, <1>10, <1>11, <1>12 DEF Next

(* Every variable keeps its type, and the handler holds a decision on a    *)
(* symbol of its own from the price refresh to the entry.                  *)
THEOREM TypeCorrect == Spec => []TypeOK
  BY InitTyped, NextTyped, PTL DEF Spec

-----------------------------------------------------------------------------
(* The opening range gate.                                                 *)

(* s may be entered on either side: it has left its range today, or a      *)
(* decision on a partial range has been taken.                             *)
Excused(s) == s \in broke \/ s \in early

(* What the gate's memory and a decision under way stand for.              *)
OrbInv ==
  /\ \A e \in cache : e[2] <= day
  /\ \A s \in Symbols : Key(s) \in cache => Excused(s)
  /\ pc = "orb" => /\ work.range \in Partial => work.sym \in early
                   /\ Beyond(work.px, Full) => work.sym \in broke
  /\ pc \in {"look", "open"} /\ work.range # Unknown => Excused(work.sym)

LEMMA InitOrb == Init => OrbInv
  BY DEF Init, OrbInv

(* A decision that passes the ORB gate, or is cached by it, is excused.    *)
LEMMA GateExcuses ==
  ASSUME TypeOK, OrbInv, pc = "orb", work.range # Unknown, NEW shown \in BOOLEAN,
         shown => BarsMayShow(work.sym, work.range),
         Key(work.sym) \in cache \/ Beyond(work.px, work.range) \/ shown
  PROVE  Excused(work.sym)
<1>1. work.sym \in Symbols /\ work.range \in Ranges
  BY DEF TypeOK
<1>2. CASE Key(work.sym) \in cache
  BY <1>1, <1>2 DEF OrbInv
<1>3. CASE work.range \in Partial
  BY <1>3 DEF OrbInv, Excused
<1>4. CASE work.range = Full /\ Beyond(work.px, work.range)
  BY <1>4 DEF OrbInv, Excused
<1>5. CASE work.range = Full /\ shown
  BY <1>5 DEF OrbInv, Excused, BarsMayShow
<1> QED
  BY <1>1, <1>2, <1>3, <1>4, <1>5 DEF Ranges

LEMMA NextOrb == TypeOK /\ OrbInv /\ [Next]_vars => OrbInv'
<1> SUFFICES ASSUME TypeOK, OrbInv, [Next]_vars PROVE OrbInv'
  OBVIOUS
<1>1. ASSUME NEW s \in Symbols, NEW side \in {"BUY", "SELL"}, NEW px \in Prices,
             NEW r \in Ranges, Take(s, side, px, r)
      PROVE  OrbInv'
  <2>1. work' = [sym |-> s, side |-> side, px |-> px, range |-> r, want |-> NoPos]
    BY <1>1 DEF Take, NoWork
  <2>2. /\ pc' = "orb" /\ UNCHANGED <<cache, day, broke>> /\ early \subseteq early'
        /\ (r \in Partial => s \in early') /\ (Beyond(px, Full) => s \in broke)
    BY <1>1 DEF Take, clock
  <2>3. \A t \in Symbols : Key(t)' \in cache' => Excused(t)'
    BY <2>2 DEF OrbInv, Excused, Key
  <2>4. Beyond(px, Full)' <=> Beyond(px, Full)
    BY DEF Beyond, Breakout, Full
  <2> QED
    BY <2>1, <2>2, <2>3, <2>4 DEF OrbInv
<1>2. ASSUME NEW shown \in BOOLEAN, NEW type \in {"TRENDING", "RANGING"}, NEW near \in Nearest,
             NEW snap \in Snapshots, NEW band \in Bands,
             Check(shown, type, near, snap, band)
      PROVE  OrbInv'
  <2> DEFINE broken == Key(work.sym) \in cache \/ Beyond(work.px, work.range) \/ shown
             want   == Want(work.side, work.px, work.range, near, snap)
  <2>1. /\ pc = "orb" /\ UNCHANGED <<day, broke, early>> /\ work.sym \in Symbols
        /\ (shown => BarsMayShow(work.sym, work.range) /\ work.range # Unknown)
    BY <1>2 DEF Check, TypeOK, clock
  <2>2. work.range # Unknown /\ broken => Excused(work.sym)
    BY <2>1, GateExcuses
  <2>3. cache' = IF work.range # Unknown /\ broken THEN cache \cup {Key(work.sym)} ELSE cache
    BY <1>2 DEF Check
  <2>4. /\ \A e \in cache' : e[2] <= day'
        /\ \A t \in Symbols : Key(t)' \in cache' => Excused(t)'
    <3>1. day \in Int /\ Key(work.sym)[2] = day
      BY DEF TypeOK, Key
    <3>2. ASSUME NEW e \in cache' PROVE e[2] <= day'
      <4>1. e \in cache \/ e = Key(work.sym)
        BY <2>3
      <4> QED
        BY <2>1, <3>1, <4>1 DEF OrbInv
    <3>3. ASSUME NEW t \in Symbols, Key(t)' \in cache' PROVE Excused(t)'
      <4>1. Key(t)' = Key(t) /\ (Excused(t)' <=> Excused(t))
        BY <2>1 DEF Key, Excused
      <4>2. Key(t) \in cache \/ (work.range # Unknown /\ broken /\ t = work.sym)
        BY <2>3, <3>3, <4>1 DEF Key
      <4> QED
        BY <2>2, <4>1, <4>2 DEF OrbInv
    <3> QED
      BY <3>2, <3>3
  <2>5. \/ pc' = "look" /\ work' = [work EXCEPT !.want = want]
           /\ (work.range = Unknown \/ broken)
        \/ pc' = "idle"
    BY <1>2 DEF Check, Done
  <2>6. ASSUME pc' = "look", work' = [work EXCEPT !.want = want], work.range = Unknown \/ broken
        PROVE  (work.range # Unknown => Excused(work.sym))'
    <3>1. work'.range = work.range /\ work'.sym = work.sym
      BY <2>6 DEF TypeOK
    <3> QED
      BY <2>1, <2>2, <2>6, <3>1 DEF Excused, Unknown
  <2> QED
    BY <2>4, <2>5, <2>6 DEF OrbInv
<1>3. ASSUME NEW closed \in BOOLEAN, Look(closed) PROVE OrbInv'
  BY <1>3 DEF Look, Done, OrbInv, Excused, Key, Unknown, clock
<1>4. CASE FlipFails
  BY <1>4 DEF FlipFails, OrbInv, Excused, Key, Unknown, clock
<1>5. CASE OpenPosition
  BY <1>5 DEF OpenPosition, Done, OrbInv, Excused, Key, clock
<1>6. CASE Refuse
  BY <1>6 DEF Refuse, Done, OrbInv, Excused, Key, clock
<1>7. ASSUME NEW s \in Symbols, Close(s) PROVE OrbInv'
  BY <1>7 DEF Close, OrbInv, Excused, Key, Beyond, Breakout, Full, Unknown, clock
<1>8. ASSUME NEW s \in Symbols, Break(s) PROVE OrbInv'
  BY <1>8 DEF Break, OrbInv, Excused, Key, Beyond, Breakout, Full, Unknown
<1>9. CASE Restart
  BY <1>9 DEF Restart, OrbInv, Excused, clock
<1>10. CASE Advance
  BY <1>10 DEF Advance, OrbInv, Excused, Key, Beyond, Breakout, Full, Unknown
<1>11. CASE NewDay
  <2>1. day \in Nat /\ day' = day + 1 /\ cache' = cache /\ pc' = "idle"
    BY <1>11 DEF NewDay, TypeOK
  <2>2. \A s \in Symbols : Key(s)' \notin cache'
    BY <2>1 DEF OrbInv, Key
  <2>3. \A e \in cache' : e[2] <= day'
    <3>1. \A e \in cache : e[2] \in Int
      BY DEF TypeOK
    <3> QED
      BY <2>1, <3>1 DEF OrbInv
  <2> QED
    BY <2>1, <2>2, <2>3 DEF OrbInv
<1>12. CASE UNCHANGED vars
  BY <1>12 DEF vars, clock, OrbInv, Excused, Key, Beyond, Breakout, Full, Unknown
<1> QED
  BY <1>1, <1>2, <1>3, <1>4, <1>5, <1>6, <1>7, <1>8, <1>9, <1>10, <1>11, <1>12 DEF Next

(* Only OpenPosition opens, and only for its own decision.                 *)
LEMMA OnlyOpenPosition ==
  ASSUME TypeOK, [Next]_vars, NEW s \in Symbols, Opened(s)
  PROVE  OpenPosition /\ s = work.sym
<1> USE DEF Opened
<1>1. ASSUME NEW u \in Symbols, NEW side \in {"BUY", "SELL"}, NEW px \in Prices,
             NEW r \in Ranges, Take(u, side, px, r)
      PROVE  FALSE
  BY <1>1 DEF Take
<1>2. ASSUME NEW shown \in BOOLEAN, NEW type \in {"TRENDING", "RANGING"}, NEW near \in Nearest,
             NEW snap \in Snapshots, NEW band \in Bands,
             Check(shown, type, near, snap, band)
      PROVE  FALSE
  BY <1>2 DEF Check
<1>3. ASSUME NEW closed \in BOOLEAN, Look(closed) PROVE FALSE
  BY <1>3 DEF Look, TypeOK
<1>4. ASSUME NEW u \in Symbols, Close(u) PROVE FALSE
  BY <1>4 DEF Close, TypeOK
<1>5. ASSUME FlipFails \/ Refuse \/ Restart \/ Advance \/ NewDay \/ UNCHANGED vars PROVE FALSE
  BY <1>5 DEF FlipFails, Refuse, Restart, Advance, NewDay, vars
<1>6. ASSUME NEW u \in Symbols, Break(u) PROVE FALSE
  BY <1>6 DEF Break
<1>7. OpenPosition
  BY <1>1, <1>2, <1>3, <1>4, <1>5, <1>6 DEF Next
<1>8. s = work.sym
  BY <1>7 DEF OpenPosition, TypeOK
<1> QED
  BY <1>7, <1>8

(* BUY above and SELL below the opening range, or not at all until the     *)
(* price has left it that day: for any number of symbols and days,         *)
(* restarts and cached verdicts.                                           *)
THEOREM OrbKept == Spec => OrbRespected
<1> DEFINE A(s) == Opened(s) /\ work.range # Unknown
                     => Breakout(work.side, work.px, Full) \/ s \in broke \/ s \in early
<1>1. Spec => [](TypeOK /\ OrbInv)
  <2>1. TypeOK /\ OrbInv /\ [Next]_vars => (TypeOK /\ OrbInv)'
    BY NextTyped, NextOrb
  <2> QED
    BY InitTyped, InitOrb, <2>1, PTL DEF Spec
<1>2. TypeOK /\ OrbInv /\ [Next]_vars => [\A s \in Symbols : A(s)]_vars
  <2> SUFFICES ASSUME TypeOK, OrbInv, [Next]_vars, NEW s \in Symbols,
                      Opened(s), work.range # Unknown
               PROVE  s \in broke \/ s \in early
    OBVIOUS
  <2>1. pc = "open" /\ s = work.sym
    BY OnlyOpenPosition DEF OpenPosition
  <2> QED
    BY <2>1 DEF OrbInv, Excused
<1> QED
  BY <1>1, <1>2, PTL DEF Spec, OrbRespected


-----------------------------------------------------------------------------
(* The first tick.                                                         *)

DayTypes == {"TRENDING", "RANGING"}

(* No level of p is crossed at the price of its entry, and its first       *)
(* favourable tick changes nothing that matters.                           *)
Quiet(p) ==
  \A type \in DayTypes : ~Exit!Crossed(Trade(p, type), p.spot) /\ ~WouldExit(p, type)

(* On the first favourable tick no rule but the price-action trail can     *)
(* fire, whatever the type of the day.                                     *)
LEMMA FirstTickQuiet ==
  ASSUME NEW p \in Positions, NEW type \in DayTypes
  PROVE  Exit!CheckExit(Trade(p, type), [peak |-> Entry, milestone |-> 0], FirstTick(p))
           = Exit!Hold(IF Exit!PaTrail([peak |-> Entry, milestone |-> 0], FirstTick(p))
                         THEN 1 ELSE 0)
<1> DEFINE tr == Trade(p, type)
           m  == [peak |-> Entry, milestone |-> 0]
           t  == FirstTick(p)
<1>1. Entry \in Nat /\ Entry > 0
  BY GatesAssumption
<1>2. Entry \div 200 \in Nat /\ 200 * (Entry \div 200) <= Entry
  BY <1>1
<1>3. /\ t.ltp = Entry + (Entry \div 200) /\ ~t.over /\ t.greeks = [delta |-> 0, iv |-> 0]
      /\ m.peak = Entry /\ m.milestone = 0 /\ tr.day = type
  BY DEF FirstTick, Trade
<1>4. t.ltp # 0 /\ ~Exit!StopHit(t)
  BY <1>1, <1>2, <1>3 DEF Exit!StopHit
<1>5. ~Exit!Eroded(t.greeks) /\ ~Exit!Crushed(t.greeks)
  BY <1>3 DEF Exit!Eroded, Exit!Crushed
<1>6. ~Exit!PremiumTrail(m) /\ ~Exit!FloorHit(m, t)
  BY <1>1, <1>3 DEF Exit!PremiumTrail, Exit!FloorHit
<1>7. ~Exit!TargetHit(tr, m, t)
  <2>1. Exit!Target(tr, 0) = 110 * Entry \/ Exit!Target(tr, 0) = 115 * Entry
    <3>1. Exit!FirstPct(tr) = 10 \/ Exit!FirstPct(tr) = 15
      BY DEF Exit!FirstPct
    <3> QED
      BY <1>1, <3>1 DEF Exit!Target
  <2> QED
    BY <1>1, <1>2, <1>3, <2>1 DEF Exit!TargetHit
<1> HIDE DEF tr, m, t
<1>8. Exit!CheckExit(tr, m, t) = Exit!Hold(IF Exit!PaTrail(m, t) THEN 1 ELSE 0)
  BY <1>3, <1>4, <1>5, <1>6, <1>7 DEF Exit!CheckExit
<1> QED
  BY <1>8 DEF tr, m, t

(* So one check, for the type of this day, answers for both.               *)
LEMMA WouldExitAnyDay ==
  ASSUME NEW p \in Positions, NEW one \in DayTypes, NEW other \in DayTypes, ~WouldExit(p, one)
  PROVE  ~WouldExit(p, other)
<1>1. Exit!CheckExit(Trade(p, one), [peak |-> Entry, milestone |-> 0], FirstTick(p))
        = Exit!CheckExit(Trade(p, other), [peak |-> Entry, milestone |-> 0], FirstTick(p))
  BY FirstTickQuiet
<1> QED
  BY <1>1 DEF WouldExit

(* The filter of build_invalidation_levels leaves no level on the side     *)
(* that the entry price is on.                                             *)
LEMMA WantNotCrossed ==
  ASSUME NEW side \in {"BUY", "SELL"}, NEW px \in Prices, NEW r \in Ranges,
         NEW near \in Nearest, NEW snap \in Snapshots, NEW type \in DayTypes
  PROVE  LET p == Want(side, px, r, near, snap) IN ~Exit!Crossed(Trade(p, type), p.spot)
<1> DEFINE p  == Want(side, px, r, near, snap)
           tr == Trade(p, type)
<1>1. tr.levels = Exit!Built(side, px, snap) /\ tr.side = side /\ p.spot = px
  BY DEF Want, Trade
<1>2. px \in Nat /\ \A l \in Exit!Built(side, px, snap) :
                      l \in Nat /\ (IF side = "SELL" THEN l > px ELSE l < px)
  BY GatesAssumption DEF Exit!Built
<1> HIDE DEF p, tr
<1>3. ~Exit!Crossed(tr, p.spot)
  BY <1>1, <1>2 DEF Exit!Crossed
<1> QED
  BY <1>3 DEF p, tr

(* What is opened, and what is about to be, is quiet.                      *)
QuietInv ==
  /\ pc \in {"look", "open"} => Quiet(work.want)
  /\ \A s \in Symbols : pos[s] # NoPos => Quiet(pos[s])

LEMMA NextQuiet == TypeOK /\ QuietInv /\ [Next]_vars => QuietInv'
<1> SUFFICES ASSUME TypeOK, QuietInv, [Next]_vars PROVE QuietInv'
  OBVIOUS
<1>1. ASSUME NEW s \in Symbols, NEW side \in {"BUY", "SELL"}, NEW px \in Prices,
             NEW r \in Ranges, Take(s, side, px, r)
      PROVE  QuietInv'
  BY <1>1 DEF Take, QuietInv
<1>2. ASSUME NEW shown \in BOOLEAN, NEW type \in {"TRENDING", "RANGING"}, NEW near \in Nearest,
             NEW snap \in Snapshots, NEW band \in Bands,
             Check(shown, type, near, snap, band)
      PROVE  QuietInv'
  <2> DEFINE want == Want(work.side, work.px, work.range, near, snap)
  <2>1. /\ work.side \in {"BUY", "SELL"} /\ work.px \in Prices /\ work.range \in Ranges
        /\ pos' = pos
    BY <1>2 DEF Check, TypeOK
  <2>2. \/ pc' = "idle"
        \/ pc' = "look" /\ work' = [work EXCEPT !.want = want] /\ ~WouldExit(want, type)
    BY <1>2 DEF Check, Done
  <2>3. ASSUME work' = [work EXCEPT !.want = want], ~WouldExit(want, type)
        PROVE  Quiet(work'.want)
    <3>1. work'.want = want /\ want \in Positions
      BY <2>1, <2>3, WantType DEF TypeOK
    <3>2. \A any \in DayTypes : ~WouldExit(want, any)
      BY <2>3, <3>1, WouldExitAnyDay DEF DayTypes
    <3>3. \A any \in DayTypes : ~Exit!Crossed(Trade(want, any), want.spot)
      BY <2>1, WantNotCrossed
    <3> QED
      BY <3>1, <3>2, <3>3 DEF Quiet
  <2> QED
    BY <2>1, <2>2, <2>3 DEF QuietInv
<1>3. ASSUME NEW closed \in BOOLEAN, Look(closed) PROVE QuietInv'
  BY <1>3 DEF Look, Done, QuietInv, TypeOK
<1>4. CASE OpenPosition
  <2>1. /\ pc' = "idle" /\ pos' = [pos EXCEPT ![work.sym] = work.want] /\ Quiet(work.want)
    BY <1>4 DEF OpenPosition, Done, QuietInv
  <2> QED
    BY <2>1 DEF QuietInv, TypeOK
<1>5. ASSUME NEW s \in Symbols, Close(s) PROVE QuietInv'
  BY <1>5 DEF Close, QuietInv, TypeOK
<1>6. CASE FlipFails \/ Refuse \/ Restart
  BY <1>6 DEF FlipFails, Refuse, Restart, Done, QuietInv
<1>7. ASSUME NEW s \in Symbols, Break(s) PROVE QuietInv'
  BY <1>7 DEF Break, QuietInv
<1>8. CASE Advance \/ NewDay \/ UNCHANGED vars
  BY <1>8 DEF Advance, NewDay, vars, QuietInv
<1> QED
  BY <1>1, <1>2, <1>3, <1>4, <1>5, <1>6, <1>7, <1>8 DEF Next

(* No position is open whose exit rules would undo it on the first         *)
(* favourable tick at the index price of its entry, for all prices, levels *)
(* and premiums.                                                           *)
THEOREM FirstTickSafe == Spec => []FirstTickHolds
<1>1. Init => QuietInv
  BY DEF Init, QuietInv
<1>2. QuietInv => FirstTickHolds
  BY DEF QuietInv, Quiet, FirstTickHolds, DayTypes
<1>3. TypeOK /\ QuietInv /\ [Next]_vars => (TypeOK /\ QuietInv)'
  BY NextTyped, NextQuiet
<1> QED
  BY InitTyped, <1>1, <1>2, <1>3, PTL DEF Spec

=============================================================================
