-------------------------------- MODULE Bars --------------------------------
(***************************************************************************)
(* What a scan computes from a list of 1-minute bars: the indicators of    *)
(* core-engine that are arithmetic on bars and levels (technicals.py,      *)
(* pivots.py, cpr.py, compute_forming_bar_signal).                         *)
(*                                                                         *)
(* A bar is [day, min, open, high, low, close, vol]; min counts the        *)
(* minutes of the IST day.  Prices are integers.  Pivot levels are kept in *)
(* sixths of a point, confidence deltas in hundredths; percentages are     *)
(* compared by cross-multiplication, roundings to display precision left   *)
(* out.                                                                    *)
(***************************************************************************)
EXTENDS Integers, Sequences, SequencesExt

SessionStart == 9 * 60 + 15

(* Highest high, lowest low and volume of the bars at the places in I.     *)
Highs(bars, I) == {bars[i].high : i \in I}
Lows(bars, I)  == {bars[i].low : i \in I}
Span(bars, I)  == [high |-> Max(Highs(bars, I)), low |-> Min(Lows(bars, I))]
NoSpan         == [high |-> 0, low |-> 0]

Volume(bars, I) ==
  LET upto[k \in 0..Len(bars)] ==
        IF k = 0 THEN 0 ELSE upto[k - 1] + (IF k \in I THEN bars[k].vol ELSE 0)
  IN  upto[Len(bars)]

Abs(x) == IF x < 0 THEN -x ELSE x

-----------------------------------------------------------------------------
(* Bars of five minutes.                                                   *)

BucketStart(min) == SessionStart + ((min - SessionStart) \div 5) * 5

SameBucket(five, b) == five.day = b.day /\ five.min = BucketStart(b.min)
Begin5(b) == [b EXCEPT !.min = BucketStart(b.min)]
Extend5(five, b) ==
  [five EXCEPT !.high = IF b.high > @ THEN b.high ELSE @, !.low = IF b.low < @ THEN b.low ELSE @,
               !.close = b.close, !.vol = @ + b.vol]

(* Bars come in the order of time: the bucket of b is the last one or new. *)
TakeMinute(b, fives) ==
  IF b.min < SessionStart THEN fives
  ELSE IF fives # <<>> /\ SameBucket(fives[Len(fives)], b)
  THEN [fives EXCEPT ![Len(fives)] = Extend5(@, b)] ELSE Append(fives, Begin5(b))

AggregateTo5m(bars) ==
  LET walk[k \in 0..Len(bars)] == IF k = 0 THEN <<>> ELSE TakeMinute(bars[k], walk[k - 1])
  IN  walk[Len(bars)]

DayOf(bars, today) == {i \in DOMAIN bars : bars[i].day = today}
OfDay(bars, today) == SelectSeq(bars, LAMBDA b : b.day = today)

DayRangeOfAll(bars, today) == Span(bars, DOMAIN bars)
DayRange(bars, today) ==
  Span(bars, IF DayOf(bars, today) # {} THEN DayOf(bars, today) ELSE DOMAIN bars)

(* calculate_orb: 09:15 <= t < 09:30; one that takes the bar of 09:30 too. *)
OrbWithLast(bars, today) ==
  LET opening == {i \in DayOf(bars, today) : bars[i].min \in SessionStart..SessionStart + 15}
  IN  IF opening = {} THEN NoSpan ELSE Span(bars, opening)
OrbOf(bars, today) ==
  LET opening == {i \in DayOf(bars, today) : bars[i].min \in SessionStart..SessionStart + 14}
  IN  IF opening = {} THEN NoSpan ELSE Span(bars, opening)

(* The band of the eight bars before the newest one.                       *)
Consolidation(bars) ==
  LET n      == Len(bars)
      window == (IF n > 9 THEN n - 8 ELSE 1)..(n - 1)
  IN  IF n < 4
      THEN [tight |-> TRUE, high |-> Last(bars).high, low |-> Last(bars).low]
      ELSE LET r == Span(bars, window)
           IN  [tight |-> (r.high - r.low) * 1000 < r.high + r.low, high |-> r.high, low |-> r.low]

(* Out of a tight band by 0.05%.                                           *)
RangeBreakout(ltp, band) ==
  IF ~band.tight THEN "NONE"
  ELSE IF ltp * 10000 > band.high * 10005 THEN "BREAKOUT_HIGH"
  ELSE IF ltp * 10000 < band.low * 9995 THEN "BREAKOUT_LOW" ELSE "NONE"

-----------------------------------------------------------------------------
(* The bars the prompt shows: those of today, aggregated once more.  Bars  *)
(* of five minutes stay what they are.                                     *)

BodyOver(b, pct) == Abs(b.close - b.open) * 100 >= pct * (b.high - b.low)
Body(b) ==
  IF b.high = b.low \/ ~BodyOver(b, 15) THEN "Doji"
  ELSE IF ~BodyOver(b, 40) THEN "weak" ELSE IF ~BodyOver(b, 65) THEN "plain" ELSE "strong"

(* A wick of size w is noted when it dwarfs the body and fills the bar.    *)
Wick(b, w) ==
  LET body == Abs(b.close - b.open)
  IN  IF b.high = b.low THEN "none"
      ELSE IF w > 2 * body /\ w * 100 > 40 * (b.high - b.low) THEN "rejection"
      ELSE IF w > body /\ w * 100 > 30 * (b.high - b.low) THEN "notable" ELSE "none"

PromptRow(b) ==
  [min |-> b.min, body |-> Body(b),
   bull |-> b.close >= b.open,
   lower |-> Wick(b, (IF b.open < b.close THEN b.open ELSE b.close) - b.low),
   upper |-> Wick(b, b.high - (IF b.open < b.close THEN b.close ELSE b.open))]

LastOf(bars, k) == SubSeq(bars, IF Len(bars) > k THEN Len(bars) - k + 1 ELSE 1, Len(bars))

PromptBars(bars, today) == LastOf(AggregateTo5m(OfDay(bars, today)), 12)
PromptRows(bars, today) ==
  LET shown == PromptBars(bars, today) IN [i \in DOMAIN shown |-> PromptRow(shown[i])]

Rising(bars)  == \A i \in 2..Len(bars) : bars[i].low > bars[i - 1].low
Falling(bars) == \A i \in 2..Len(bars) : bars[i].high < bars[i - 1].high

PatternOf(bars) ==
  LET last6  == LastOf(bars, 6)
      last4  == LastOf(bars, 4)
      closes == {last6[i].close : i \in DOMAIN last6}
  IN  [bulls |-> Len(SelectSeq(last6, LAMBDA b : b.close > b.open)),
       bears |-> Len(SelectSeq(last6, LAMBDA b : b.close < b.open)),
       trend |-> IF Len(last4) < 2 THEN "none" ELSE IF Rising(last4) THEN "higher lows"
                 ELSE IF Falling(last4) THEN "lower highs" ELSE "none",
       tight |-> closes # {} /\ Max(closes) - Min(closes) < 30]

-----------------------------------------------------------------------------
(* The forming bar.                                                        *)

(* The bars from the start of the current five minutes on, whatever their  *)
(* day.                                                                    *)
FormingBars(bars, now) == SelectSeq(bars, LAMBDA b : b.min >= BucketStart(now))

(* The slot of the volume profile: an IST time taken for a UTC one.        *)
ProfileSlot(min) == (((min \div 60) + 5) % 24) * 60 + (min % 60) + 30

Clamp(x, m) == IF x > m THEN m ELSE IF x < -m THEN -m ELSE x

(* compute_forming_bar_signal.  norm: average volume of the slot, 0 if     *)
(* unknown; position: minutes since the bar's start.                       *)
ConfidenceDelta(bars, position, norm) ==
  LET bar      == [open |-> Head(bars).open, close |-> Last(bars).close,
                   high |-> Span(bars, DOMAIN bars).high, low |-> Span(bars, DOMAIN bars).low]
      vol      == Volume(bars, DOMAIN bars)
      volPct   == IF norm = 0 THEN 0 ELSE (vol * 500) \div (norm * (position + 1))
      solid    == bar.high > bar.low /\ BodyOver(bar, 40)
      base     == IF bar.high = bar.low \/ ~BodyOver(bar, 15) THEN -5
                  ELSE IF ~BodyOver(bar, 40) THEN IF volPct >= 100 THEN 3 ELSE -5
                  ELSE IF ~BodyOver(bar, 65) THEN IF volPct >= 100 THEN 7 ELSE 2
                  ELSE IF volPct >= 100 THEN 10 ELSE 5
      volume   == IF volPct >= 250 /\ solid THEN base + 6
                  ELSE IF norm > 0 /\ volPct < 30 THEN 0 ELSE base
      last     == Last(bars)
      reversed == Len(bars) >= 2 /\ (last.close >= last.open) # (bar.close >= bar.open)
      sharp    == bar.high > bar.low
                    /\ Abs(last.close - last.open) * 5 >= bar.high - bar.low
      ending   == IF position < 3 THEN 0
                  ELSE IF Len(bars) >= 2 THEN IF ~reversed THEN 0 ELSE IF sharp THEN -15 ELSE -5
                  ELSE IF volPct >= 150 /\ solid THEN 8 ELSE 0
  IN  IF bars = <<>> THEN 0 ELSE Clamp(volume + ending, 22)

-----------------------------------------------------------------------------
(* Pivots, the central pivot range, and the nearest levels, in sixths.     *)

Pivots(p) ==
  LET pivot == 2 * (p.high + p.low + p.close)
      hl    == 6 * (p.high - p.low)
      r3    == 6 * p.high + 2 * (pivot - 6 * p.low)
      s3    == 6 * p.low - 2 * (6 * p.high - pivot)
  IN  [Pivot |-> pivot, R1 |-> 2 * pivot - 6 * p.low, S1 |-> 2 * pivot - 6 * p.high,
       R2 |-> pivot + hl, S2 |-> pivot - hl, R3 |-> r3, S3 |-> s3,
       R4 |-> pivot + 2 * hl, S4 |-> pivot - 2 * hl, R5 |-> r3 + hl, S5 |-> s3 - hl]

CprBc(p) == 3 * (p.high + p.low)
CprTc(p) == 2 * Pivots(p).Pivot - CprBc(p)

(* width / ATR, both in percent: |tc - bc| / pivot over (high-low)/close.  *)
CprDay(p) ==
  LET width == Abs(CprTc(p) - CprBc(p)) * p.close
      atr   == Pivots(p).Pivot * (p.high - p.low)
  IN  IF p.high = p.low
      THEN IF Abs(CprTc(p) - CprBc(p)) * 400 < Pivots(p).Pivot THEN "NARROW" ELSE "WIDE"
      ELSE IF width * 100 < 20 * atr THEN "NARROW"
      ELSE IF width * 100 < 35 * atr THEN "MODERATE" ELSE "WIDE"

CprSignal(ltp, p) ==
  IF 6 * ltp > Max({CprBc(p), CprTc(p)}) THEN "ABOVE_CPR"
  ELSE IF 6 * ltp < Min({CprBc(p), CprTc(p)}) THEN "BELOW_CPR" ELSE "INSIDE_CPR"

(* The levels of the day: pivots, the extremes of yesterday and of today,  *)
(* the central range.                                                      *)
LevelSet(p, day) ==
  LET piv == Pivots(p)
      more == {6 * p.high, 6 * p.low, 6 * day.high, 6 * day.low, CprBc(p), CprTc(p)}
  IN  {piv[n] : n \in DOMAIN piv} \cup {l \in more : l > 0}

NearestLevels(ltp, p, day) ==
  LET above == {l \in LevelSet(p, day) : l > 6 * ltp}
      below == {l \in LevelSet(p, day) : l <= 6 * ltp}
  IN  [resistance |-> IF above # {} THEN Min(above) ELSE Pivots(p).R5,
       support    |-> IF below # {} THEN Max(below) ELSE Pivots(p).S5]
=============================================================================
