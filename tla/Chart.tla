-------------------------------- MODULE Chart --------------------------------
(***************************************************************************)
(* The detectors that read the price chart, and the zone strategy on them. *)
(* precompute runs every detector over the series it is given: in the live *)
(* loop that is what has closed so far, in a backtest the whole history,   *)
(* and there a bar in the middle is decided with lists that were made with *)
(* the bars after it.  A detector may be used in both only if what it says *)
(* of a bar stays when more bars come.                                     *)
(* Bars are numbered from 1; prices are in pips.                           *)
(***************************************************************************)
EXTENDS Integers, SequencesExt, FiniteSetsExt, TLC

CONSTANTS
  Candles,        \* bars that may close: records of open, high, low, close
  MaxSeries,      \* bound on the length of the series
  SwingLookback,
  MinGap,         \* fvg_min_size_pips
  BreakGap,       \* the gap _check_fvg_left_behind looks for (3 pips)
  MinImpulse,     \* zone_min_impulse_pips
  BaseLookback, MedianHalf, Overlap,
  Departure,      \* bars after the base that belong to the departure (5)
  MaxZoneAge,     \* SupplyDemandAlpha.max_age_bars
  Warmup,         \* bars before the strategy is asked
  HtfFactor, HtfLookback, MinMove   \* the higher-timeframe gate

ASSUME ChartAssumption == SwingLookback \in Nat

VARIABLES
  bars,    \* the closed bars
  fills,   \* _CausalFVGTracker: the fill state of every gap seen
  heard    \* what the live loop's evaluation of each bar signalled

chartVars == <<bars, fills, heard>>

NoSignal == [zone |-> 0]

-----------------------------------------------------------------------------
Body(b) == IF b.close >= b.open THEN b.close - b.open ELSE b.open - b.close
IsBullish(b) == b.close >= b.open

(* detect_swings: a bar whose high (low) is the extreme of its window.     *)
Centre(s, i) == i - SwingLookback >= 1 /\ i + SwingLookback <= Len(s)

IsSwing(s, i, high) ==
  /\ Centre(s, i)
  /\ \A j \in i - SwingLookback..i + SwingLookback :
       IF high THEN s[j].high <= s[i].high ELSE s[j].low >= s[i].low

Level(s, i, high) == IF high THEN s[i].high ELSE s[i].low

(* Slip: a swing is used at the bar after it.                              *)
UnconfirmedSwings(s, i, high) == {j \in 1..i - 1 : IsSwing(s, j, high)}

(* A swing is used once the bars that confirm it have closed.              *)
VisibleSwings(s, i, high) == {j \in 1..i - SwingLookback - 1 : IsSwing(s, j, high)}

(* What the break left behind: _check_fvg_left_behind, _check_orderblock.  *)
LeftGap(s, i) ==
  i >= 3 /\ (s[i].low - s[i - 2].high >= BreakGap \/ s[i - 2].low - s[i].high >= BreakGap)
LeftBlock(s, i, high) ==
  \E j \in {i - 3, i - 2, i - 1} : j >= 1 /\ IsBullish(s[j]) = ~high

(* Bar i closes beyond the last visible swing, and that swing is beyond    *)
(* the last one broken: found is the list of the breaks before it.         *)
BreaksBy(s, i, high, found) ==
  LET swings == VisibleSwings(s, i, high)
      price == Level(s, Max(swings), high)
      broken == {k \in DOMAIN found : found[k].high = high}
      beyond(x, y) == IF high THEN x > y ELSE x < y
  IN  IF /\ swings # {} /\ beyond(s[i].close, price)
         /\ broken = {} \/ beyond(price, found[Max(broken)].price)
      THEN <<[at |-> i, high |-> high, price |-> price, since |-> i - Max(swings),
              gap |-> LeftGap(s, i), block |-> LeftBlock(s, i, high)]>>
      ELSE <<>>

(* detect_bos.                                                             *)
Breaks(s) ==
  LET found[i \in 0..Len(s)] ==
        IF i = 0 THEN <<>>
        ELSE LET before == found[i - 1]
             IN  before \o BreaksBy(s, i, TRUE, before) \o BreaksBy(s, i, FALSE, before)
  IN  found[Len(s)]

-----------------------------------------------------------------------------
(* detect_fvgs: a gap between the bars around bar k.                       *)
GapUp(s, k) == s[k + 1].low - s[k - 1].high
GapDown(s, k) == s[k - 1].low - s[k + 1].high

Gaps(s) == {k \in 2..Len(s) - 1 : Max({GapUp(s, k), GapDown(s, k)}) >= MinGap}

Gap(s, k) ==
  IF GapUp(s, k) > 0 THEN [long |-> TRUE, top |-> s[k + 1].low, bottom |-> s[k - 1].high]
  ELSE [long |-> FALSE, top |-> s[k - 1].low, bottom |-> s[k + 1].high]

Unfilled == [pen |-> 0, visits |-> 0, filled |-> FALSE]

(* How far into a gap a bar reaches, and what that does to its fill state: *)
(* a reach deeper than any before it counts as a visit.                    *)
Reach(gap, b) == IF gap.long THEN gap.top - b.low ELSE b.high - gap.bottom

Filled(gap, fill, b) ==
  LET reach == Reach(gap, b)
      size == gap.top - gap.bottom
  IN  IF fill.filled \/ reach < 0 THEN fill
      ELSE [pen    |-> Max({fill.pen, Min({reach, size})}),
            visits |-> IF reach > fill.pen THEN fill.visits + 1 ELSE fill.visits,
            filled |-> reach >= size]

(* _update_fill_tracking with its bound: the bars after the gap, up to one *)
FillUpTo(s, k, last) ==
  LET fill[n \in 0..last - k] ==
        IF n = 0 THEN Unfilled ELSE Filled(Gap(s, k), fill[n - 1], s[k + n])
  IN  fill[last - k]

(* _CausalFVGTracker.advance_to(i): the gaps created before i join, and    *)
(* all are moved by bar i.                                                 *)
AdvanceTo(tracked, s, i) ==
  [k \in {k \in Gaps(s) : k < i} |->
     Filled(Gap(s, k), IF k \in DOMAIN tracked THEN tracked[k] ELSE Unfilled, s[i])]

-----------------------------------------------------------------------------
(* detect_zones: an impulse is a body of some size, and twice the median   *)
(* of the bodies around it; its base is the smallest body before it.       *)
DoubledMedian(bodies) ==
  LET sorted == SortSeq(bodies, <)
      n == Len(sorted)
  IN  sorted[(n + 1) \div 2] + sorted[n \div 2 + 1]

MedianAround(s, i) ==
  DoubledMedian([j \in 1..Min({Len(s), i + MedianHalf}) - Max({0, i - MedianHalf - 1})
                   |-> Body(s[Max({0, i - MedianHalf - 1}) + j])])

IsImpulse(s, i) == Body(s[i]) >= MinImpulse /\ Body(s[i]) >= MedianAround(s, i)

BaseOf(s, i) ==
  Min({j \in i - BaseLookback..i - 1 : \A m \in i - BaseLookback..i - 1 : Body(s[j]) <= Body(s[m])})

ZoneOf(s, i) ==
  LET base == s[BaseOf(s, i)]
  IN  [long |-> IsBullish(s[i]), top |-> base.high, bottom |-> base.low,
       created |-> BaseOf(s, i), impulse |-> i]

(* _dedupe: the first of the zones that nearly overlap.                    *)
NearPrice(a, b) == a - b \in -Overlap + 1..Overlap - 1
SameZone(z, o) == z.long = o.long /\ NearPrice(z.top, o.top) /\ NearPrice(z.bottom, o.bottom)

Zones(s) ==
  FoldLeft(LAMBDA out, i :
             IF \/ ~IsImpulse(s, i)
                \/ \E o \in Range(out) : SameZone(ZoneOf(s, i), o)
             THEN out ELSE Append(out, ZoneOf(s, i)),
           <<>>, [k \in 1..Max({0, Len(s) - BaseLookback}) |-> BaseLookback + k])

(* _mark_mitigated: the bars that close through a zone after its departure *)
ClosedThrough(s, z) ==
  {j \in 1..Len(s) :
     /\ j >= z.created + Departure
     /\ IF z.long THEN s[j].close < z.bottom ELSE s[j].close > z.top}

(* Slip: a zone that was ever closed through is not fresh.                 *)
MitigatedEver(s, z, i) == ClosedThrough(s, z) # {}

Mitigated(s, z, i) == ClosedThrough(s, z) # {} /\ Min(ClosedThrough(s, z)) < i

(* fresh_zones.                                                            *)
FreshAt(s, z, i) == z.created < i /\ ~Mitigated(s, z, i) /\ i - z.created <= MaxZoneAge

-----------------------------------------------------------------------------
(* htf_bias_at: where the close has moved over some higher-timeframe bars. *)
Bias(s, i) ==
  LET move == s[i].close - s[i - HtfFactor * HtfLookback].close
  IN  CASE i < HtfFactor * HtfLookback + HtfFactor -> "neutral"
        [] OTHER -> IF move >= MinMove THEN "up" ELSE IF move <= -MinMove THEN "down" ELSE "neutral"

Opposes(bias, z) == IF z.long THEN bias = "down" ELSE bias = "up"

Touches(b, z) == b.low <= z.top /\ b.high >= z.bottom

(* _has_touched_before: the departure does not count.                      *)
HasTouchedBefore(s, z, i) == \E j \in z.created + Departure..i - 1 : Touches(s[j], z)

(* The ATR that the stop is measured with: no range, no signal.            *)
HasRange(s, i) ==
  \E j \in Max({2, i - 13})..i : s[j].high > s[j].low \/ s[j].close # s[j - 1].close

(* SupplyDemandAlpha.signal at bar i of a series: the youngest fresh zone  *)
(* that the bar touches for the first time against the higher timeframe.   *)
Signal(s, i) ==
  LET tradable(z) == /\ FreshAt(s, z, i)
                     /\ Touches(s[i], z) /\ ~HasTouchedBefore(s, z, i)
                     /\ Opposes(Bias(s, i), z)
      zones == SelectSeq(Zones(s), tradable)
      z == Last(zones)
  IN  IF i <= Warmup \/ zones = <<>> \/ ~HasRange(s, i) THEN NoSignal
      ELSE [zone |-> z.created, long |-> z.long,
            entry |-> IF z.long THEN Max({s[i].close, z.bottom}) ELSE Min({s[i].close, z.top})]

-----------------------------------------------------------------------------
ChartInit == bars = <<>> /\ fills = <<>> /\ heard = <<>>

(* A bar closes; the live loop evaluates its strategy on the series up to  *)
(* it, a backtest moves its tracker to it.                                 *)
BarArrives ==
  /\ Len(bars) < MaxSeries
  /\ \E b \in Candles :
       LET s == Append(bars, b)
       IN  /\ bars' = s
           /\ fills' = AdvanceTo(fills, s, Len(s))
           /\ heard' = Append(heard, Signal(s, Len(s)))

ChartSpec == ChartInit /\ [][BarArrives]_chartVars

-----------------------------------------------------------------------------
(* A bar that closes changes nothing that was said of the bars before it:  *)
(* the breaks of structure stay, with what they left behind, and no break  *)
(* appears in the past; a zone that is known in both is fresh at the same  *)
(* past bars; and the gaps' fill state is the one a scan that stops at the *)
(* last bar finds ("no lookahead" of fresh_zones, the causality contract   *)
(* of precompute).                                                         *)
NoRepaint ==
  [][/\ IsPrefix(Breaks(bars), Breaks(bars'))
     /\ \A k \in Len(Breaks(bars)) + 1..Len(Breaks(bars')) : Breaks(bars')[k].at = Len(bars')
     /\ \A z \in Range(Zones(bars)) \cap Range(Zones(bars')), i \in 1..Len(bars) :
          FreshAt(bars, z, i) = FreshAt(bars', z, i)
     /\ fills' = [k \in Gaps(bars') |-> FillUpTo(bars', k, Len(bars'))]]_chartVars

(* What a backtest over the whole history signals at a bar is what the     *)
(* live loop signalled when the bar closed: the contract of Alpha.signal,  *)
(* "Must be causal: use only bars[:i+1]".                                  *)
Reproducible == \A i \in DOMAIN bars : Signal(bars, i) = heard[i]
=============================================================================
