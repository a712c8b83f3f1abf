----------------------------- MODULE TargetLadder -----------------------------
(***************************************************************************)
(* The ladder of structural levels beyond a trade's target, an opinion     *)
(* that is recorded at the entry and scored at the close.  Prices are      *)
(* steps above or below the entry; the detectors find levels one by one.   *)
(***************************************************************************)
EXTENDS Integers, SequencesExt, FiniteSetsExt

CONSTANTS
  Prices,    \* where levels may be
  Sources,   \* sequence of the sources, in the order they are asked
  Targets,   \* distances of the mechanical target
  MaxRungs, Dedupe

ASSUME LadderAssumption ==
  /\ Prices \subseteq Int /\ Targets \subseteq Nat /\ Sources \in Seq(Range(Sources))
  /\ MaxRungs \in Nat \ {0} /\ Dedupe \in Nat \ {0}

VARIABLES
  trade,     \* its side and its target
  levels     \* what the detectors have found: a price and a source

EntryPrice == 0

Dist(price) == IF price > EntryPrice THEN price - EntryPrice ELSE EntryPrice - price

LadderInit ==
  /\ \E long \in BOOLEAN, d \in Targets : trade = [long |-> long, target |-> IF long THEN d ELSE -d]
  /\ levels = {}

Found ==
  /\ \E price \in Prices, source \in Range(Sources) :
       levels' = levels \cup {[price |-> price, source |-> source]}
  /\ UNCHANGED trade

ladderVars == <<trade, levels>>

LadderSpec == LadderInit /\ [][Found]_ladderVars

-----------------------------------------------------------------------------
BeyondTP(price) == IF trade.long THEN price > trade.target ELSE price < trade.target

Rank(source) == CHOOSE i \in DOMAIN Sources : Sources[i] = source

(* The stable sort of the candidates by their distance.                    *)
Before(a, b) ==
  \/ Dist(a.price) < Dist(b.price)
  \/ Dist(a.price) = Dist(b.price) /\ Rank(a.source) < Rank(b.source)

Candidates ==
  LET beyond == {l \in levels : BeyondTP(l.price)}
  IN  [i \in 1..Cardinality(beyond) |->
         CHOOSE c \in beyond : Cardinality({b \in beyond : Before(b, c)}) = i - 1]

Near(a, b) == Dist(a.price) - Dist(b.price) \in -Dedupe + 1..Dedupe - 1

(* One candidate of the loop: none too near to a rung before it, and no    *)
(* more than a few.                                                        *)
Climbed(rungs, c) ==
  IF Len(rungs) >= MaxRungs \/ \E i \in DOMAIN rungs : Near(c, rungs[i])
  THEN rungs ELSE Append(rungs, c)

LadderOf(cs) ==
  LET rungs[n \in 0..Len(cs)] == IF n = 0 THEN <<>> ELSE Climbed(rungs[n - 1], cs[n])
  IN  rungs[Len(cs)]

(* Slip: the cap counts candidates, not rungs.                             *)
LadderOfFirst == LadderOf(SubSeq(Candidates, 1, Min({MaxRungs, Len(Candidates)})))

(* compute_target_ladder: nearest first.                                   *)
Ladder == LadderOf(Candidates)

(* score_rungs.                                                            *)
Reached(mfe) == {i \in DOMAIN Ladder : mfe >= Dist(Ladder[i].price)}

-----------------------------------------------------------------------------
(* The rungs lie beyond the target, at least Dedupe apart, and leave no    *)
(* level out that is not near a rung, unless the ladder is full and the    *)
(* level farther than its last rung; an excursion reaches a first part of  *)
(* them.                                                                   *)
LadderFaithful ==
  /\ Len(Ladder) <= MaxRungs
  /\ \A i \in DOMAIN Ladder :
       /\ BeyondTP(Ladder[i].price)
       /\ i > 1 => Dist(Ladder[i].price) - Dist(Ladder[i - 1].price) >= Dedupe
  /\ \A l \in levels :
       BeyondTP(l.price) =>
         \/ \E i \in DOMAIN Ladder : Near(l, Ladder[i])
         \/ Len(Ladder) = MaxRungs /\ Dist(Last(Ladder).price) < Dist(l.price)
  /\ \A mfe \in {Dist(p) : p \in Prices} : Reached(mfe) = 1..Cardinality(Reached(mfe))
=============================================================================
