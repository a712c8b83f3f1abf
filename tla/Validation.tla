----------------------------- MODULE Validation -----------------------------
(***************************************************************************)
(* How a strategy earns its place in the routing table: the ablation grid  *)
(* tests every cell of timeframe and session on the whole history, the     *)
(* walk-forward on windows of years, each followed by a year that was not  *)
(* used for the selection.  Both correct for the number of cells they try  *)
(* (Benjamini-Hochberg).  The walk-forward keeps the trades of its runs in *)
(* a cache file and takes them from there when it is run again.            *)
(***************************************************************************)
EXTENDS Integers, SequencesExt, FiniteSetsExt

CONSTANTS
  Groups,     \* pairs of strategy and timeframe
  History,    \* what a run may trade and close: records of id, year, hour, pnl
  Sessions,   \* ALL_SESSIONS
  Years, ISYears,   \* of the history, of the selection window
  FDR,        \* in percent
  MinOos,     \* trades an out-of-sample pass needs (20)
  Absent

ASSUME ValidationAssumption ==
  /\ IsFiniteSet(Groups) /\ IsFiniteSet(Sessions) /\ IsFiniteSet(History)
  /\ {Years, ISYears} \subseteq Nat /\ FDR \in 0..100

VARIABLES
  made,      \* the trades that a run makes now, by group
  saved,     \* the cache file
  current,   \* the cache was made since the code or the data last changed
  verdict    \* the result that was printed last, and of what

validVars == <<made, saved, current, verdict>>

Cells == Groups \X Sessions

-----------------------------------------------------------------------------
(* label_session, by the hour in New York.                                 *)
Label(hour) ==
  CASE hour \in 19..23 \cup 0..2 -> "asia"
    [] hour \in 3..7 -> "london"
    [] hour \in 8..11 -> "london_ny_overlap"
    [] hour \in 12..16 -> "ny"
    [] OTHER -> "off"

(* _filter and _filter_by_session: by the entry.                           *)
Slice(trades, from, to, session) ==
  {t \in trades : t.year \in from..to /\ (session = "all" \/ Label(t.hour) = session)}

Gain(trades) == MapThenSumSet(LAMBDA t : t.pnl, trades)

(* bootstrap_p_value in percent, over all resamples instead of some.       *)
PValue(trades) ==
  LET n == Cardinality(trades)
      gain(f) == MapThenSumSet(LAMBDA i : f[i].pnl, 1..n)
      resamples == [1..n -> trades]
  IN  IF n < 2 THEN 100
      ELSE (100 * Cardinality({f \in resamples : gain(f) <= 0})) \div Cardinality(resamples)

(* The two values in the middle, added.                                    *)
Median(s) ==
  LET sorted == SortSeq(s, <)
  IN  sorted[(Len(s) + 1) \div 2] + sorted[Len(s) \div 2 + 1]

(* _expectancy, in parts of 60.                                            *)
Expectancy(trades) == IF trades = {} THEN 0 ELSE (Gain(trades) * 60) \div Cardinality(trades)

-----------------------------------------------------------------------------
(* benjamini_hochberg: the cells by their p-value, and as they are listed  *)
(* when these are equal.                                                   *)
Ranked(p) ==
  LET listed == SetToSeq(DOMAIN p)
      place(c) == CHOOSE i \in DOMAIN listed : listed[i] = c
      before(c, d) == p[c] < p[d] \/ (p[c] = p[d] /\ place(c) < place(d))
  IN  [rank \in 1..Cardinality(DOMAIN p) |->
         CHOOSE c \in DOMAIN p : Cardinality({d \in DOMAIN p : before(d, c)}) = rank - 1]

(* p * m / rank is at most the rate.                                       *)
RawAtMost(ps, rank) == ps[rank] * Len(ps) <= FDR * rank

(* Slip: without the running minimum.                                      *)
OwnAtMost(ps, rank) == RawAtMost(ps, rank)

(* A q-value is the smallest of these from the cell's rank on: it is at    *)
(* most the rate when one of them is.                                      *)
QAtMost(ps, rank) == \E r \in rank..Len(ps) : RawAtMost(ps, r)

Rejects(p) ==
  LET cells == Ranked(p)
      ps == [r \in DOMAIN cells |-> p[cells[r]]]
  IN  {cells[rank] : rank \in {r \in DOMAIN ps : QAtMost(ps, r)}}

(* run_grid: the survivors over the whole history.                         *)
GridSurvivors(trades) ==
  Rejects([c \in Cells |-> PValue(Slice(trades[c[1]], 1, Years, c[2]))])

-----------------------------------------------------------------------------
(* The windows of the walk-forward, by their first year.                   *)
WindowStarts == 1..Years - ISYears

IS(trades, w, c) == Slice(trades[c[1]], w, w + ISYears - 1, c[2])
OOS(trades, w, c) == Slice(trades[c[1]], w + ISYears, w + ISYears, c[2])

SurvivesBH(trades, w, c) ==
  c \in Rejects([d \in Cells |-> PValue(IS(trades, w, d))]) /\ Gain(IS(trades, w, c)) > 0

PassesOOS(trades, w, c) ==
  LET oos == OOS(trades, w, c)
  IN  PValue(oos) <= 5 /\ Gain(oos) > 0 /\ Cardinality(oos) >= MinOos

(* CellSummary.walk_forward_robust: the three gates.                       *)
Robust(trades) ==
  {c \in Cells :
     /\ \A w \in WindowStarts : SurvivesBH(trades, w, c)
     /\ 2 * Cardinality({w \in WindowStarts : PassesOOS(trades, w, c)}) >= Cardinality(WindowStarts)
     /\ Median([w \in WindowStarts |-> Expectancy(OOS(trades, w, c))]) > 0}

-----------------------------------------------------------------------------
ValidInit ==
  /\ made = [g \in Groups |-> {}]
  /\ saved = Absent /\ current = TRUE /\ verdict = Absent

(* The code, the configuration or the history changes.                     *)
Changes ==
  /\ made' \in [Groups -> SUBSET History]
  /\ current' = FALSE /\ verdict' = Absent
  /\ UNCHANGED saved

(* The cache file is removed, or cannot be read.                           *)
CacheLost == saved # Absent /\ saved' = Absent /\ UNCHANGED <<made, current, verdict>>

(* run_walk_forward: the trades of the cache, if there is one.             *)
WalkForward ==
  /\ saved' = IF saved = Absent THEN made ELSE saved
  /\ current' = (current \/ saved = Absent)
  /\ verdict' = [by |-> "walk_forward", cells |-> Robust(saved'), current |-> current']
  /\ UNCHANGED made

(* run_ablation: everything anew.                                          *)
Ablation ==
  /\ verdict' = [by |-> "grid", cells |-> GridSurvivors(made), current |-> TRUE]
  /\ UNCHANGED <<made, saved, current>>

ValidNext == Changes \/ CacheLost \/ WalkForward \/ Ablation

ValidSpec == ValidInit /\ [][ValidNext]_validVars

-----------------------------------------------------------------------------
(* The step-up procedure as it is defined: the k smallest p-values are     *)
(* rejected for the largest k whose p-value is at most k / m of the rate.  *)
StepUp(p) ==
  {c \in DOMAIN p : \E k \in 1..Cardinality(DOMAIN p) :
     /\ p[c] * Cardinality(DOMAIN p) <= k * FDR
     /\ Cardinality({d \in DOMAIN p : p[d] * Cardinality(DOMAIN p) <= k * FDR}) >= k}

(* What the grid prints as a survivor is one of the step-up procedure.  A  *)
(* cell the walk-forward calls robust is selected in every window among    *)
(* all the cells that were tried, by trades of which none confirms it in   *)
(* that window; it gains in all these, and in half of the years that       *)
(* follow them at least.  Both are said of the trades that the code makes  *)
(* now, but by a walk-forward that found a cache from before a change.     *)
VerdictHonest ==
  verdict # Absent /\ verdict.current =>
    IF verdict.by = "grid"
    THEN verdict.cells = StepUp([c \in Cells |-> PValue(Slice(made[c[1]], 1, Years, c[2]))])
    ELSE \A c \in verdict.cells :
           /\ \A w \in WindowStarts :
                /\ c \in StepUp([d \in Cells |-> PValue(IS(made, w, d))])
                /\ Gain(IS(made, w, c)) > 0
                /\ IS(made, w, c) \cap OOS(made, w, c) = {}
           /\ 2 * Cardinality({w \in WindowStarts : Gain(OOS(made, w, c)) > 0})
                >= Cardinality(WindowStarts)
=============================================================================
