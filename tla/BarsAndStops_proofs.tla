------------------------- MODULE BarsAndStops_proofs -------------------------
(***************************************************************************)
(* From the bar an order comes from to the stop that ends its ticket, for  *)
(* all timeframes, periods, lookbacks, distances, volumes, multiples and   *)
(* prices: a closed bar is evaluated or its loss is known, no close is     *)
(* traded twice without a cause, a stalled feed is reported; a ticket's    *)
(* partial exit is taken once and its stops never loosen; and what was     *)
(* read off the chart is not repainted by the bars that follow.            *)
(***************************************************************************)
EXTENDS BarDispatch, PositionStops, Chart, SetSums_proofs, SequenceTheorems, FiniteSetTheorems, TLAPS

-----------------------------------------------------------------------------
(* The bars.                                                               *)
Marks == [TFs -> Int]

Loops == [todo: Seq(TFs), bar: Int, errors: Int, running: BOOLEAN]

Counts == [done: Marks, lost: Marks, again: Int, excused: Int, faults: Int, asOf: Marks]

BarsTyped ==
  /\ now \in Nat
  /\ {feed, seen, clock, warned, kept} \subseteq Marks
  /\ loop \in Loops
  /\ loop.bar # None => loop.todo # <<>>
  /\ counts \in Counts

-----------------------------------------------------------------------------
LEMMA NothingTyped == Nothing \in Marks /\ \A tf \in TFs : Nothing[tf] = None
BY DEF Nothing, Marks, None

LEMMA TimeframesTyped == Timeframes \in Seq(TFs) /\ Period \in [TFs -> Nat \ {0}]
BY BarsAssumption DEF TFs

LEMMA Todo ==
  ASSUME loop \in Loops, loop.todo # <<>>
  PROVE  TF \in TFs /\ Tail(loop.todo) \in Seq(TFs)
BY DEF TF, Loops

LEMMA RestingTyped == Resting \in Loops /\ Resting.todo = <<>> /\ Resting.bar = None /\ Resting.running
BY DEF Resting, Loops, None

LEMMA RaisesTyped ==
  ASSUME loop \in Loops, Raises
  PROVE  loop' \in Loops /\ loop'.todo = <<>> /\ loop'.bar = None
<1> DEFINE more == loop.errors + 1 < MaxErrors
<1>1. /\ loop' = [todo |-> <<>>, bar |-> None, errors |-> loop.errors + 1, running |-> more]
      /\ more \in BOOLEAN
  BY DEF Raises
<1>2. loop.errors + 1 \in Int
  BY DEF Loops
<1> HIDE DEF more
<1> QED
  BY <1>1, <1>2 DEF Loops, None

LEMMA NextTyped ==
  ASSUME loop \in Loops, loop.todo # <<>>, NextTimeframe
  PROVE  /\ loop' \in Loops /\ loop'.bar = None /\ loop'.running = loop.running
<1> DEFINE rest == Tail(loop.todo)
           errs == IF rest = <<>> THEN 0 ELSE loop.errors
<1>1. rest \in Seq(TFs)
  BY Todo
<1>2. errs \in Int
  BY DEF Loops
<1>3. loop' = [todo |-> rest, bar |-> None, errors |-> errs, running |-> loop.running]
  BY DEF NextTimeframe, Loops
<1> HIDE DEF rest, errs
<1> QED
  BY <1>1, <1>2, <1>3 DEF Loops, None

-----------------------------------------------------------------------------
(* The poll's step of the stall clock, which the history follows.          *)
LEMMA PollTyped ==
  ASSUME BarsTyped, Polling
  PROVE  /\ TF \in TFs
         /\ [clock EXCEPT ![TF] = ClockPolled] \in Marks
         /\ AsOf \in Marks
         /\ counts.asOf = clock => AsOf = [clock EXCEPT ![TF] = ClockPolled]
<1>1. TF \in TFs
  BY Todo DEF BarsTyped, Polling
<1>2. now \in Int /\ clock \in Marks /\ counts.asOf \in Marks
  BY DEF BarsTyped, Counts
<1>3. ClockPolled \in Int
  BY <1>1, <1>2 DEF ClockPolled, Marks
<1>4. AsOf = [counts.asOf EXCEPT ![TF] =
                 IF now \in Closed \/ counts.asOf[TF] = None THEN now ELSE counts.asOf[TF]]
  BY DEF AsOf
<1>5. AsOf \in Marks
  BY <1>1, <1>2, <1>4 DEF Marks
<1>6. counts.asOf = clock => AsOf = [clock EXCEPT ![TF] = ClockPolled]
  BY <1>4 DEF ClockPolled
<1> QED
  BY <1>1, <1>2, <1>3, <1>5, <1>6 DEF Marks

LEMMA WarnTyped ==
  ASSUME BarsTyped, Polling, Warn
  PROVE  warned' \in Marks
<1>1. warned \in Marks /\ now \in Int /\ TF \in TFs
  BY PollTyped DEF BarsTyped
<1> QED
  BY <1>1 DEF Warn, Marks

(* What each step leaves of the history.                                   *)
SameCounts ==
  /\ counts'.done = counts.done /\ counts'.lost = counts.lost
  /\ counts'.again = counts.again /\ counts'.excused = counts.excused

LEMMA AsOfChanges ==
  ASSUME counts \in Counts, NEW marks \in Marks, NEW n \in Int,
         counts' \in {[counts EXCEPT !.asOf = marks], [counts EXCEPT !.asOf = marks, !.faults = n]}
  PROVE  counts' \in Counts /\ counts'.asOf = marks /\ SameCounts
<1>1. CASE counts' = [counts EXCEPT !.asOf = marks]
  BY <1>1 DEF Counts, SameCounts
<1>2. CASE counts' = [counts EXCEPT !.asOf = marks, !.faults = n]
  BY <1>2 DEF Counts, SameCounts
<1> QED
  BY <1>1, <1>2

LEMMA PollOldSteps ==
  ASSUME BarsTyped, PollOld \/ PollRaises
  PROVE  /\ BarsTyped' /\ SameCounts
         /\ UNCHANGED <<now, feed, seen, kept>> /\ loop.bar = None /\ loop'.bar = None
         /\ counts.asOf = clock => counts'.asOf = clock'
<1>1. Polling /\ Warn /\ clock' = [clock EXCEPT ![TF] = ClockPolled] /\ UNCHANGED <<now, feed, kept>>
  BY DEF PollOld, PollRaises
<1>2. /\ TF \in TFs /\ clock' \in Marks /\ AsOf \in Marks /\ warned' \in Marks
      /\ counts.asOf = clock => AsOf = clock'
  BY <1>1, PollTyped, WarnTyped
<1>3. counts \in Counts /\ seen \in Marks
  BY DEF BarsTyped
<1>4. \/ counts' = [counts EXCEPT !.asOf = AsOf]
      \/ counts' = [counts EXCEPT !.asOf = AsOf, !.faults = @ + 1]
  BY DEF PollOld, PollRaises
<1>5. counts' \in Counts /\ counts'.asOf = AsOf /\ SameCounts
  <2>1. counts.faults + 1 \in Int
    BY <1>3 DEF Counts
  <2>2. counts' \in {[counts EXCEPT !.asOf = AsOf],
                     [counts EXCEPT !.asOf = AsOf, !.faults = counts.faults + 1]}
    BY <1>4
  <2> QED
    BY <1>2, <1>3, <2>1, <2>2, AsOfChanges
<1>6. seen' = seen
  BY <1>2, <1>3 DEF PollOld, PollRaises, MarkedBefore, Marks
<1>7. loop' \in Loops /\ loop'.bar = None /\ loop.bar = None
  BY <1>1, NextTyped, RaisesTyped DEF PollOld, PollRaises, BarsTyped, Polling
<1>8. now' \in Nat /\ {feed', seen', clock', warned', kept'} \subseteq Marks
  BY <1>1, <1>2, <1>6 DEF BarsTyped
<1>9. BarsTyped'
  BY <1>5, <1>7, <1>8 DEF BarsTyped
<1> QED
  BY <1>1, <1>2, <1>5, <1>6, <1>7, <1>9

LEMMA PollNewSteps ==
  ASSUME BarsTyped, PollNew
  PROVE  /\ BarsTyped'
         /\ UNCHANGED <<now, feed>> /\ loop.bar = None /\ TF \in TFs
         /\ loop'.bar = feed[TF] /\ TF' = TF /\ loop'.running /\ loop.running
         /\ seen' = [seen EXCEPT ![TF] = feed[TF]] /\ feed[TF] # seen[TF]
         /\ counts.asOf = clock => counts'.asOf = clock'
         /\ counts'.done = counts.done /\ counts'.lost = counts.lost
         /\ counts'.again = counts.again
         /\ \/ kept' = seen' /\ counts'.excused = counts.excused
            \/ kept' = kept /\ counts'.excused = counts.excused + 1
<1>1. /\ Polling /\ Warn /\ NewBar
      /\ seen' = [seen EXCEPT ![TF] = feed[TF]]
      /\ clock' = [clock EXCEPT ![TF] = now]
      /\ loop' = [loop EXCEPT !.bar = feed[TF]]
      /\ UNCHANGED <<now, feed>>
      /\ \/ kept' = seen' /\ counts' = [counts EXCEPT !.asOf[TF] = now]
         \/ /\ UNCHANGED kept
            /\ counts' = [counts EXCEPT !.asOf[TF] = now, !.excused = @ + 1, !.faults = @ + 1]
  BY DEF PollNew
<1>2. /\ TF \in TFs /\ warned' \in Marks
  BY <1>1, PollTyped, WarnTyped
<1>3. /\ {feed, seen, clock, kept} \subseteq Marks /\ now \in Int /\ counts \in Counts
      /\ loop \in Loops /\ counts.asOf \in Marks
      /\ counts.excused + 1 \in Int /\ counts.faults + 1 \in Int
  BY DEF BarsTyped, Counts
<1>4. /\ seen' \in Marks /\ clock' \in Marks /\ [counts.asOf EXCEPT ![TF] = now] \in Marks
      /\ feed[TF] \in Int
  BY <1>1, <1>2, <1>3 DEF Marks
<1>5. /\ loop' \in Loops /\ loop'.bar = feed[TF] /\ loop'.todo = loop.todo
      /\ loop'.running = loop.running
  BY <1>1, <1>3, <1>4 DEF Loops
<1>6. CASE kept' = seen' /\ counts' = [counts EXCEPT !.asOf[TF] = now]
  <2>1. counts' \in Counts /\ counts'.asOf = [counts.asOf EXCEPT ![TF] = now] /\ SameCounts
    BY <1>3, <1>4, <1>6 DEF Counts, SameCounts
  <2> QED
    BY <1>1, <1>2, <1>3, <1>4, <1>5, <1>6, <2>1 DEF BarsTyped, Polling, TF, NewBar, SameCounts
<1>7. CASE /\ UNCHANGED kept
           /\ counts' = [counts EXCEPT !.asOf[TF] = now, !.excused = @ + 1, !.faults = @ + 1]
  <2>1. counts' \in Counts /\ counts'.asOf = [counts.asOf EXCEPT ![TF] = now]
        /\ counts'.done = counts.done /\ counts'.lost = counts.lost
        /\ counts'.again = counts.again /\ counts'.excused = counts.excused + 1
    BY <1>3, <1>4, <1>7 DEF Counts
  <2> QED
    BY <1>1, <1>2, <1>3, <1>4, <1>5, <1>7, <2>1 DEF BarsTyped, Polling, TF, NewBar
<1> QED
  BY <1>1, <1>6, <1>7

LEMMA EvaluateSteps ==
  ASSUME BarsTyped, Evaluate
  PROVE  /\ BarsTyped' /\ TF \in TFs /\ Evaluating
         /\ UNCHANGED <<now, feed, seen, clock, kept>> /\ loop'.bar = None
         /\ counts'.done = [counts.done EXCEPT ![TF] = loop.bar] /\ counts'.lost = counts.lost
         /\ counts'.again = counts.again + (IF loop.bar = counts.done[TF] THEN 1 ELSE 0)
         /\ counts'.excused = counts.excused /\ counts'.asOf = counts.asOf
<1> DEFINE done == [counts.done EXCEPT ![TF] = loop.bar]
           again == counts.again + (IF loop.bar = counts.done[TF] THEN 1 ELSE 0)
<1>1. /\ Evaluating /\ NextTimeframe /\ UNCHANGED <<now, feed, seen, clock, warned, kept>>
      /\ counts' = [counts EXCEPT !.done = done, !.again = again]
  BY DEF Evaluate
<1>2. /\ loop \in Loops /\ loop.todo # <<>> /\ counts \in Counts /\ counts.done \in Marks
      /\ loop.bar \in Int
  BY <1>1 DEF BarsTyped, Evaluating, Counts, Loops
<1>3. TF \in TFs /\ loop' \in Loops /\ loop'.bar = None
  BY <1>1, <1>2, Todo, NextTyped
<1>4. done \in Marks /\ again \in Int
  <2>1. done \in Marks
    BY <1>2 DEF Marks
  <2>2. again \in Int
    BY <1>2 DEF Counts
  <2> QED
    BY <2>1, <2>2
<1> HIDE DEF done, again
<1>5. /\ counts' \in Counts /\ counts'.done = done /\ counts'.lost = counts.lost
      /\ counts'.again = again /\ counts'.excused = counts.excused /\ counts'.asOf = counts.asOf
  BY <1>1, <1>2, <1>4 DEF Counts
<1>6. BarsTyped'
  BY <1>1, <1>3, <1>5 DEF BarsTyped
<1> QED
  BY <1>1, <1>3, <1>5, <1>6 DEF done, again

LEMMA RaiseSteps ==
  ASSUME BarsTyped, EvaluateRaises
  PROVE  /\ BarsTyped' /\ TF \in TFs /\ Evaluating
         /\ UNCHANGED <<now, feed, seen, clock, kept>> /\ loop'.bar = None
         /\ counts'.lost = [counts.lost EXCEPT ![TF] = loop.bar] /\ counts'.done = counts.done
         /\ counts'.again = counts.again
         /\ counts'.excused = counts.excused /\ counts'.asOf = counts.asOf
<1> DEFINE lost == [counts.lost EXCEPT ![TF] = loop.bar]
           faults == counts.faults + 1
<1>1. /\ Evaluating /\ Raises /\ UNCHANGED <<now, feed, seen, clock, warned, kept>>
      /\ counts' = [counts EXCEPT !.lost = lost, !.faults = faults]
  BY DEF EvaluateRaises
<1>2. /\ loop \in Loops /\ loop.todo # <<>> /\ counts \in Counts /\ counts.lost \in Marks
      /\ loop.bar \in Int
  BY <1>1 DEF BarsTyped, Evaluating, Counts, Loops
<1>3. TF \in TFs /\ loop' \in Loops /\ loop'.bar = None
  BY <1>1, <1>2, Todo, RaisesTyped
<1>4. lost \in Marks /\ faults \in Int
  <2>1. lost \in Marks
    BY <1>2 DEF Marks
  <2>2. faults \in Int
    BY <1>2 DEF Counts
  <2> QED
    BY <2>1, <2>2
<1> HIDE DEF lost, faults
<1>5. /\ counts' \in Counts /\ counts'.lost = lost /\ counts'.done = counts.done
      /\ counts'.again = counts.again /\ counts'.excused = counts.excused
      /\ counts'.asOf = counts.asOf
  BY <1>1, <1>2, <1>4 DEF Counts
<1>6. BarsTyped'
  BY <1>1, <1>3, <1>5 DEF BarsTyped
<1> QED
  BY <1>1, <1>3, <1>5, <1>6 DEF lost

LEMMA TFsFinite == IsFiniteSet(TFs)
<1>1. Timeframes \in Surjection(1..Len(Timeframes), TFs)
  <2>1. Timeframes \in [1..Len(Timeframes) -> TFs] /\ Len(Timeframes) \in Nat
    BY TimeframesTyped
  <2>2. \A tf \in TFs : \E i \in 1..Len(Timeframes) : Timeframes[i] = tf
    BY <2>1 DEF TFs, Range
  <2> QED
    BY <2>1, <2>2 DEF Surjection
<1>2. IsFiniteSet(1..Len(Timeframes))
  BY TimeframesTyped, FS_Interval
<1> QED
  BY <1>1, <1>2, FS_Surjection

LEMMA CardinalityOfTFs ==
  ASSUME NEW S \in SUBSET TFs
  PROVE  IsFiniteSet(S) /\ Cardinality(S) \in Nat
BY TFsFinite, FS_Subset, FS_CardinalityType

LEMMA RestartSteps ==
  ASSUME BarsTyped, LoopRestart
  PROVE  /\ BarsTyped'
         /\ UNCHANGED <<now, feed, kept>> /\ loop'.bar = None
         /\ seen' = RestoreBars(kept) /\ clock' = Nothing /\ counts'.asOf = Nothing
         /\ IF Evaluating THEN TF \in TFs /\ counts'.lost = [counts.lost EXCEPT ![TF] = loop.bar]
            ELSE counts'.lost = counts.lost
         /\ counts'.done = counts.done /\ counts'.again = counts.again
         /\ counts'.excused = counts.excused + Cardinality(Forgotten)
<1> DEFINE lost == IF Evaluating THEN [counts.lost EXCEPT ![TF] = loop.bar] ELSE counts.lost
           faults == counts.faults + (IF loop.running THEN 1 ELSE 0)
           excused == counts.excused + Cardinality(Forgotten)
<1>1. /\ seen' = RestoreBars(kept) /\ clock' = Nothing /\ warned' = Nothing /\ loop' = Resting
      /\ UNCHANGED <<now, feed, kept>>
      /\ counts' = [counts EXCEPT !.lost = lost, !.excused = excused,
                                  !.faults = faults, !.asOf = Nothing]
  BY DEF LoopRestart
<1>2. /\ loop \in Loops /\ counts \in Counts /\ counts.lost \in Marks /\ loop.bar \in Int
      /\ kept \in Marks
  BY DEF BarsTyped, Counts, Loops
<1>3. Evaluating => TF \in TFs
  BY Todo DEF BarsTyped, Evaluating
<1>4. lost \in Marks
  BY <1>2, <1>3 DEF Marks
<1>5. faults \in Int /\ excused \in Int
  <2>1. Cardinality(Forgotten) \in Nat
    BY CardinalityOfTFs DEF Forgotten
  <2> QED
    BY <1>2, <2>1 DEF Counts
<1>6. seen' \in Marks
  BY <1>1, <1>2 DEF RestoreBars, Marks, None
<1>7. Evaluating => lost = [counts.lost EXCEPT ![TF] = loop.bar]
  OBVIOUS
<1>8. ~Evaluating => lost = counts.lost
  OBVIOUS
<1> HIDE DEF lost, faults, excused
<1>9. /\ counts' \in Counts /\ counts'.lost = lost /\ counts'.done = counts.done
      /\ counts'.again = counts.again /\ counts'.excused = excused /\ counts'.asOf = Nothing
  BY <1>1, <1>2, <1>4, <1>5, NothingTyped DEF Counts
<1>10. BarsTyped'
  BY <1>1, <1>2, <1>6, <1>9, NothingTyped, RestingTyped DEF BarsTyped
<1> QED
  BY <1>1, <1>3, <1>7, <1>8, <1>9, <1>10, RestingTyped DEF excused

-----------------------------------------------------------------------------
(* The feed shows bars that have closed, and no mark, evaluation or loss   *)
(* is of a bar newer than the feed's; what is being evaluated is the bar   *)
(* last marked, and no older than what was evaluated before.               *)
InOrder ==
  \A tf \in TFs :
    /\ 0 <= feed[tf] /\ feed[tf] <= Period[tf] * (now \div Period[tf])
    /\ seen[tf] <= feed[tf] /\ kept[tf] <= feed[tf]
    /\ counts.done[tf] <= feed[tf] /\ counts.lost[tf] <= feed[tf]
    /\ Evaluating /\ TF = tf =>
         /\ loop.bar = seen[tf]
         /\ counts.done[tf] <= loop.bar /\ counts.lost[tf] <= loop.bar

(* A mark, in memory or in the sidecar, stands for an evaluation that was  *)
(* made, is being made or was lost.                                        *)
Judged(tf, bar) ==
  bar # None =>
    \/ bar <= counts.done[tf] \/ bar <= counts.lost[tf]
    \/ Evaluating /\ TF = tf /\ loop.bar = bar

MarksJudged == \A tf \in TFs : Judged(tf, seen[tf]) /\ Judged(tf, kept[tf])

(* Timeframes whose bar may be evaluated again: the mark of what was, or   *)
(* is being, evaluated is missing, from the sidecar or already from memory.*)
Unsaved ==
  {tf \in TFs : \/ seen[tf] < counts.done[tf] \/ kept[tf] < counts.done[tf]
                \/ Evaluating /\ TF = tf /\ kept[tf] < loop.bar}

Repeating == Evaluating /\ loop.bar = counts.done[TF]

(* Each cause is good for one repetition, had, under way or to come.       *)
CausesLast ==
  counts.again + Cardinality(Unsaved) + (IF Repeating THEN 1 ELSE 0) <= counts.excused

BarsHeld == BarsTyped /\ InOrder /\ MarksJudged /\ CausesLast /\ counts.asOf = clock

(* A period's floor grows with time.                                       *)
LEMMA FloorGrows ==
  ASSUME NEW p \in Nat \ {0}, NEW t \in Nat
  PROVE  /\ 0 <= p * (t \div p) /\ p * (t \div p) \in Nat
         /\ p * (t \div p) <= p * ((t + 1) \div p)
<1> DEFINE a == t \div p
           b == (t + 1) \div p
<1>1. a \in Nat /\ b \in Nat /\ p * a <= t /\ t + 1 < p * (b + 1)
  OBVIOUS
<1>2. a <= b
  <2>1. CASE b + 1 <= a
    <3>1. p * (b + 1) <= p * a
      <4>1. \A x, y \in Nat : x <= y => p * x <= p * y
        OBVIOUS
      <4> QED
        BY <1>1, <2>1, <4>1
    <3>2. p * a \in Nat /\ p * (b + 1) \in Nat
      BY <1>1
    <3> QED
      BY <1>1, <3>1, <3>2
  <2> QED
    BY <1>1, <2>1
<1>3. \A x, y \in Nat : x <= y => p * x <= p * y
  OBVIOUS
<1>4. p * a \in Nat
  BY <1>1
<1> QED
  BY <1>1, <1>2, <1>3, <1>4

LEMMA BarsInitHolds == BarsInit => BarsHeld
<1> SUFFICES ASSUME BarsInit PROVE BarsHeld
  OBVIOUS
<1> DEFINE first == [tf \in TFs |-> 0]
<1>1. /\ now = 0 /\ feed = first /\ seen = Nothing /\ clock = Nothing /\ warned = Nothing
      /\ kept = Nothing /\ loop = Resting
      /\ counts = [done |-> Nothing, lost |-> Nothing, again |-> 0, excused |-> 0,
                   faults |-> 0, asOf |-> Nothing]
  BY DEF BarsInit
<1>2. first \in Marks /\ \A tf \in TFs : first[tf] = 0
  BY DEF Marks
<1>3. counts \in Counts
  BY <1>1, NothingTyped DEF Counts
<1>4. BarsTyped
  BY <1>1, <1>2, <1>3, NothingTyped, RestingTyped DEF BarsTyped
<1> HIDE DEF first
<1>5. ~Evaluating
  BY <1>1, RestingTyped DEF Evaluating
<1>6. InOrder
  <2>1. \A tf \in TFs : Period[tf] * (now \div Period[tf]) = 0
    <3>1. \A tf \in TFs : Period[tf] \in Nat \ {0}
      BY TimeframesTyped
    <3> QED
      BY <1>1, <3>1
  <2> QED
    BY <1>1, <1>2, <1>5, <2>1, NothingTyped DEF InOrder, None
<1>7. MarksJudged
  BY <1>1, NothingTyped DEF MarksJudged, Judged
<1>8. Unsaved = {} /\ ~Repeating
  BY <1>1, <1>5, NothingTyped DEF Unsaved, Repeating, None
<1>9. CausesLast
  BY <1>1, <1>8, FS_EmptySet DEF CausesLast
<1> QED
  BY <1>1, <1>4, <1>6, <1>7, <1>9 DEF BarsHeld

-----------------------------------------------------------------------------
(* Steps that mark no bar and evaluate none.                               *)
LEMMA IdleKeeps ==
  ASSUME BarsHeld, BarsTyped', UNCHANGED <<seen, kept>>, SameCounts,
         UNCHANGED loop \/ (loop.bar = None /\ loop'.bar = None),
         \A tf \in TFs : feed[tf] <= feed'[tf] /\ feed'[tf] <= Period[tf] * (now' \div Period[tf]),
         counts'.asOf = clock'
  PROVE  BarsHeld'
<1>1. \/ UNCHANGED loop /\ Evaluating' = Evaluating /\ TF' = TF
      \/ ~Evaluating /\ ~Evaluating'
  BY DEF Evaluating, TF
<1>2. /\ counts'.done = counts.done /\ counts'.lost = counts.lost
      /\ counts'.again = counts.again /\ counts'.excused = counts.excused
  BY DEF SameCounts
<1>3. {feed, feed', seen, kept, counts.done, counts.lost} \subseteq Marks
  BY DEF BarsHeld, BarsTyped, Counts
<1>4. InOrder'
  <2> SUFFICES ASSUME NEW tf \in TFs
               PROVE  /\ 0 <= feed'[tf] /\ feed'[tf] <= Period[tf] * (now' \div Period[tf])
                      /\ seen[tf] <= feed'[tf] /\ kept[tf] <= feed'[tf]
                      /\ counts.done[tf] <= feed'[tf] /\ counts.lost[tf] <= feed'[tf]
                      /\ Evaluating' /\ TF' = tf =>
                           /\ loop'.bar = seen[tf]
                           /\ counts.done[tf] <= loop'.bar /\ counts.lost[tf] <= loop'.bar
    BY <1>2 DEF InOrder
  <2>1. /\ feed[tf] \in Int /\ feed'[tf] \in Int /\ seen[tf] \in Int /\ kept[tf] \in Int
        /\ counts.done[tf] \in Int /\ counts.lost[tf] \in Int
    BY <1>3 DEF Marks
  <2>2. /\ 0 <= feed[tf] /\ seen[tf] <= feed[tf] /\ kept[tf] <= feed[tf]
        /\ counts.done[tf] <= feed[tf] /\ counts.lost[tf] <= feed[tf]
        /\ Evaluating /\ TF = tf =>
             /\ loop.bar = seen[tf]
             /\ counts.done[tf] <= loop.bar /\ counts.lost[tf] <= loop.bar
    BY DEF BarsHeld, InOrder
  <2>3. feed[tf] <= feed'[tf] /\ feed'[tf] <= Period[tf] * (now' \div Period[tf])
    OBVIOUS
  <2> QED
    BY <1>1, <2>1, <2>2, <2>3
<1>5. MarksJudged'
  BY <1>1, <1>2 DEF BarsHeld, MarksJudged, Judged
<1>6. Unsaved' = Unsaved /\ Repeating' = Repeating
  BY <1>1, <1>2 DEF Unsaved, Repeating
<1>7. CausesLast'
  BY <1>2, <1>6 DEF BarsHeld, CausesLast
<1> QED
  BY <1>4, <1>5, <1>7 DEF BarsHeld

LEMMA TimeKeeps ==
  ASSUME BarsHeld, Tick \/ \E tf \in TFs : Delivers(tf)
  PROVE  BarsHeld'
<1>1. now \in Nat /\ feed \in Marks /\ BarsTyped
  BY DEF BarsHeld, BarsTyped
<1>2. \A tf \in TFs : Period[tf] \in Nat \ {0}
  BY TimeframesTyped
<1>3. \A tf \in TFs : feed[tf] \in Int /\ feed[tf] <= Period[tf] * (now \div Period[tf])
  BY <1>1 DEF BarsHeld, InOrder, Marks
<1>4. UNCHANGED <<seen, kept, clock, warned, loop, counts>> /\ SameCounts
  BY DEF Tick, Delivers, SameCounts
<1>5. CASE Tick
  <2>1. now' = now + 1 /\ feed' = feed
    BY <1>5 DEF Tick
  <2>2. BarsTyped'
    BY <1>1, <1>4, <2>1 DEF BarsTyped
  <2>3. ASSUME NEW tf \in TFs
        PROVE  feed[tf] <= feed'[tf] /\ feed'[tf] <= Period[tf] * (now' \div Period[tf])
    <3>1. /\ Period[tf] * (now \div Period[tf]) \in Nat
          /\ Period[tf] * (now \div Period[tf]) <= Period[tf] * ((now + 1) \div Period[tf])
          /\ Period[tf] * ((now + 1) \div Period[tf]) \in Nat
      BY <1>1, <1>2, FloorGrows, now + 1 \in Nat
    <3> QED
      BY <1>3, <2>1, <3>1
  <2> QED
    BY <1>4, <2>2, <2>3, IdleKeeps DEF BarsHeld
<1>6. CASE \E tf \in TFs : Delivers(tf)
  <2>1. PICK tf \in TFs : Delivers(tf)
    BY <1>6
  <2> DEFINE newest == Period[tf] * (now \div Period[tf])
  <2>2. now' = now /\ feed' = [feed EXCEPT ![tf] = newest]
    BY <2>1 DEF Delivers
  <2>3. newest \in Nat
    BY <1>1, <1>2, FloorGrows
  <2>4. feed' \in Marks
    BY <1>1, <2>2, <2>3 DEF Marks
  <2>5. BarsTyped'
    BY <1>1, <1>4, <2>2, <2>4 DEF BarsTyped
  <2>6. ASSUME NEW t \in TFs
        PROVE  feed[t] <= feed'[t] /\ feed'[t] <= Period[t] * (now' \div Period[t])
    <3>1. CASE t = tf
      <4>1. feed'[t] = newest
        BY <1>1, <2>2, <3>1 DEF Marks
      <4> QED
        BY <1>3, <2>2, <2>3, <3>1, <4>1
    <3>2. CASE t # tf
      <4>1. feed'[t] = feed[t]
        BY <1>1, <2>2, <3>2 DEF Marks
      <4> QED
        BY <1>3, <2>2, <4>1
    <3> QED
      BY <3>1, <3>2
  <2> QED
    BY <1>4, <2>5, <2>6, IdleKeeps DEF BarsHeld
<1> QED
  BY <1>5, <1>6

LEMMA FeedStands ==
  ASSUME BarsHeld, UNCHANGED <<now, feed>>
  PROVE  \A tf \in TFs : feed[tf] <= feed'[tf] /\ feed'[tf] <= Period[tf] * (now' \div Period[tf])
<1>1. \A tf \in TFs : feed[tf] \in Int
  BY DEF BarsHeld, BarsTyped, Marks
<1> QED
  BY <1>1 DEF BarsHeld, InOrder

LEMMA PollKeeps ==
  ASSUME BarsHeld, Iteration \/ PollOld \/ PollRaises
  PROVE  BarsHeld'
<1>1. BarsTyped
  BY DEF BarsHeld
<1>2. CASE Iteration
  <2>1. loop \in Loops /\ Timeframes \in Seq(TFs) /\ loop.todo = <<>> /\ loop.bar = None
    BY <1>1, <1>2, TimeframesTyped DEF BarsTyped, Iteration
  <2>2. loop' \in Loops /\ loop'.bar = None
    BY <1>2, <2>1 DEF Iteration, Loops
  <2>3. UNCHANGED <<now, feed, seen, clock, warned, kept, counts>> /\ SameCounts
    BY <1>2 DEF Iteration, SameCounts
  <2>4. BarsTyped'
    BY <1>1, <2>2, <2>3 DEF BarsTyped
  <2> QED
    BY <2>1, <2>2, <2>3, <2>4, FeedStands, IdleKeeps DEF BarsHeld
<1>3. CASE PollOld \/ PollRaises
  BY <1>1, <1>3, PollOldSteps, FeedStands, IdleKeeps DEF BarsHeld
<1> QED
  BY <1>2, <1>3

(* The sets Unsaved names are finite, and so comparable.                   *)
LEMMA UnsavedCounts ==
  /\ IsFiniteSet(Unsaved) /\ Cardinality(Unsaved) \in Nat
  /\ \A S \in SUBSET Unsaved : Cardinality(S) \in Nat /\ Cardinality(S) <= Cardinality(Unsaved)
  /\ \A tf \in Unsaved : \A S \in SUBSET (Unsaved \ {tf}) :
       Cardinality(S) \in Nat /\ Cardinality(S) + 1 <= Cardinality(Unsaved)
  /\ \A tf : \A S \in SUBSET (Unsaved \cup {tf}) :
       Cardinality(S) \in Nat /\ Cardinality(S) <= Cardinality(Unsaved) + 1
<1>1. IsFiniteSet(Unsaved) /\ Cardinality(Unsaved) \in Nat
  BY CardinalityOfTFs DEF Unsaved
<1>2. ASSUME NEW S \in SUBSET Unsaved
      PROVE  Cardinality(S) \in Nat /\ Cardinality(S) <= Cardinality(Unsaved)
  BY <1>1, FS_Subset, FS_CardinalityType
<1>3. ASSUME NEW tf \in Unsaved, NEW S \in SUBSET (Unsaved \ {tf})
      PROVE  Cardinality(S) \in Nat /\ Cardinality(S) + 1 <= Cardinality(Unsaved)
  <2>1. IsFiniteSet(Unsaved \ {tf}) /\ Cardinality(Unsaved \ {tf}) = Cardinality(Unsaved) - 1
    BY <1>1, FS_RemoveElement
  <2>2. IsFiniteSet(S) /\ Cardinality(S) <= Cardinality(Unsaved \ {tf})
    BY <2>1, FS_Subset
  <2>3. Cardinality(S) \in Nat
    BY <2>2, FS_CardinalityType
  <2> QED
    BY <1>1, <2>1, <2>2, <2>3
<1>4. ASSUME NEW tf, NEW S \in SUBSET (Unsaved \cup {tf})
      PROVE  Cardinality(S) \in Nat /\ Cardinality(S) <= Cardinality(Unsaved) + 1
  <2>1. /\ IsFiniteSet(Unsaved \cup {tf})
        /\ Cardinality(Unsaved \cup {tf}) =
             IF tf \in Unsaved THEN Cardinality(Unsaved) ELSE Cardinality(Unsaved) + 1
    BY <1>1, FS_AddElement
  <2>2. IsFiniteSet(S) /\ Cardinality(S) <= Cardinality(Unsaved \cup {tf})
    BY <2>1, FS_Subset
  <2>3. Cardinality(S) \in Nat
    BY <2>2, FS_CardinalityType
  <2> QED
    BY <1>1, <2>1, <2>2, <2>3
<1> QED
  BY <1>1, <1>2, <1>3, <1>4

LEMMA BarsAreInts ==
  ASSUME BarsTyped, NEW tf \in TFs
  PROVE  /\ feed[tf] \in Int /\ seen[tf] \in Int /\ kept[tf] \in Int
         /\ counts.done[tf] \in Int /\ counts.lost[tf] \in Int /\ loop.bar \in Int
         /\ counts.again \in Int /\ counts.excused \in Int
BY DEF BarsTyped, Counts, Marks, Loops

LEMMA PollNewKeeps ==
  ASSUME BarsHeld, PollNew
  PROVE  BarsHeld'
<1>1. /\ BarsTyped' /\ BarsTyped
      /\ UNCHANGED <<now, feed>> /\ ~Evaluating /\ TF \in TFs
      /\ Evaluating' /\ loop'.bar = feed[TF] /\ TF' = TF
      /\ seen' = [seen EXCEPT ![TF] = feed[TF]] /\ feed[TF] # seen[TF]
      /\ counts'.asOf = clock'
      /\ counts'.done = counts.done /\ counts'.lost = counts.lost
      /\ counts'.again = counts.again
      /\ \/ kept' = seen' /\ counts'.excused = counts.excused
         \/ kept' = kept /\ counts'.excused = counts.excused + 1
  <2>1. feed[TF] # None
    BY PollNewSteps, BarsAreInts DEF BarsHeld, InOrder, None
  <2> QED
    BY <2>1, PollNewSteps DEF BarsHeld, Evaluating
<1>2. seen'[TF] = feed[TF] /\ \A tf \in TFs : tf # TF => seen'[tf] = seen[tf]
  BY <1>1 DEF BarsTyped, Marks
<1>3. \A tf \in TFs : /\ 0 <= feed[tf] /\ feed[tf] <= Period[tf] * (now \div Period[tf])
                      /\ seen[tf] <= feed[tf] /\ kept[tf] <= feed[tf]
                      /\ counts.done[tf] <= feed[tf] /\ counts.lost[tf] <= feed[tf]
  BY DEF BarsHeld, InOrder
<1>4. InOrder'
  <2> SUFFICES ASSUME NEW tf \in TFs
               PROVE  /\ seen'[tf] <= feed[tf] /\ kept'[tf] <= feed[tf]
                      /\ TF = tf => feed[TF] = seen'[tf]
    BY <1>1, <1>3 DEF InOrder
  <2>1. seen'[tf] <= feed[tf]
    BY <1>1, <1>2, <1>3, BarsAreInts
  <2>2. kept'[tf] = seen'[tf] \/ kept'[tf] = kept[tf]
    BY <1>1
  <2> QED
    BY <1>2, <1>3, <2>1, <2>2
<1>5. MarksJudged'
  <2> SUFFICES ASSUME NEW tf \in TFs
               PROVE  Judged(tf, seen[tf])' /\ Judged(tf, kept[tf])'
    BY DEF MarksJudged
  <2>1. Judged(tf, seen[tf]) /\ Judged(tf, kept[tf])
    BY DEF BarsHeld, MarksJudged
  <2>2. Judged(tf, seen[tf])'
    BY <1>1, <1>2, <2>1 DEF Judged
  <2>3. kept'[tf] = seen'[tf] \/ kept'[tf] = kept[tf]
    BY <1>1
  <2> QED
    BY <1>1, <2>1, <2>2, <2>3 DEF Judged
<1>6. Repeating' => TF \in Unsaved
  <2> SUFFICES ASSUME Repeating' PROVE seen[TF] < counts.done[TF]
    BY <1>1 DEF Unsaved
  <2>1. feed[TF] = counts.done[TF]
    BY <1>1 DEF Repeating
  <2>2. seen[TF] \in Int /\ feed[TF] \in Int
    BY <1>1, BarsAreInts
  <2> QED
    BY <1>1, <1>3, <2>1, <2>2
<1>7. CASE kept' = seen' /\ counts'.excused = counts.excused
  <2>1. Unsaved' \in SUBSET (Unsaved \ {TF})
    <3> SUFFICES ASSUME NEW tf \in Unsaved' PROVE tf \in Unsaved /\ tf # TF
      OBVIOUS
    <3>1. /\ tf \in TFs
          /\ \/ seen'[tf] < counts.done[tf]
             \/ TF = tf /\ seen'[tf] < feed[TF]
      BY <1>1, <1>7 DEF Unsaved
    <3> QED
      BY <1>1, <1>2, <1>3, <3>1, BarsAreInts DEF Unsaved
  <2>2. Unsaved' \in SUBSET Unsaved
    BY <2>1
  <2> QED
    BY <1>1, <1>4, <1>5, <1>6, <1>7, <2>1, <2>2, UnsavedCounts, BarsAreInts DEF BarsHeld, CausesLast
<1>8. CASE kept' = kept /\ counts'.excused = counts.excused + 1
  <2>1. Unsaved' \in SUBSET (Unsaved \cup {TF})
    <3> SUFFICES ASSUME NEW tf \in Unsaved', tf # TF PROVE tf \in Unsaved
      OBVIOUS
    <3>1. /\ tf \in TFs
          /\ seen'[tf] < counts.done[tf] \/ kept[tf] < counts.done[tf]
      BY <1>1, <1>8 DEF Unsaved
    <3> QED
      BY <1>2, <3>1 DEF Unsaved
  <2>2. Repeating' => Unsaved' \in SUBSET Unsaved
    BY <1>6, <2>1
  <2>3. /\ Cardinality(Unsaved') \in Nat /\ Cardinality(Unsaved) \in Nat
        /\ Cardinality(Unsaved') <= Cardinality(Unsaved) + 1
        /\ Repeating' => Cardinality(Unsaved') <= Cardinality(Unsaved)
    BY <2>1, <2>2, UnsavedCounts
  <2>4. /\ counts.again + Cardinality(Unsaved) <= counts.excused
        /\ counts.again \in Int /\ counts.excused \in Int
    BY <1>1, BarsAreInts, UnsavedCounts DEF BarsHeld, CausesLast, Repeating
  <2>5. CausesLast'
    BY <1>1, <1>8, <2>3, <2>4 DEF CausesLast
  <2> QED
    BY <1>1, <1>4, <1>5, <2>5 DEF BarsHeld
<1> QED
  BY <1>1, <1>7, <1>8

LEMMA EvaluateKeeps ==
  ASSUME BarsHeld, Evaluate
  PROVE  BarsHeld'
<1>1. /\ BarsTyped' /\ BarsTyped /\ TF \in TFs /\ Evaluating /\ ~Evaluating'
      /\ UNCHANGED <<now, feed, seen, clock, kept>>
      /\ counts'.done = [counts.done EXCEPT ![TF] = loop.bar] /\ counts'.lost = counts.lost
      /\ counts'.again = counts.again + (IF loop.bar = counts.done[TF] THEN 1 ELSE 0)
      /\ counts'.excused = counts.excused /\ counts'.asOf = clock'
  BY EvaluateSteps DEF BarsHeld, Evaluating
<1>2. /\ counts'.done[TF] = loop.bar
      /\ \A tf \in TFs : tf # TF => counts'.done[tf] = counts.done[tf]
  BY <1>1 DEF BarsTyped, Counts, Marks
<1>3. /\ loop.bar = seen[TF] /\ loop.bar <= feed[TF]
      /\ counts.done[TF] <= loop.bar /\ counts.lost[TF] <= loop.bar
  BY <1>1 DEF BarsHeld, InOrder
<1>4. \A tf \in TFs : counts.done[tf] <= counts'.done[tf]
  BY <1>1, <1>2, <1>3, BarsAreInts
<1>5. InOrder'
  <2> SUFFICES ASSUME NEW tf \in TFs PROVE counts'.done[tf] <= feed[tf]
    BY <1>1 DEF BarsHeld, InOrder
  <2> QED
    BY <1>1, <1>2, <1>3 DEF BarsHeld, InOrder
<1>6. MarksJudged'
  <2>1. ASSUME NEW tf \in TFs, NEW bar \in Int, Judged(tf, bar)
        PROVE  bar # None => bar <= counts'.done[tf] \/ bar <= counts'.lost[tf]
    <3>1. counts'.done[tf] \in Int /\ counts.done[tf] \in Int
      BY <1>1 DEF BarsTyped, Counts, Marks
    <3> QED
      BY <1>1, <1>2, <1>4, <2>1, <3>1 DEF Judged
  <2>2. \A tf \in TFs : Judged(tf, seen[tf]) /\ Judged(tf, kept[tf])
    BY DEF BarsHeld, MarksJudged
  <2> QED
    BY <1>1, <2>1, <2>2, BarsAreInts DEF MarksJudged, Judged
<1>7. Unsaved' \in SUBSET Unsaved /\ ~Repeating'
  <2>1. ASSUME NEW tf \in Unsaved' PROVE tf \in Unsaved
    <3>1. tf \in TFs /\ (seen[tf] < counts'.done[tf] \/ kept[tf] < counts'.done[tf])
      BY <1>1 DEF Unsaved
    <3>2. CASE tf = TF
      BY <1>1, <1>2, <1>3, <3>1, <3>2, BarsAreInts DEF Unsaved
    <3>3. CASE tf # TF
      BY <1>1, <1>2, <3>1, <3>3 DEF Unsaved
    <3> QED
      BY <3>2, <3>3
  <2> QED
    BY <1>1, <2>1 DEF Repeating
<1>8. CausesLast'
  <2>1. Cardinality(Unsaved') \in Nat /\ Cardinality(Unsaved') <= Cardinality(Unsaved)
    BY <1>7, UnsavedCounts
  <2>2. Repeating <=> loop.bar = counts.done[TF]
    BY <1>1 DEF Repeating
  <2> QED
    BY <1>1, <1>7, <2>1, <2>2, UnsavedCounts, BarsAreInts DEF BarsHeld, CausesLast
<1> QED
  BY <1>1, <1>5, <1>6, <1>8 DEF BarsHeld

LEMMA RaiseKeeps ==
  ASSUME BarsHeld, EvaluateRaises
  PROVE  BarsHeld'
<1>1. /\ BarsTyped' /\ BarsTyped /\ TF \in TFs /\ Evaluating /\ ~Evaluating'
      /\ UNCHANGED <<now, feed, seen, clock, kept>>
      /\ counts'.lost = [counts.lost EXCEPT ![TF] = loop.bar] /\ counts'.done = counts.done
      /\ counts'.again = counts.again
      /\ counts'.excused = counts.excused /\ counts'.asOf = clock'
  BY RaiseSteps DEF BarsHeld, Evaluating
<1>2. /\ counts'.lost[TF] = loop.bar
      /\ \A tf \in TFs : tf # TF => counts'.lost[tf] = counts.lost[tf]
  BY <1>1 DEF BarsTyped, Counts, Marks
<1>3. loop.bar = seen[TF] /\ loop.bar <= feed[TF] /\ counts.lost[TF] <= loop.bar
  BY <1>1 DEF BarsHeld, InOrder
<1>4. \A tf \in TFs : counts.lost[tf] <= counts'.lost[tf]
  BY <1>1, <1>2, <1>3, BarsAreInts
<1>5. InOrder'
  <2> SUFFICES ASSUME NEW tf \in TFs PROVE counts'.lost[tf] <= feed[tf]
    BY <1>1 DEF BarsHeld, InOrder
  <2> QED
    BY <1>1, <1>2, <1>3 DEF BarsHeld, InOrder
<1>6. MarksJudged'
  <2>1. ASSUME NEW tf \in TFs, NEW bar \in Int, Judged(tf, bar)
        PROVE  bar # None => bar <= counts'.done[tf] \/ bar <= counts'.lost[tf]
    <3>1. counts'.lost[tf] \in Int /\ counts.lost[tf] \in Int
      BY <1>1 DEF BarsTyped, Counts, Marks
    <3> QED
      BY <1>1, <1>2, <1>4, <2>1, <3>1 DEF Judged
  <2>2. \A tf \in TFs : Judged(tf, seen[tf]) /\ Judged(tf, kept[tf])
    BY DEF BarsHeld, MarksJudged
  <2> QED
    BY <1>1, <2>1, <2>2, BarsAreInts DEF MarksJudged, Judged
<1>7. Unsaved' \in SUBSET Unsaved /\ ~Repeating'
  BY <1>1 DEF Unsaved, Repeating
<1>8. CausesLast'
  <2>1. /\ Cardinality(Unsaved') \in Nat /\ Cardinality(Unsaved') <= Cardinality(Unsaved)
        /\ Cardinality(Unsaved) \in Nat
    BY <1>7, UnsavedCounts
  <2>2. /\ counts.again + Cardinality(Unsaved) <= counts.excused
        /\ counts.again \in Int /\ counts.excused \in Int
    BY <1>1, BarsAreInts, UnsavedCounts DEF BarsHeld, CausesLast, Repeating
  <2> QED
    BY <1>1, <1>7, <2>1, <2>2 DEF CausesLast
<1> QED
  BY <1>1, <1>5, <1>6, <1>8 DEF BarsHeld

LEMMA SaveKeeps ==
  ASSUME BarsHeld, MonitorSaves
  PROVE  BarsHeld'
<1>1. /\ BarsTyped /\ kept' = seen
      /\ UNCHANGED <<now, feed, seen, clock, warned, loop, counts>>
      /\ Evaluating' = Evaluating /\ TF' = TF
  BY DEF MonitorSaves, BarsHeld, Evaluating, TF
<1>2. BarsTyped'
  BY <1>1 DEF BarsTyped
<1>3. InOrder'
  BY <1>1 DEF BarsHeld, InOrder
<1>4. MarksJudged'
  BY <1>1 DEF BarsHeld, MarksJudged, Judged
<1>5. Unsaved' \in SUBSET Unsaved
  <2> SUFFICES ASSUME NEW tf \in Unsaved' PROVE tf \in Unsaved
    OBVIOUS
  <2>1. /\ tf \in TFs
        /\ seen[tf] < counts.done[tf] \/ (Evaluating /\ TF = tf /\ seen[tf] < loop.bar)
    BY <1>1 DEF Unsaved
  <2>2. Evaluating /\ TF = tf => loop.bar = seen[tf]
    BY <2>1 DEF BarsHeld, InOrder
  <2>3. seen[tf] \in Int
    BY <1>1, <2>1, BarsAreInts
  <2> QED
    BY <2>1, <2>2, <2>3 DEF Unsaved
<1>6. CausesLast'
  <2>1. /\ Cardinality(Unsaved') \in Nat /\ Cardinality(Unsaved') <= Cardinality(Unsaved)
        /\ Cardinality(Unsaved) \in Nat
    BY <1>5, UnsavedCounts
  <2>2. Repeating' = Repeating
    BY <1>1 DEF Repeating
  <2>3. counts.again \in Int /\ counts.excused \in Int
    BY <1>1 DEF BarsTyped, Counts
  <2> QED
    BY <1>1, <2>1, <2>2, <2>3 DEF BarsHeld, CausesLast
<1> QED
  BY <1>1, <1>2, <1>3, <1>4, <1>6 DEF BarsHeld

LEMMA RestartKeeps ==
  ASSUME BarsHeld, LoopRestart
  PROVE  BarsHeld'
<1>1. /\ BarsTyped' /\ BarsTyped /\ ~Evaluating'
      /\ UNCHANGED <<now, feed, kept>>
      /\ seen' = RestoreBars(kept) /\ counts'.asOf = clock'
      /\ IF Evaluating THEN TF \in TFs /\ counts'.lost = [counts.lost EXCEPT ![TF] = loop.bar]
         ELSE counts'.lost = counts.lost
      /\ counts'.done = counts.done /\ counts'.again = counts.again
      /\ counts'.excused = counts.excused + Cardinality(Forgotten)
  BY RestartSteps DEF BarsHeld, Evaluating
<1>2. \A tf \in TFs : seen'[tf] = IF kept[tf] >= now - MaxAge THEN kept[tf] ELSE None
  BY <1>1 DEF RestoreBars
<1>3. ASSUME NEW tf \in TFs
      PROVE  /\ counts'.lost[tf] =
                  IF Evaluating /\ TF = tf THEN loop.bar ELSE counts.lost[tf]
             /\ counts.lost[tf] <= counts'.lost[tf] /\ counts'.lost[tf] <= feed[tf]
  <2>1. counts.lost[tf] \in Int /\ counts.lost[tf] <= feed[tf] /\ seen[tf] <= feed[tf]
    BY <1>1, BarsAreInts DEF BarsHeld, InOrder
  <2>2. Evaluating /\ TF = tf => loop.bar = seen[tf] /\ counts.lost[tf] <= loop.bar
    BY DEF BarsHeld, InOrder
  <2>3. counts'.lost[tf] = IF Evaluating /\ TF = tf THEN loop.bar ELSE counts.lost[tf]
    BY <1>1 DEF BarsTyped, Counts, Marks
  <2> QED
    BY <2>1, <2>2, <2>3
<1>4. InOrder'
  <2> SUFFICES ASSUME NEW tf \in TFs PROVE seen'[tf] <= feed[tf] /\ counts'.lost[tf] <= feed[tf]
    BY <1>1 DEF BarsHeld, InOrder
  <2>1. 0 <= feed[tf] /\ kept[tf] <= feed[tf] /\ feed[tf] \in Int
    BY <1>1, BarsAreInts DEF BarsHeld, InOrder
  <2> QED
    BY <1>2, <1>3, <2>1 DEF None
<1>5. MarksJudged'
  <2> SUFFICES ASSUME NEW tf \in TFs, kept[tf] # None
               PROVE  kept[tf] <= counts'.done[tf] \/ kept[tf] <= counts'.lost[tf]
    BY <1>1, <1>2 DEF MarksJudged, Judged
  <2>1. Judged(tf, kept[tf])
    BY DEF BarsHeld, MarksJudged
  <2>2. kept[tf] \in Int /\ counts.lost[tf] \in Int /\ counts'.lost[tf] \in Int
    BY <1>1, BarsAreInts DEF BarsTyped, Counts, Marks
  <2> QED
    BY <1>1, <1>3, <2>1, <2>2 DEF Judged
<1>6. Unsaved' \in SUBSET (Unsaved \cup Forgotten)
  <2> SUFFICES ASSUME NEW tf \in Unsaved', tf \notin Unsaved PROVE tf \in Forgotten
    OBVIOUS
  <2>1. tf \in TFs /\ seen'[tf] < counts.done[tf] /\ ~(kept[tf] < counts.done[tf])
    BY <1>1 DEF Unsaved
  <2>2. seen'[tf] = None /\ kept[tf] # None /\ ~(kept[tf] >= now - MaxAge)
    BY <1>2, <2>1
  <2>3. kept[tf] \in Int /\ now \in Int /\ MaxAge \in Nat
    BY <1>1, <2>1, BarsAreInts, BarsAssumption DEF BarsTyped
  <2> QED
    BY <2>1, <2>2, <2>3 DEF Forgotten
<1>7. CausesLast'
  <2>1. IsFiniteSet(Forgotten) /\ Cardinality(Forgotten) \in Nat
    BY CardinalityOfTFs DEF Forgotten
  <2>2. IsFiniteSet(Unsaved) /\ Cardinality(Unsaved) \in Nat
    BY UnsavedCounts
  <2>3. /\ IsFiniteSet(Unsaved \cup Forgotten)
        /\ Cardinality(Unsaved \cup Forgotten) =
             Cardinality(Unsaved) + Cardinality(Forgotten) - Cardinality(Unsaved \cap Forgotten)
    BY <2>1, <2>2, FS_Union
  <2>4. Cardinality(Unsaved \cap Forgotten) \in Nat
    BY CardinalityOfTFs DEF Unsaved
  <2>5. /\ Cardinality(Unsaved') <= Cardinality(Unsaved \cup Forgotten)
        /\ Cardinality(Unsaved') \in Nat
    BY <1>6, <2>3, FS_Subset, FS_CardinalityType
  <2>6. /\ counts.again + Cardinality(Unsaved) <= counts.excused
        /\ counts.again \in Int /\ counts.excused \in Int
    <3>1. counts.again \in Int /\ counts.excused \in Int
      BY <1>1 DEF BarsTyped, Counts
    <3> QED
      BY <2>2, <3>1 DEF BarsHeld, CausesLast
  <2>7. ~Repeating'
    BY <1>1 DEF Repeating
  <2> QED
    BY <1>1, <2>1, <2>2, <2>3, <2>4, <2>5, <2>6, <2>7 DEF CausesLast
<1> QED
  BY <1>1, <1>4, <1>5, <1>7 DEF BarsHeld

-----------------------------------------------------------------------------
LEMMA BarsNextKeeps == BarsHeld /\ [BarsNext]_barVars => BarsHeld'
<1> SUFFICES ASSUME BarsHeld, [BarsNext]_barVars PROVE BarsHeld'
  OBVIOUS
<1>1. CASE UNCHANGED barVars
  <2>1. UNCHANGED <<now, feed, seen, clock, warned, kept, loop, counts>>
    BY <1>1 DEF barVars
  <2>2. BarsTyped' /\ SameCounts
    BY <2>1 DEF BarsHeld, BarsTyped, SameCounts
  <2> QED
    BY <2>1, <2>2, FeedStands, IdleKeeps DEF BarsHeld
<1> QED
  BY <1>1, TimeKeeps, PollKeeps, PollNewKeeps, EvaluateKeeps, RaiseKeeps, SaveKeeps, RestartKeeps
  DEF BarsNext

LEMMA BarsStayHeld == BarsSpec => []BarsHeld
BY BarsInitHolds, BarsNextKeeps, PTL DEF BarsSpec

(* A bar whose mark is in memory was evaluated, is being evaluated, or its *)
(* evaluation was struck by an exception or a death (_iteration).          *)
THEOREM EveryMarkEvaluated == BarsSpec => []MarkedBarsEvaluated
<1>1. BarsHeld => MarkedBarsEvaluated
  BY DEF BarsHeld, MarksJudged, Judged, MarkedBarsEvaluated
<1> QED
  BY <1>1, BarsStayHeld, PTL

(* A close is evaluated again only where the save of its mark failed or a  *)
(* restart found its mark too old (_process_bar, _restore_state).          *)
THEOREM EveryBarOnce == BarsSpec => []BarsOnce
<1>1. BarsHeld => BarsOnce
  <2> SUFFICES ASSUME BarsHeld PROVE BarsOnce
    OBVIOUS
  <2>1. counts.again \in Int /\ counts.excused \in Int
    BY DEF BarsHeld, BarsTyped, Counts
  <2> QED
    BY <2>1, UnsavedCounts DEF BarsHeld, CausesLast, BarsOnce
<1> QED
  BY <1>1, BarsStayHeld, PTL

(* A poll of a feed that stalled for longer than the period and the grace  *)
(* leaves a warning no older than a period (_maybe_warn_close_overdue).    *)
THEOREM EveryStallNoticed == BarsSpec => StallNoticed
<1> DEFINE Noticed ==
      \A tf \in TFs :
        (/\ Polling /\ TF = tf /\ loop' # loop /\ counts'.asOf[tf] # None
         /\ now \notin Closed /\ counts.asOf[tf] # None
         /\ now - counts.asOf[tf] > Period[tf] + Grace)
          => warned'[tf] # None /\ now - warned'[tf] < Period[tf]
<1>1. BarsHeld /\ [BarsNext]_barVars => [Noticed]_barVars
  <2> SUFFICES ASSUME BarsHeld, BarsNext, NEW tf \in TFs,
                      Polling, TF = tf, loop' # loop, counts'.asOf[tf] # None,
                      now \notin Closed, counts.asOf[tf] # None,
                      now - counts.asOf[tf] > Period[tf] + Grace
               PROVE  warned'[tf] # None /\ now - warned'[tf] < Period[tf]
    OBVIOUS
  <2>1. loop.todo # <<>> /\ loop.bar = None
    BY DEF Polling
  <2>2. ~LoopRestart
    BY RestartSteps, NothingTyped DEF BarsHeld
  <2>3. Warn
    BY <2>1, <2>2 DEF BarsNext, Tick, Delivers, Iteration, PollOld, PollRaises, PollNew,
       Evaluate, EvaluateRaises, Evaluating, MonitorSaves
  <2>4. warned \in Marks /\ now \in Nat /\ Period[tf] \in Nat \ {0} /\ clock = counts.asOf
    BY TimeframesTyped DEF BarsHeld, BarsTyped
  <2>5. warned[tf] \in Int
    BY <2>4 DEF Marks
  <2>6. CASE Overdue
    <3>1. warned'[tf] = now
      BY <2>3, <2>4, <2>6 DEF Warn, Marks
    <3> QED
      BY <2>4, <3>1 DEF None
  <2>7. CASE ~Overdue
    <3>1. warned' = warned
      BY <2>3, <2>7 DEF Warn
    <3>2. warned[tf] # None /\ ~(now - warned[tf] >= Period[tf])
      BY <2>4, <2>7 DEF Overdue
    <3> QED
      BY <2>4, <2>5, <3>1, <3>2
  <2> QED
    BY <2>6, <2>7
<1>2. StallNoticed <=> [][Noticed]_barVars
  BY DEF StallNoticed
<1> HIDE DEF Noticed
<1> QED
  BY <1>1, <1>2, BarsStayHeld, PTL DEF BarsSpec

-----------------------------------------------------------------------------
(* The stops of a ticket.                                                  *)
Tallies == [taken: Nat, lost: Nat, lapses: Nat]

(* The position at the broker has its three fields, whatever they hold.    *)
BrokerRecord ==
  broker = [open |-> broker.open, stop |-> broker.stop, volume |-> broker.volume]

(* A ticket that is open and not marked has had no partial exit but those  *)
(* whose flag was lost.                                                    *)
UnmarkedLost ==
  /\ tally.taken <= 1 + tally.lost
  /\ broker.open /\ ~partial => tally.taken <= tally.lost

IInv == tally \in Tallies /\ BrokerRecord /\ UnmarkedLost

LEMMA InitHolds == StopsInit => IInv
BY DEF StopsInit, IInv, Tallies, BrokerRecord, UnmarkedLost

-----------------------------------------------------------------------------
(* What most steps do: a ticket does not open again, its mark stays while  *)
(* it is open, and no partial exit is taken.                               *)
Quiet ==
  /\ BrokerRecord'
  /\ broker'.open => broker.open
  /\ partial' = partial \/ ~broker'.open
  /\ tally' = tally \/ tally' = [tally EXCEPT !.lapses = @ + 1]

LEMMA QuietKeeps ==
  ASSUME IInv, Quiet
  PROVE  IInv'
<1>1. /\ tally' \in Tallies
      /\ tally'.taken = tally.taken /\ tally'.lost = tally.lost
  BY DEF IInv, Quiet, Tallies
<1>2. broker'.open /\ ~partial' => broker.open /\ ~partial
  BY DEF Quiet
<1> QED
  BY <1>1, <1>2 DEF IInv, Quiet, UnmarkedLost

(* Or the mark is lost, and counted as lost.                               *)
LEMMA LossKeeps ==
  ASSUME IInv, UNCHANGED broker,
         tally' = [tally EXCEPT !.lapses = @ + 1, !.lost = @ + 1]
  PROVE  IInv'
<1>1. /\ tally' \in Tallies
      /\ tally'.taken = tally.taken /\ tally'.lost = tally.lost + 1
  <2>1. /\ tally \in Tallies
        /\ tally' = [tally EXCEPT !.lapses = @ + 1, !.lost = @ + 1]
    BY DEF IInv
  <2>2. tally.lapses + 1 \in Nat /\ tally.lost + 1 \in Nat
    BY <2>1 DEF Tallies
  <2> QED
    BY <2>1, <2>2 DEF Tallies
<1>2. BrokerRecord'
  <2>1. broker' = broker /\ BrokerRecord
    BY DEF IInv
  <2> QED
    BY <2>1 DEF BrokerRecord
<1>3. tally'.taken <= tally'.lost
  BY <1>1 DEF IInv, Tallies, UnmarkedLost
<1> QED
  BY <1>1, <1>2, <1>3 DEF IInv, Tallies, UnmarkedLost

LEMMA ModifiedRecord ==
  ASSUME BrokerRecord, NEW stop, Modified(stop)
  PROVE  BrokerRecord' /\ (broker'.open => broker.open)
<1>1. broker' = [broker EXCEPT !.stop = stop]
  BY DEF Modified
<1> QED
  BY <1>1 DEF BrokerRecord, Modified

LEMMA RefusedRecord ==
  ASSUME BrokerRecord, NEW stop, Refused(stop)
  PROVE  /\ BrokerRecord' /\ broker' = broker
         /\ tally' = tally \/ tally' = [tally EXCEPT !.lapses = @ + 1]
BY DEF BrokerRecord, Refused

-----------------------------------------------------------------------------
LEMMA NextKeeps == IInv /\ [StopsNext]_stopVars => IInv'
<1> SUFFICES ASSUME IInv, [StopsNext]_stopVars PROVE IInv'
  OBVIOUS
<1>1. BrokerRecord
  BY DEF IInv
<1>2. ASSUME UNCHANGED <<broker, partial, tally>> PROVE Quiet
  BY <1>1, <1>2 DEF Quiet, BrokerRecord
<1>3. CASE PriceMoves
  <2>1. PICK p : broker' = [broker EXCEPT !.open = @ /\ ~(StopsFill /\ p <= broker.stop)]
    BY <1>3 DEF PriceMoves
  <2>2. BrokerRecord' /\ (broker'.open => broker.open)
    BY <1>1, <2>1 DEF BrokerRecord
  <2> QED
    BY <1>3, <2>2, QuietKeeps DEF PriceMoves, Quiet
<1>4. CASE TargetFills \/ SoftCloses
  <2>1. broker' = [broker EXCEPT !.open = FALSE] /\ UNCHANGED <<partial, tally>>
    BY <1>4 DEF TargetFills, SoftCloses
  <2>2. BrokerRecord' /\ ~broker'.open
    BY <1>1, <2>1 DEF BrokerRecord
  <2> QED
    BY <2>1, <2>2, QuietKeeps DEF Quiet
<1>5. CASE BarCloses \/ LoopSaves \/ ReadOpen \/ SoftHolds \/ BreakevenNotDue
  BY <1>2, <1>5, QuietKeeps DEF BarCloses, LoopSaves, ReadOpen, SoftHolds, BreakevenNotDue
<1>6. CASE ReadClosed
  BY <1>1, <1>6, QuietKeeps DEF ReadClosed, Quiet, BrokerRecord
<1>7. CASE ReadBlank \/ MonitorRestart \/ RestartBlank
  BY <1>7, LossKeeps DEF ReadBlank, MonitorRestart, RestartBlank
<1>8. CASE SoftRefused \/ PartialSkipped
  <2>1. /\ UNCHANGED <<broker, partial>>
        /\ tally' = tally \/ tally' = [tally EXCEPT !.lapses = @ + 1]
    BY <1>8 DEF SoftRefused, PartialSkipped
  <2> QED
    BY <1>1, <2>1, QuietKeeps DEF Quiet, BrokerRecord
<1>9. CASE PartialFills
  <2>1. /\ broker.open /\ ~partial
        /\ tally' = [tally EXCEPT !.taken = @ + 1]
        /\ partial'
    BY <1>9 DEF PartialFills, PartialDue, PartialMarked
  <2>2. BrokerRecord'
    BY <1>1, <1>9 DEF PartialFills, BrokerRecord
  <2> QED
    BY <2>1, <2>2 DEF IInv, Tallies, UnmarkedLost
<1>10. CASE PartialBreakeven
  <2>1. UNCHANGED partial
    BY <1>10 DEF PartialBreakeven
  <2>2. CASE Modified(Entry) /\ UNCHANGED tally
    BY <1>1, <2>1, <2>2, ModifiedRecord, QuietKeeps DEF Quiet
  <2>3. CASE Refused(Entry)
    BY <1>1, <2>1, <2>3, RefusedRecord, QuietKeeps DEF Quiet
  <2>4. CASE UNCHANGED <<broker, tally>>
    BY <1>2, <2>1, <2>4, QuietKeeps
  <2> QED
    BY <1>10, <2>2, <2>3, <2>4 DEF PartialBreakeven
<1>11. CASE BreakevenMoves
  BY <1>1, <1>11, ModifiedRecord, QuietKeeps DEF BreakevenMoves, Quiet
<1>12. CASE BreakevenRefused
  BY <1>1, <1>12, RefusedRecord, QuietKeeps DEF BreakevenRefused, Quiet
<1>13. CASE Trail
  <2>1. UNCHANGED partial
    BY <1>13 DEF Trail
  <2>2. CASE Modified(pos.price - TrailGap) /\ UNCHANGED tally
    BY <1>1, <2>1, <2>2, ModifiedRecord, QuietKeeps DEF Quiet
  <2>3. CASE Refused(pos.price - TrailGap)
    BY <1>1, <2>1, <2>3, RefusedRecord, QuietKeeps DEF Quiet
  <2> QED
    BY <1>13, <2>2, <2>3 DEF Trail
<1>14. CASE UNCHANGED stopVars
  BY <1>2, <1>14, QuietKeeps DEF stopVars
<1> QED
  BY <1>3, <1>4, <1>5, <1>6, <1>7, <1>8, <1>9, <1>10, <1>11, <1>12, <1>13, <1>14 DEF StopsNext

(* The partial exit of a ticket is taken once, and once more at most for   *)
(* every restart or phantom close that lost its flag: no refusal, breakeven*)
(* move or stale snapshot takes it again (_partial_applied).               *)
THEOREM PartialsAlwaysBounded == StopsSpec => []PartialsBounded
<1>1. IInv => PartialsBounded
  BY DEF IInv, UnmarkedLost, PartialsBounded
<1> QED
  BY <1>1, InitHolds, NextKeeps, PTL DEF StopsSpec

-----------------------------------------------------------------------------
(* Distances: what floors, products and the larger of two do.              *)
LEMMA MaxOfTwo ==
  ASSUME NEW a \in Int, NEW b \in Int
  PROVE  Max({a, b}) = IF a >= b THEN a ELSE b
BY DEF Max

LEMMA ProductMonotone ==
  ASSUME NEW a \in Nat, NEW b \in Nat, NEW c \in Nat, a <= b
  PROVE  a * c <= b * c
OBVIOUS

(* A quotient is bounded by what its product is bounded by.                *)
LEMMA QuotientAbove ==
  ASSUME NEW a \in Nat, NEW d \in Nat \ {0}, NEW q \in Nat, d * q <= a
  PROVE  a \div d \in Nat /\ a \div d >= q
<1> DEFINE r == a \div d
<1>1. r \in Nat /\ a < (r + 1) * d
  OBVIOUS
<1>2. CASE r + 1 <= q
  <2>1. (r + 1) * d <= q * d
    BY <1>1, <1>2, ProductMonotone
  <2>2. q * d = d * q
    OBVIOUS
  <2> QED
    BY <1>1, <2>1, <2>2
<1> QED
  BY <1>1, <1>2

LEMMA QuotientBelow ==
  ASSUME NEW x \in Nat, NEW d \in Nat, d >= 2
  PROVE  (2 * x) \div d \in 0..x
<1> DEFINE r == (2 * x) \div d
<1>1. r \in Nat /\ r * d <= 2 * x
  OBVIOUS
<1>2. 2 * r <= d * r /\ d * r = r * d
  BY <1>1, ProductMonotone
<1> QED
  BY <1>1, <1>2

LEMMA QuotientMonotone ==
  ASSUME NEW a \in Nat, NEW b \in Nat, a <= b, NEW d \in Nat \ {0}
  PROVE  a \div d <= b \div d
<1> DEFINE q == a \div d
<1>1. q \in Nat /\ d * q <= a
  OBVIOUS
<1>2. d * q <= b
  BY <1>1
<1> QED
  BY <1>1, <1>2, QuotientAbove

LEMMA QuotientExact ==
  ASSUME NEW q \in Nat, NEW d \in Nat \ {0}
  PROVE  (d * q) \div d = q
<1> DEFINE r == (d * q) \div d
<1>1. r \in Nat /\ r * d <= d * q /\ r >= q
  BY QuotientAbove, d * q \in Nat
<1>2. CASE r >= q + 1
  <2>1. (q + 1) * d <= r * d
    BY <1>1, <1>2, ProductMonotone
  <2> QED
    BY <1>1, <2>1
<1> QED
  BY <1>1, <1>2

-----------------------------------------------------------------------------
(* Where stops are.  The broker's stop is the catastrophe stop or, once it *)
(* was moved, at the entry or better.                                      *)
Contexts == [known: BOOLEAN, soft: Int, inferred: BOOLEAN, overshoot: BOOLEAN]

StopsTyped ==
  /\ market \in [price: Int, bar: Int] /\ pos.price \in Int
  /\ broker.stop \in Int /\ pos.stop \in Int
  /\ {ctx, recent, disk.ctx, disk.recent} \subseteq Contexts
  /\ be \in BOOLEAN /\ disk.be \in BOOLEAN

Placed(stop) == stop = CatastropheStop \/ stop >= Entry

(* The soft stop of a context, in memory or in the sidecar, is the         *)
(* original one or what an adoption infers from the catastrophe stop as    *)
(* long as the broker's stop is there, and no further from the entry than  *)
(* the broker's stop after that.                                           *)
Fits(c, stop) ==
  c.known => IF stop < Entry THEN c.soft \in Entry - ArmedDist..Entry - SoftDist
             ELSE Dist(c.soft) <= stop

AllFit == \A c \in {ctx, recent, disk.ctx, disk.recent} : Fits(c, broker.stop)

(* A marked ticket keeps a context, or the record of one, at the entry or  *)
(* better: it is never adopted anew.                                       *)
MarkHeld(mark, c, r) ==
  mark => broker.stop >= Entry /\ IF c.known THEN c.soft >= Entry ELSE r.known /\ r.soft >= Entry

MarksHeld == MarkHeld(be, ctx, recent) /\ MarkHeld(disk.be, disk.ctx, disk.recent)

(* Within a cycle the snapshot shows the broker's stop until the cycle     *)
(* moves it, and a trailing stop that is due is no step back.              *)
InCycle ==
  pc # "read" =>
    /\ ~recent.known
    /\ Placed(pos.stop)
    /\ ~ctx.known => pos.stop >= Entry
    /\ pc \in {"soft", "partial", "partial_be"} => broker.stop = pos.stop
    /\ pc = "be" => \/ broker.stop = pos.stop
                    \/ be /\ pos.stop < Entry /\ broker.stop = Entry /\ ctx.soft = Entry
    /\ pc = "trail" => be /\ pos.price - TrailGap >= broker.stop

StopsHeld == StopsTyped /\ Placed(broker.stop) /\ AllFit /\ MarksHeld /\ InCycle

LEMMA Catastrophe ==
  /\ CatastropheStop \in Int /\ CatastropheStop < Entry
  /\ Dist(CatastropheStop) \in Nat /\ Dist(CatastropheStop) >= MinInfer
  /\ ArmedDist \in Nat /\ ArmedDist >= SoftDist
  /\ (2 * Dist(CatastropheStop)) \div TwiceCata \in SoftDist..ArmedDist
<1> DEFINE T == TwiceCata
           half == (T * SoftDist) \div 2
           D == Max({half, MinCata})
<1>1. /\ T \in Nat \ {0} /\ T >= 2 /\ SoftDist \in Nat \ {0} /\ MinCata \in Nat \ {0}
      /\ MinInfer \in 1..MinCata
  BY StopsAssumption
<1>2. T * SoftDist \in Nat /\ T * SoftDist = 2 * half /\ half \in Nat
  <2>1. T * SoftDist \in Nat
    BY <1>1
  <2>2. (T * SoftDist) % 2 = 0
    BY StopsAssumption
  <2> QED
    BY <2>1, <2>2
<1>3. D \in Nat /\ D >= MinCata /\ D \in {half, MinCata} /\ D >= half
  BY <1>1, <1>2, MaxOfTwo
<1>4. CatastropheStop = 0 - D /\ Dist(CatastropheStop) = D
  BY <1>1, <1>3 DEF CatastropheStop, Entry, Dist
<1>5. (T * SoftDist) \div T = SoftDist
  BY <1>1, QuotientExact
<1>6. (2 * MinCata) \div T \in Nat
  BY <1>1
<1>7. /\ ArmedDist \in Nat /\ ArmedDist >= SoftDist /\ ArmedDist >= (2 * MinCata) \div T
  BY <1>1, <1>6, MaxOfTwo DEF ArmedDist
<1>8. (2 * D) \div T \in SoftDist..ArmedDist
  <2>1. CASE D = half
    <3>1. 2 * D = T * SoftDist
      BY <1>2, <2>1
    <3> QED
      BY <3>1, <1>1, <1>5, <1>7
  <2>2. CASE D = MinCata
    <3>1. T * SoftDist <= 2 * D
      BY <1>2, <1>3
    <3>2. (2 * D) \div T >= SoftDist
      BY <1>1, <1>3, <3>1, QuotientAbove
    <3> QED
      BY <1>1, <1>6, <1>7, <2>2, <3>2
  <2> QED
    BY <1>3, <2>1, <2>2
<1> QED
  BY <1>1, <1>3, <1>4, <1>7, <1>8 DEF Entry

LEMMA NoCtxTyped == NoCtx \in Contexts /\ ~NoCtx.known
BY DEF NoCtx, Contexts

LEMMA InferFits ==
  ASSUME NEW stop \in Int, Placed(stop), market.price \in Int
  PROVE  /\ Infer(stop) \in Contexts
         /\ Fits(Infer(stop), stop)
         /\ ~Infer(stop).known => stop >= Entry
<1> DEFINE soft == Entry - (2 * Dist(stop)) \div TwiceCata
<1>1. TwiceCata \in Nat /\ TwiceCata >= 2
  BY StopsAssumption
<1>2. Dist(stop) \in Nat
  BY DEF Dist, Entry
<1>3. (2 * Dist(stop)) \div TwiceCata \in 0..Dist(stop)
  BY <1>1, <1>2, QuotientBelow
<1>4. CASE Dist(stop) < MinInfer
  <2>1. Infer(stop) = NoCtx
    BY <1>4 DEF Infer
  <2>2. MinInfer \in Nat
    BY StopsAssumption
  <2>3. stop # CatastropheStop
    BY <1>4, <2>2, Catastrophe
  <2>4. stop >= Entry
    BY <2>3 DEF Placed
  <2> QED
    BY <2>1, <2>4, NoCtxTyped DEF Fits
<1>5. CASE ~(Dist(stop) < MinInfer)
  <2>1. Infer(stop) = [known |-> TRUE, soft |-> soft, inferred |-> TRUE,
                       overshoot |-> market.price <= soft]
    BY <1>5 DEF Infer
  <2>2. soft \in Int
    BY <1>3 DEF Entry
  <2>3. Infer(stop) \in Contexts /\ Infer(stop).known /\ Infer(stop).soft = soft
    BY <2>1, <2>2 DEF Contexts
  <2>4. stop < Entry => soft \in Entry - ArmedDist..Entry - SoftDist
    BY <2>2, Catastrophe, StopsAssumption DEF Placed, Entry
  <2>5. stop >= Entry => Dist(soft) <= stop
    BY <1>2, <1>3, <2>2 DEF Dist, Entry
  <2> HIDE DEF soft
  <2>6. stop < Entry \/ stop >= Entry
    BY DEF Entry
  <2>7. Fits(Infer(stop), stop)
    BY <2>3, <2>4, <2>5, <2>6 DEF Fits
  <2> QED
    BY <2>3, <2>7
<1> QED
  BY <1>4, <1>5

-----------------------------------------------------------------------------
(* A step keeps the stops in place and loosens no broker stop.             *)
Tightens == StopsHeld' /\ broker'.stop >= broker.stop

LEMMA InitPlaces == StopsInit => StopsHeld
<1> SUFFICES ASSUME StopsInit PROVE StopsHeld
  OBVIOUS
<1> DEFINE first == [NoCtx EXCEPT !.known = TRUE, !.soft = Entry - SoftDist]
<1>1. SoftDist \in Nat
  BY StopsAssumption
<1>2. first \in Contexts /\ first.known /\ first.soft = Entry - SoftDist
  <2>1. Entry - SoftDist \in Int
    BY <1>1 DEF Entry
  <2>2. NoCtx \in Contexts
    BY NoCtxTyped
  <2>3. [NoCtx EXCEPT !.known = TRUE] \in Contexts /\ [NoCtx EXCEPT !.known = TRUE].known
    BY <2>2 DEF Contexts
  <2> QED
    BY <2>1, <2>3 DEF Contexts
<1>3. /\ market \in [price: Int, bar: Int] /\ pos.price = Entry /\ pos.stop = CatastropheStop
      /\ broker.stop = CatastropheStop /\ ctx = first /\ be = FALSE /\ recent = NoCtx
      /\ disk = Saved(ctx, FALSE, FALSE, NoCtx) /\ pc = "read"
  BY DEF StopsInit, Entry
<1> HIDE DEF first
<1>4. disk.ctx = first /\ disk.be = FALSE /\ disk.recent = NoCtx
  BY <1>3 DEF Saved
<1>5. Fits(first, broker.stop) /\ Fits(NoCtx, broker.stop)
  BY <1>1, <1>2, <1>3, Catastrophe, NoCtxTyped DEF Fits, Entry
<1>6. StopsTyped
  <2>1. {ctx, recent, disk.ctx, disk.recent} \subseteq Contexts
    BY <1>2, <1>3, <1>4, NoCtxTyped
  <2>2. be \in BOOLEAN /\ disk.be \in BOOLEAN
    BY <1>3, <1>4
  <2>3. broker.stop \in Int /\ pos.stop \in Int /\ pos.price \in Int
    BY <1>3, Catastrophe DEF Entry
  <2> QED
    BY <1>3, <2>1, <2>2, <2>3 DEF StopsTyped
<1>7. AllFit
  BY <1>3, <1>4, <1>5 DEF AllFit
<1> QED
  BY <1>3, <1>4, <1>6, <1>7 DEF StopsHeld, Placed, MarksHeld, MarkHeld, InCycle

(* Steps that leave the monitor and the broker's stop alone.               *)
LEMMA OutsideKeeps ==
  ASSUME StopsHeld, BrokerRecord, PriceMoves \/ BarCloses \/ TargetFills
  PROVE  Tightens
<1>1. UNCHANGED <<ctx, be, recent, disk, pc, pos>>
  BY DEF PriceMoves, BarCloses, TargetFills
<1>2. broker'.stop = broker.stop
  BY DEF BrokerRecord, PriceMoves, BarCloses, TargetFills
<1>3. market' \in [price: Int, bar: Int]
  <2>1. CASE PriceMoves
    <3>1. PICK p \in Prices : market' = [market EXCEPT !.price = p]
      BY <2>1 DEF PriceMoves
    <3> QED
      BY <3>1, StopsAssumption DEF StopsHeld, StopsTyped
  <2>2. CASE BarCloses \/ TargetFills
    <3>1. market' = market \/ market' = [market EXCEPT !.bar = market.price]
      BY <2>2 DEF BarCloses, TargetFills
    <3> QED
      BY <3>1 DEF StopsHeld, StopsTyped
  <2> QED
    BY <2>1, <2>2
<1> QED
  BY <1>1, <1>2, <1>3
  DEF Tightens, StopsHeld, StopsTyped, AllFit, MarksHeld, MarkHeld, InCycle

(* The sidecar as it was, or with what the monitor has now.                *)
LEMMA SavedFields ==
  ASSUME NEW c, NEW b, NEW p, NEW r
  PROVE  /\ Saved(c, b, p, r).ctx = c /\ Saved(c, b, p, r).be = b
         /\ Saved(c, b, p, r).recent = r
BY DEF Saved

LEMMA SavesKeep ==
  ASSUME StopsHeld, LoopSaves
  PROVE  Tightens
<1>1. UNCHANGED <<market, broker, ctx, be, recent, pc, pos>>
  BY DEF LoopSaves
<1>2. disk' = Saved(ctx, be, partial', recent)
  BY <1>1 DEF LoopSaves, Save
<1>3. disk'.ctx = ctx /\ disk'.be = be /\ disk'.recent = recent
  BY <1>2, SavedFields
<1>4. StopsTyped'
  BY <1>1, <1>3 DEF StopsHeld, StopsTyped
<1>5. AllFit' /\ MarksHeld'
  BY <1>1, <1>3 DEF StopsHeld, AllFit, MarksHeld, MarkHeld, Fits
<1> QED
  BY <1>1, <1>4, <1>5 DEF Tightens, StopsHeld, StopsTyped, InCycle

LEMMA ReadsKeep ==
  ASSUME StopsHeld, ReadOpen
  PROVE  Tightens
<1>1. /\ UNCHANGED <<market, broker, be>> /\ recent' = NoCtx /\ pos' = Snapshot /\ pc' = "soft"
      /\ ctx' = IF ctx.known THEN ctx ELSE IF recent.known THEN recent ELSE Infer(broker.stop)
      /\ IF ctx.known THEN disk' = disk ELSE disk' = Saved(ctx', be, partial, NoCtx)
  BY DEF ReadOpen
<1>2. /\ StopsTyped /\ Placed(broker.stop) /\ AllFit /\ MarksHeld
      /\ broker.stop \in Int /\ market.price \in Int
  BY DEF StopsHeld, StopsTyped
<1>3. /\ ctx' \in Contexts /\ Fits(ctx', broker.stop)
      /\ ~ctx'.known => broker.stop >= Entry
  <2>1. CASE ctx.known
    BY <1>1, <1>2, <2>1 DEF StopsTyped, AllFit
  <2>2. CASE ~ctx.known /\ recent.known
    BY <1>1, <1>2, <2>2 DEF StopsTyped, AllFit
  <2>3. CASE ~ctx.known /\ ~recent.known
    BY <1>1, <1>2, <2>3, InferFits
  <2> QED
    BY <2>1, <2>2, <2>3
<1>4. pos'.price = market.price /\ pos'.stop = broker.stop
  BY <1>1 DEF Snapshot
<1>5. MarkHeld(be, ctx', NoCtx)
  BY <1>1, <1>2 DEF MarksHeld, MarkHeld
<1>6. \/ disk' = disk
      \/ disk'.ctx = ctx' /\ disk'.be = be /\ disk'.recent = NoCtx
  BY <1>1, SavedFields
<1>7. StopsTyped'
  BY <1>1, <1>2, <1>3, <1>4, <1>6, NoCtxTyped DEF StopsTyped
<1>8. AllFit'
  <2>1. Fits(NoCtx, broker.stop)
    BY NoCtxTyped DEF Fits
  <2> QED
    BY <1>1, <1>2, <1>3, <1>6, <2>1 DEF AllFit
<1>9. MarksHeld'
  BY <1>1, <1>2, <1>5, <1>6 DEF MarksHeld, MarkHeld
<1>10. InCycle'
  BY <1>1, <1>2, <1>3, <1>4, NoCtxTyped DEF InCycle, Placed
<1> QED
  BY <1>1, <1>2, <1>7, <1>8, <1>9, <1>10 DEF Tightens, StopsHeld, Placed

LEMMA MissesKeep ==
  ASSUME StopsHeld, ReadClosed \/ ReadBlank
  PROVE  Tightens
<1>1. /\ UNCHANGED <<market, broker, pos>> /\ pc' = "read"
      /\ recent' = IF ctx.known THEN ctx ELSE recent
      /\ ctx' = NoCtx /\ be' = FALSE
      /\ disk' = Saved(NoCtx, be, partial, recent')
  BY DEF ReadClosed, ReadBlank, Missed
<1>2. disk'.ctx = NoCtx /\ disk'.be = be /\ disk'.recent = recent'
  BY <1>1, SavedFields
<1>3. StopsTyped'
  BY <1>1, <1>2, NoCtxTyped DEF StopsHeld, StopsTyped
<1>4. AllFit'
  <2>1. Fits(NoCtx, broker.stop)
    BY NoCtxTyped DEF Fits
  <2> QED
    BY <1>1, <1>2, <2>1 DEF StopsHeld, AllFit
<1>5. MarkHeld(be, NoCtx, recent')
  BY <1>1, NoCtxTyped DEF StopsHeld, MarksHeld, MarkHeld
<1>6. MarksHeld'
  BY <1>1, <1>2, <1>5 DEF MarksHeld, MarkHeld
<1> QED
  BY <1>1, <1>3, <1>4, <1>6 DEF Tightens, StopsHeld, StopsTyped, Placed, InCycle

LEMMA RestartsKeep ==
  ASSUME StopsHeld, MonitorRestart \/ RestartBlank
  PROVE  Tightens
<1>1. /\ UNCHANGED <<market, broker, pos, disk>> /\ pc' = "read" /\ recent' = disk.recent
      /\ \/ ctx' = disk.ctx /\ be' = disk.be
         \/ ctx' = NoCtx /\ be' = FALSE
  BY DEF MonitorRestart, RestartBlank
<1>2. StopsTyped'
  BY <1>1, NoCtxTyped DEF StopsHeld, StopsTyped
<1>3. AllFit'
  <2>1. Fits(NoCtx, broker.stop)
    BY NoCtxTyped DEF Fits
  <2> QED
    BY <1>1, <2>1 DEF StopsHeld, AllFit
<1>4. MarksHeld'
  BY <1>1 DEF StopsHeld, MarksHeld, MarkHeld
<1> QED
  BY <1>1, <1>2, <1>3, <1>4 DEF Tightens, StopsHeld, StopsTyped, Placed, InCycle

(* The soft stop and the partial exit move no stop.                        *)
LEMMA SoftKeeps ==
  ASSUME StopsHeld, BrokerRecord,
         SoftCloses \/ SoftRefused \/ SoftHolds \/ PartialFills \/ PartialSkipped
  PROVE  Tightens
<1>1. /\ UNCHANGED <<market, be, recent, disk, pos>>
      /\ ctx' = ctx \/ ctx' = [ctx EXCEPT !.overshoot = FALSE]
      /\ pc \in {"soft", "partial"} /\ pc' \in {"read", "partial", "partial_be", "be"}
  BY DEF SoftCloses, SoftRefused, SoftHolds, PartialFills, PartialSkipped
<1>2. broker'.stop = broker.stop
  BY DEF BrokerRecord, SoftCloses, SoftRefused, SoftHolds, PartialFills, PartialSkipped
<1>3. ctx \in Contexts
  BY DEF StopsHeld, StopsTyped
<1>4. ctx' \in Contexts /\ ctx'.known = ctx.known /\ ctx'.soft = ctx.soft
  BY <1>1, <1>3 DEF Contexts
<1>5. StopsTyped'
  BY <1>1, <1>2, <1>4 DEF StopsHeld, StopsTyped
<1>6. AllFit'
  <2>1. Fits(ctx', broker.stop)
    BY <1>4 DEF StopsHeld, AllFit, Fits
  <2> QED
    BY <1>1, <1>2, <2>1 DEF StopsHeld, AllFit
<1>7. MarksHeld'
  BY <1>1, <1>2, <1>4 DEF StopsHeld, MarksHeld, MarkHeld
<1>8. InCycle'
  BY <1>1, <1>2, <1>4 DEF StopsHeld, InCycle, Placed
<1> QED
  BY <1>1, <1>2, <1>5, <1>6, <1>7, <1>8 DEF Tightens, StopsHeld, StopsTyped, Placed

-----------------------------------------------------------------------------
LEMMA ModifiedStop ==
  ASSUME BrokerRecord, NEW stop, Modified(stop)
  PROVE  broker'.stop = stop
BY DEF BrokerRecord, Modified

(* The soft stop that follows a move of the broker's stop.                 *)
LEMMA SoftFollows ==
  ASSUME NEW stop \in Int, ctx \in Contexts, ctx.known
  PROVE  SoftTo(stop) \in Contexts /\ SoftTo(stop).known /\ SoftTo(stop).soft = stop
<1>1. SoftTo(stop) = [ctx EXCEPT !.soft = stop]
  BY DEF SoftTo
<1> QED
  BY <1>1 DEF Contexts

(* A move from behind the entry to a stop at the entry or better, with the *)
(* soft stop, the mark and the sidecar.                                    *)
LEMMA MoveKeeps ==
  ASSUME StopsHeld, ~recent.known, ctx.known, NEW stop \in Int, stop >= Entry,
         broker.stop <= stop, broker'.stop = stop, ctx' = SoftTo(stop), be' = TRUE,
         UNCHANGED <<market, pos, recent>>, Save, InCycle'
  PROVE  Tightens
<1>1. ctx \in Contexts
  BY DEF StopsHeld, StopsTyped
<1>2. ctx' \in Contexts /\ ctx'.known /\ ctx'.soft = stop
  BY <1>1, SoftFollows
<1>3. disk'.ctx = ctx' /\ disk'.be = be' /\ disk'.recent = recent'
  BY DEF Save, Saved
<1>4. StopsTyped'
  BY <1>2, <1>3 DEF StopsHeld, StopsTyped
<1>5. AllFit'
  <2>1. Fits(ctx', stop) /\ Fits(recent, stop)
    BY <1>2 DEF Fits, Dist, Entry
  <2> QED
    BY <1>3, <2>1 DEF AllFit
<1>6. MarksHeld'
  BY <1>2, <1>3 DEF MarksHeld, MarkHeld
<1> QED
  BY <1>4, <1>5, <1>6 DEF Tightens, StopsHeld, Placed

(* A step that moves no stop and saves the sidecar, or not.                *)
LEMMA StayKeeps ==
  ASSUME StopsHeld, UNCHANGED <<market, broker, ctx, recent, pos>>,
         be' = be \/ be' = FALSE, disk' = disk \/ Save, InCycle'
  PROVE  Tightens
<1>1. \/ disk' = disk
      \/ disk'.ctx = ctx /\ disk'.be = be' /\ disk'.recent = recent
  BY SavedFields DEF Save
<1>2. StopsTyped'
  BY <1>1 DEF StopsHeld, StopsTyped
<1>3. AllFit'
  BY <1>1 DEF StopsHeld, AllFit
<1>4. MarksHeld'
  BY <1>1 DEF StopsHeld, MarksHeld, MarkHeld
<1> QED
  BY <1>2, <1>3, <1>4 DEF Tightens, StopsHeld, StopsTyped, Placed

LEMMA PartialMoveKeeps ==
  ASSUME StopsHeld, BrokerRecord, PartialBreakeven
  PROVE  Tightens
<1>1. /\ UNCHANGED <<market, pos, recent>> /\ Save /\ pc = "partial_be" /\ pc' = "be"
  BY DEF PartialBreakeven
<1>2. /\ ~recent.known /\ Placed(pos.stop) /\ broker.stop = pos.stop
      /\ ~ctx.known => pos.stop >= Entry
      /\ pos.stop \in Int
  BY <1>1 DEF StopsHeld, InCycle, StopsTyped
<1>3. CASE /\ BetterStop(Entry) /\ Modified(Entry)
           /\ be' = TRUE /\ ctx' = SoftTo(Entry)
  <2>1. pos.stop < Entry
    BY <1>3 DEF BetterStop
  <2>2. ctx.known /\ ctx \in Contexts
    BY <1>2, <2>1 DEF StopsHeld, StopsTyped, Entry
  <2>3. broker'.stop = Entry
    BY <1>3, ModifiedStop
  <2>4. ctx'.known /\ ctx'.soft = Entry
    BY <1>3, <2>2, SoftFollows DEF Entry
  <2>5. InCycle'
    BY <1>1, <1>2, <1>3, <2>1, <2>3, <2>4 DEF InCycle, Placed
  <2> QED
    BY <1>1, <1>2, <1>3, <2>1, <2>2, <2>3, <2>5, MoveKeeps DEF Entry
<1>4. CASE /\ UNCHANGED <<broker, ctx>>
           /\ be' = be \/ be' = FALSE
  <2>1. InCycle'
    BY <1>1, <1>2, <1>4 DEF InCycle, Placed
  <2> QED
    BY <1>1, <1>4, <2>1, StayKeeps
<1> QED
  BY <1>3, <1>4 DEF PartialBreakeven, Refused, MarkedWhen

(* What is due to trail behind the price is no step back for a stop that   *)
(* has just gone to the lock of the breakeven move.                        *)
LEMMA TrailAhead ==
  ASSUME NEW B \in Nat, NEW L \in {0, 1}, NEW gap \in Nat, NEW d \in Nat, NEW risk \in Nat,
         NEW price \in Int,
         B > 0, d <= risk, 2 * gap <= (2 * B + 1 - 2 * L) * d,
         2 * price > (2 * B + 1) * risk
  PROVE  price - gap >= L * risk
<1> DEFINE k == 2 * B + 1 - 2 * L
<1>1. k \in Nat
  OBVIOUS
<1>2. d * k <= risk * k
  BY <1>1, ProductMonotone
<1>3. 2 * gap <= k * risk
  BY <1>1, <1>2
<1>4. k * risk = (2 * B + 1) * risk - 2 * (L * risk)
  <2>1. CASE L = 0
    BY <2>1
  <2>2. CASE L = 1
    BY <2>2
  <2> QED
    BY <2>1, <2>2
<1>5. L * risk \in Nat /\ (2 * B + 1) * risk \in Nat /\ k * risk \in Nat
  <2>1. 2 * B + 1 \in Nat /\ L \in Nat
    OBVIOUS
  <2> QED
    BY <1>1, <2>1
<1> HIDE DEF k
<1> QED
  BY <1>3, <1>4, <1>5

(* The breakeven move is due only behind the entry: once the broker's stop *)
(* is at the entry or better, the risk left locks no better one.           *)
LEMMA MoveFromBehind ==
  ASSUME StopsHeld, pc = "be", BreakevenDue
  PROVE  /\ pos.stop < Entry /\ broker.stop = pos.stop
         /\ ctx.known /\ RiskDist \in Nat /\ RiskDist >= SoftDist
         /\ Lock \in Nat /\ Lock = LockR * RiskDist
<1>1. /\ Placed(pos.stop) /\ broker.stop = pos.stop /\ pos.stop \in Int
      /\ ~ctx.known => pos.stop >= Entry
  BY DEF StopsHeld, InCycle, BreakevenDue, StopsTyped
<1>2. ctx \in Contexts /\ ctx.soft \in Int /\ Fits(ctx, pos.stop)
  BY <1>1 DEF StopsHeld, StopsTyped, AllFit, Contexts
<1>3. RiskDist \in Nat /\ LockR \in {0, 1} /\ Lock = LockR * RiskDist /\ Lock \in Nat
  <2>1. RiskDist \in Nat
    BY <1>1, <1>2 DEF RiskDist, Dist, Entry
  <2>2. LockR \in {0, 1}
    BY StopsAssumption
  <2> QED
    BY <2>1, <2>2 DEF Lock, Entry
<1>4. pos.stop < Lock
  BY DEF BreakevenDue, BetterStop
<1>5. Lock <= RiskDist
  BY <1>3
<1>6. pos.stop < Entry
  <2>1. CASE pos.stop >= Entry
    <3>1. RiskDist <= pos.stop
      <4>1. CASE ctx.known
        BY <1>1, <1>2, <2>1, <4>1 DEF RiskDist, Fits, Entry
      <4>2. CASE ~ctx.known
        BY <1>1, <2>1, <4>2 DEF RiskDist, Dist, Entry
      <4> QED
        BY <4>1, <4>2
    <3> QED
      BY <1>1, <1>3, <1>4, <1>5, <3>1
  <2> QED
    BY <1>1, <2>1 DEF Entry
<1>7. ctx.known
  BY <1>1, <1>6 DEF Entry
<1>8. RiskDist >= SoftDist
  <2>1. ctx.soft \in Entry - ArmedDist..Entry - SoftDist
    BY <1>2, <1>6, <1>7 DEF Fits
  <2>2. SoftDist \in Nat /\ ArmedDist \in Nat
    BY StopsAssumption, Catastrophe
  <2> QED
    BY <1>2, <1>7, <2>1, <2>2 DEF RiskDist, Dist, Entry
<1> QED
  BY <1>1, <1>3, <1>6, <1>7, <1>8

LEMMA MovesKeep ==
  ASSUME StopsHeld, BrokerRecord, TrailFollows, BreakevenMoves
  PROVE  Tightens
<1>1. /\ UNCHANGED <<market, pos, recent>> /\ Save /\ pc = "be" /\ BreakevenDue
      /\ Modified(Lock) /\ be' = TRUE /\ ctx' = SoftTo(Lock) /\ After(TRUE)
  BY DEF BreakevenMoves
<1>2. /\ pos.stop < Entry /\ broker.stop = pos.stop /\ pos.stop \in Int
      /\ ctx.known /\ ctx \in Contexts /\ ~recent.known /\ Placed(pos.stop)
      /\ RiskDist \in Nat /\ RiskDist >= SoftDist
      /\ Lock \in Nat /\ Lock = LockR * RiskDist
  BY <1>1, MoveFromBehind DEF StopsHeld, StopsTyped, InCycle
<1>3. broker'.stop = Lock
  BY <1>1, ModifiedStop
<1>4. ctx'.known
  BY <1>1, <1>2, SoftFollows
<1>5. ASSUME TrailDue(TRUE) PROVE InCycle'
  <2>1. /\ BeAtR \in Nat /\ BeAtR > 0 /\ LockR \in {0, 1} /\ TrailGap \in Nat /\ SoftDist \in Nat
        /\ pos.price \in Int
    BY <1>1, StopsAssumption DEF BreakevenDue, StopsHeld, StopsTyped
  <2>2. 2 * TrailGap <= (2 * BeAtR + 1 - 2 * LockR) * SoftDist
    BY <1>5 DEF TrailDue, TrailFollows
  <2>3. 2 * pos.price > (2 * BeAtR + 1) * RiskDist
    BY <1>5 DEF TrailDue
  <2>4. pos.price - TrailGap >= Lock
    BY <1>2, <2>1, <2>2, <2>3, TrailAhead
  <2>5. pc' = "trail"
    BY <1>1, <1>5 DEF After
  <2> QED
    BY <1>1, <1>2, <1>3, <1>4, <2>4, <2>5 DEF InCycle, Placed
<1>6. ASSUME ~TrailDue(TRUE) PROVE InCycle'
  <2>1. pc' = "read"
    BY <1>1, <1>6 DEF After
  <2> QED
    BY <2>1 DEF InCycle
<1>7. InCycle'
  BY <1>5, <1>6
<1> QED
  BY <1>1, <1>2, <1>3, <1>7, MoveKeeps DEF Entry

LEMMA NoMoveKeeps ==
  ASSUME StopsHeld, BreakevenRefused \/ BreakevenNotDue
  PROVE  Tightens
<1>1. /\ UNCHANGED <<market, broker, ctx, recent, disk, pos>> /\ pc = "be"
      /\ \/ be' = FALSE /\ After(FALSE)
         \/ be' = be /\ After(be)
  BY DEF BreakevenRefused, BreakevenNotDue, Refused, MarkedWhen
<1>2. CASE be' = be /\ TrailDue(be)
  <2>1. /\ ~recent.known /\ Placed(pos.stop) /\ (~ctx.known => pos.stop >= Entry)
        /\ \/ broker.stop = pos.stop
           \/ pos.stop < Entry /\ broker.stop = Entry /\ ctx.soft = Entry
        /\ pos.stop \in Int /\ pos.price \in Int /\ TrailGap \in Nat
    BY <1>1, StopsAssumption DEF StopsHeld, StopsTyped, InCycle
  <2>2. be /\ RiskDist > 0 /\ pos.price - TrailGap > pos.stop
    BY <1>2 DEF TrailDue, BetterStop
  <2>3. broker.stop = pos.stop
    <3>1. CASE pos.stop < Entry /\ ctx.soft = Entry
      <4>1. ctx.known
        BY <2>1, <3>1 DEF Entry
      <4>2. RiskDist = 0
        BY <3>1, <4>1 DEF RiskDist, Dist, Entry
      <4> QED
        BY <2>2, <4>2
    <3> QED
      BY <2>1, <3>1
  <2>4. InCycle'
    BY <1>1, <1>2, <2>1, <2>2, <2>3 DEF InCycle, Placed, After
  <2> QED
    BY <1>1, <2>4, StayKeeps
<1>3. CASE pc' = "read"
  <2>1. InCycle'
    BY <1>3 DEF InCycle
  <2> QED
    BY <1>1, <2>1, StayKeeps
<1> QED
  BY <1>1, <1>2, <1>3 DEF After, TrailDue

LEMMA TrailKeeps ==
  ASSUME StopsHeld, BrokerRecord, Trail
  PROVE  Tightens
<1>1. /\ UNCHANGED <<market, ctx, be, recent, disk, pos>> /\ pc = "trail" /\ pc' = "read"
      /\ Modified(pos.price - TrailGap) \/ Refused(pos.price - TrailGap)
  BY DEF Trail
<1>2. InCycle'
  BY <1>1 DEF InCycle
<1>3. CASE Refused(pos.price - TrailGap)
  BY <1>1, <1>2, <1>3, StayKeeps DEF Refused
<1>4. CASE Modified(pos.price - TrailGap)
  <2> DEFINE stop == pos.price - TrailGap
  <2>1. broker'.stop = stop
    BY <1>4, ModifiedStop
  <2>2. /\ stop \in Int /\ broker.stop \in Int
        /\ be /\ stop >= broker.stop /\ broker.stop >= Entry
    BY <1>1, StopsAssumption DEF StopsHeld, StopsTyped, InCycle, MarksHeld, MarkHeld
  <2> HIDE DEF stop
  <2>3. StopsTyped'
    BY <1>1, <2>1, <2>2 DEF StopsHeld, StopsTyped
  <2>4. AllFit'
    <3>1. ASSUME NEW c \in {ctx, recent, disk.ctx, disk.recent} PROVE Fits(c, stop)
      <4>1. Fits(c, broker.stop) /\ c \in Contexts
        BY DEF StopsHeld, AllFit, StopsTyped
      <4>2. c.soft \in Int /\ Dist(c.soft) \in Int
        BY <4>1 DEF Contexts, Dist, Entry
      <4> QED
        BY <2>2, <4>1, <4>2 DEF Fits, Entry
    <3> QED
      BY <1>1, <2>1, <3>1 DEF AllFit
  <2>5. MarksHeld'
    BY <1>1, <2>1, <2>2 DEF StopsHeld, MarksHeld, MarkHeld, Entry
  <2> QED
    BY <1>2, <2>1, <2>2, <2>3, <2>4, <2>5 DEF Tightens, StopsHeld, Placed, Entry
<1> QED
  BY <1>1, <1>3, <1>4

-----------------------------------------------------------------------------
LEMMA StepTightens ==
  ASSUME TrailFollows, IInv, StopsHeld, [StopsNext]_stopVars
  PROVE  Tightens
<1>1. BrokerRecord
  BY DEF IInv
<1>2. CASE UNCHANGED stopVars
  BY <1>2 DEF stopVars, Tightens, StopsHeld, StopsTyped, AllFit, MarksHeld, MarkHeld, InCycle
<1> QED
  BY <1>1, <1>2, OutsideKeeps, SavesKeep, ReadsKeep, MissesKeep, RestartsKeep, SoftKeeps,
     PartialMoveKeeps, MovesKeep, NoMoveKeeps, TrailKeeps
  DEF StopsNext

(* The stops are in place in every state, if a trailing stop that starts   *)
(* is no step back.                                                        *)
SInv == IInv /\ (TrailFollows => StopsHeld)

LEMMA StopsStayHeld == StopsSpec => []SInv
<1>1. StopsInit => SInv
  BY InitHolds, InitPlaces DEF SInv
<1>2. SInv /\ [StopsNext]_stopVars => SInv'
  BY NextKeeps, StepTightens DEF SInv, Tightens, TrailFollows
<1> QED
  BY <1>1, <1>2, PTL DEF StopsSpec

(* A ticket in _breakeven_applied has both its stops at the entry or       *)
(* better, whatever was refused, missed, restarted or adopted              *)
(* (_manage_position, _handle_close, restore_state).                       *)
THEOREM MarkedAtBreakeven == StopsSpec => []BreakevenHeld
<1>1. SInv => BreakevenHeld
  BY DEF SInv, StopsHeld, MarksHeld, MarkHeld, BreakevenHeld
<1> QED
  BY <1>1, StopsStayHeld, PTL

(* No modify_position of the monitor loosens the broker's stop, and no     *)
(* soft stop in memory is further than the original as long as it counts   *)
(* (_is_better_stop on a stale snapshot, _infer_soft_stop_from_broker).    *)
THEOREM StopsNeverLoosen == StopsSpec => RiskNeverGrows
<1>1. SInv /\ [StopsNext]_stopVars =>
        [TrailFollows /\ broker'.open =>
           /\ broker'.stop >= broker.stop
           /\ ctx'.known => ctx'.soft >= Entry - ArmedDist \/ broker'.stop >= Entry]_stopVars
  <2> SUFFICES ASSUME SInv, [StopsNext]_stopVars, TrailFollows
               PROVE  /\ broker'.stop >= broker.stop
                      /\ ctx'.known => ctx'.soft >= Entry - ArmedDist \/ broker'.stop >= Entry
    OBVIOUS
  <2>1. StopsHeld' /\ broker'.stop >= broker.stop
    BY StepTightens DEF SInv, Tightens
  <2>2. Fits(ctx, broker.stop)' /\ (ctx \in Contexts)' /\ broker'.stop \in Int
    BY <2>1 DEF StopsHeld, AllFit, StopsTyped
  <2>3. SoftDist \in Nat /\ ArmedDist \in Nat
    BY StopsAssumption, Catastrophe
  <2> QED
    BY <2>1, <2>2, <2>3 DEF Fits, Contexts, Entry
<1> QED
  BY <1>1, StopsStayHeld, PTL DEF StopsSpec, RiskNeverGrows
-----------------------------------------------------------------------------
(* The chart.  t is the series s with one bar more.                        *)
Grown(s, t) ==
  /\ Len(s) \in Nat /\ Len(t) = Len(s) + 1
  /\ \A j \in 1..Len(s) : t[j] = s[j]

LEMMA SwingStays ==
  ASSUME NEW s, NEW t, Grown(s, t), NEW i \in 1..Len(s), NEW high,
         NEW j \in 1..i - SwingLookback - 1
  PROVE  IsSwing(s, j, high) = IsSwing(t, j, high)
<1>1. /\ Len(s) \in Nat /\ Len(t) = Len(s) + 1 /\ SwingLookback \in Nat
      /\ j + SwingLookback <= Len(s) /\ j + SwingLookback <= Len(t) /\ j \in 1..Len(s)
  BY ChartAssumption DEF Grown
<1>2. Centre(s, j) <=> Centre(t, j)
  BY <1>1 DEF Centre
<1>3. ASSUME Centre(s, j), NEW k \in j - SwingLookback..j + SwingLookback
      PROVE  t[k] = s[k] /\ t[j] = s[j]
  <2>1. k \in 1..Len(s)
    BY <1>1, <1>3 DEF Centre
  <2> QED
    BY <1>1, <2>1 DEF Grown
<1>4. CASE ~Centre(s, j)
  BY <1>2, <1>4 DEF IsSwing
<1>5. CASE Centre(s, j)
  <2>1. \A k \in j - SwingLookback..j + SwingLookback : t[k] = s[k] /\ t[j] = s[j]
    BY <1>3, <1>5
  <2>2. CASE high
    <3>1. IsSwing(s, j, high) <=> \A k \in j - SwingLookback..j + SwingLookback : s[k].high <= s[j].high
      BY <1>5, <2>2 DEF IsSwing
    <3>2. IsSwing(t, j, high) <=> \A k \in j - SwingLookback..j + SwingLookback : t[k].high <= t[j].high
      BY <1>2, <1>5, <2>2 DEF IsSwing
    <3>3. IsSwing(s, j, high) <=> IsSwing(t, j, high)
      BY <2>1, <3>1, <3>2
    <3> QED
      BY <3>3 DEF IsSwing
  <2>3. CASE ~high
    <3>1. IsSwing(s, j, high) <=> \A k \in j - SwingLookback..j + SwingLookback : s[k].low >= s[j].low
      BY <1>5, <2>3 DEF IsSwing
    <3>2. IsSwing(t, j, high) <=> \A k \in j - SwingLookback..j + SwingLookback : t[k].low >= t[j].low
      BY <1>2, <1>5, <2>3 DEF IsSwing
    <3>3. IsSwing(s, j, high) <=> IsSwing(t, j, high)
      BY <2>1, <3>1, <3>2
    <3> QED
      BY <3>3 DEF IsSwing
  <2> QED
    BY <2>2, <2>3
<1> QED
  BY <1>4, <1>5

LEMMA VisibleStay ==
  ASSUME NEW s, NEW t, Grown(s, t), NEW i \in 1..Len(s), NEW high
  PROVE  /\ VisibleSwings(s, i, high) = VisibleSwings(t, i, high)
         /\ VisibleSwings(s, i, high) \in SUBSET (1..Len(s))
<1>1. \A j \in 1..i - SwingLookback - 1 : IsSwing(s, j, high) = IsSwing(t, j, high)
  BY SwingStays
<1>2. Len(s) \in Nat /\ SwingLookback \in Nat
  BY ChartAssumption DEF Grown
<1>3. \A j \in 1..i - SwingLookback - 1 : j \in 1..Len(s)
  BY <1>2
<1> QED
  BY <1>1, <1>3 DEF VisibleSwings

(* What is found at a bar is found there when more bars have come.         *)
LEMMA LeftStay ==
  ASSUME NEW s, NEW t, Grown(s, t), NEW i \in 1..Len(s), NEW high
  PROVE  /\ t[i] = s[i]
         /\ LeftGap(s, i) = LeftGap(t, i) /\ LeftBlock(s, i, high) = LeftBlock(t, i, high)
<1>1. \A j \in 1..Len(s) : t[j] = s[j]
  BY DEF Grown
<1>2. /\ Len(s) \in Nat
      /\ \A j \in {i - 3, i - 2, i - 1} : j >= 1 => j \in 1..Len(s)
  BY DEF Grown
<1>3. CASE i >= 3
  <2>1. i - 2 \in 1..Len(s)
    BY <1>2, <1>3
  <2> QED
    BY <1>1, <1>2, <2>1 DEF LeftGap, LeftBlock
<1>4. CASE ~(i >= 3)
  BY <1>1, <1>2, <1>4 DEF LeftGap, LeftBlock
<1> QED
  BY <1>3, <1>4

LEMMA BreakStays ==
  ASSUME NEW s, NEW t, Grown(s, t), NEW i \in 1..Len(s), NEW high, NEW found
  PROVE  BreaksBy(s, i, high, found) = BreaksBy(t, i, high, found)
<1> DEFINE V == VisibleSwings(s, i, high)
           U == VisibleSwings(t, i, high)
<1>1. /\ t[i] = s[i] /\ U = V /\ V \in SUBSET (1..Len(s)) /\ Len(s) \in Nat
      /\ LeftGap(s, i) = LeftGap(t, i) /\ LeftBlock(s, i, high) = LeftBlock(t, i, high)
  BY LeftStay, VisibleStay DEF Grown
<1>2. CASE V = {}
  <2>1. BreaksBy(s, i, high, found) = <<>> /\ BreaksBy(t, i, high, found) = <<>>
    BY <1>1, <1>2 DEF BreaksBy
  <2> QED
    BY <2>1
<1>3. CASE V # {}
  <2>1. Max(V) \in 1..Len(s)
    BY <1>1, <1>3, GreatestNumber
  <2>2. t[Max(V)] = s[Max(V)]
    BY <2>1 DEF Grown
  <2>3. Level(s, Max(V), high) = Level(t, Max(V), high)
    BY <2>2 DEF Level
  <2> QED
    BY <1>1, <2>3 DEF BreaksBy
<1> QED
  BY <1>2, <1>3

(* At a bar there is one break of a side at most.                          *)
LEMMA OneBreak ==
  ASSUME NEW s, NEW i, NEW high, NEW found
  PROVE  \E e : e.at = i /\ (BreaksBy(s, i, high, found) = <<>> \/ BreaksBy(s, i, high, found) = <<e>>)
<1> DEFINE V == VisibleSwings(s, i, high)
           e == [at |-> i, high |-> high, price |-> Level(s, Max(V), high), since |-> i - Max(V),
                 gap |-> LeftGap(s, i), block |-> LeftBlock(s, i, high)]
<1>1. e.at = i
  OBVIOUS
<1>2. BreaksBy(s, i, high, found) = <<>> \/ BreaksBy(s, i, high, found) = <<e>>
  BY DEF BreaksBy
<1> QED
  BY <1>1, <1>2

-----------------------------------------------------------------------------
(* The breaks after every number of bars.                                  *)
BreakStep(s, k, before) == before \o BreaksBy(s, k, TRUE, before) \o BreaksBy(s, k, FALSE, before)

Breaking(g, s, n) == g = [k \in 0..n |-> IF k = 0 THEN <<>> ELSE BreakStep(s, k, g[k - 1])]

LEMMA BreakingExists ==
  ASSUME NEW s
  PROVE  \A n \in Nat : \E g : Breaking(g, s, n)
<1> DEFINE G == {n \in Nat : \E g : Breaking(g, s, n)}
<1>1. 0 \in G
  <2> DEFINE g == [k \in 0..0 |-> <<>>]
  <2>1. \A k \in 0..0 : g[k] = IF k = 0 THEN <<>> ELSE BreakStep(s, k, g[k - 1])
    OBVIOUS
  <2>2. Breaking(g, s, 0)
    BY <2>1 DEF Breaking
  <2> QED
    BY <2>2
<1>2. ASSUME NEW n \in Nat, n \in G PROVE n + 1 \in G
  <2>1. PICK g : Breaking(g, s, n)
    BY <1>2
  <2> DEFINE last == BreakStep(s, (n + 1), g[n])
             h == [k \in 0..n + 1 |-> IF k = n + 1 THEN last ELSE g[k]]
  <2>2. \A k \in 0..n : g[k] = IF k = 0 THEN <<>> ELSE BreakStep(s, k, g[k - 1])
    BY <2>1 DEF Breaking
  <2>3. /\ h[n + 1] = last
        /\ \A k \in 0..n : h[k] = g[k]
    OBVIOUS
  <2>4. ASSUME NEW k \in 0..n + 1
        PROVE  h[k] = IF k = 0 THEN <<>> ELSE BreakStep(s, k, h[k - 1])
    <3>1. CASE k = n + 1
      <4>1. k # 0 /\ k - 1 = n /\ n \in 0..n
        BY <3>1
      <4>2. h[k - 1] = g[n]
        BY <2>3, <4>1
      <4> HIDE DEF h
      <4> QED
        BY <2>3, <3>1, <4>1, <4>2
    <3>2. CASE k # n + 1
      <4>1. k \in 0..n /\ (k # 0 => k - 1 \in 0..n)
        BY <3>2
      <4> HIDE DEF h
      <4> QED
        BY <2>2, <2>3, <4>1
    <3> QED
      BY <3>1, <3>2
  <2>5. h = [k \in 0..n + 1 |-> h[k]]
    OBVIOUS
  <2> HIDE DEF h
  <2>6. Breaking(h, s, n + 1)
    BY <2>4, <2>5 DEF Breaking
  <2> QED
    BY <2>6
<1> HIDE DEF G
<1>3. \A n \in Nat : n \in G
  BY <1>1, <1>2, ByNumbers
<1> QED
  BY <1>3 DEF G

LEMMA BreaksBreak ==
  ASSUME NEW s, Len(s) \in Nat
  PROVE  \E g : Breaking(g, s, Len(s)) /\ Breaks(s) = g[Len(s)]
<1> DEFINE g == CHOOSE g : Breaking(g, s, Len(s))
<1>1. Breaking(g, s, Len(s))
  BY BreakingExists
<1>2. Breaks(s) = g[Len(s)]
  BY DEF Breaks, Breaking, BreakStep
<1> QED
  BY <1>1, <1>2

(* A bar more adds what is found at it.                                    *)
LEMMA BreaksGrow ==
  ASSUME NEW s, NEW t, Grown(s, t)
  PROVE  Breaks(t) = BreakStep(t, Len(t), Breaks(s))
<1> DEFINE n == Len(s)
<1>1. n \in Nat /\ Len(t) = n + 1
  BY DEF Grown
<1>2. PICK g : Breaking(g, s, n) /\ Breaks(s) = g[n]
  BY <1>1, BreaksBreak
<1>3. PICK h : Breaking(h, t, n + 1) /\ Breaks(t) = h[n + 1]
  BY <1>1, BreaksBreak
<1>4. \A found : \A k \in 1..n : BreakStep(s, k, found) = BreakStep(t, k, found)
  <2> SUFFICES ASSUME NEW k \in 1..n, NEW found PROVE BreakStep(s, k, found) = BreakStep(t, k, found)
    OBVIOUS
  <2>1. /\ BreaksBy(s, k, TRUE, found) = BreaksBy(t, k, TRUE, found)
        /\ BreaksBy(s, k, FALSE, found) = BreaksBy(t, k, FALSE, found)
    <3>1. k \in 1..Len(s)
      OBVIOUS
    <3>2. \A high : BreaksBy(s, k, high, found) = BreaksBy(t, k, high, found)
      BY <3>1, BreakStays
    <3> QED
      BY <3>2, Zenon
  <2> QED
    BY <2>1 DEF BreakStep
<1> HIDE DEF n
<1>5. /\ \A k \in 0..n : g[k] = IF k = 0 THEN <<>> ELSE BreakStep(s, k, g[k - 1])
      /\ \A k \in 0..n + 1 : h[k] = IF k = 0 THEN <<>> ELSE BreakStep(t, k, h[k - 1])
  BY <1>2, <1>3 DEF Breaking
<1> DEFINE G == {k \in Nat : k <= n => g[k] = h[k]}
<1>6. 0 \in G
  BY <1>1, <1>5
<1>7. ASSUME NEW k \in Nat, k \in G PROVE k + 1 \in G
  <2> SUFFICES ASSUME k + 1 <= n PROVE g[k + 1] = h[k + 1]
    OBVIOUS
  <2>1. /\ k + 1 \in 1..n /\ k + 1 \in 0..n /\ k + 1 \in 0..n + 1 /\ k + 1 # 0
        /\ (k + 1) - 1 = k /\ g[k] = h[k]
    BY <1>1, <1>7
  <2> QED
    BY <1>4, <1>5, <2>1
<1> HIDE DEF G
<1>8. \A k \in Nat : k \in G
  BY <1>6, <1>7, ByNumbers
<1>9. g[n] = h[n]
  BY <1>1, <1>8 DEF G
<1>10. h[n + 1] = BreakStep(t, n + 1, h[n])
  <2>1. n + 1 \in 0..n + 1 /\ n + 1 # 0 /\ (n + 1) - 1 = n
    BY <1>1
  <2> QED
    BY <1>5, <2>1
<1> QED
  BY <1>1, <1>2, <1>3, <1>9, <1>10

(* The breaks are a sequence.                                              *)
LEMMA JoinSeq ==
  ASSUME NEW S, NEW a \in Seq(S), NEW T, NEW b \in Seq(T)
  PROVE  /\ a \o b \in Seq(S \cup T) /\ Len(a \o b) = Len(a) + Len(b)
         /\ Len(a) \in Nat /\ Len(b) \in Nat
         /\ SubSeq(a \o b, 1, Len(a)) = a
         /\ \A i \in Len(a) + 1..Len(a \o b) : (a \o b)[i] = b[i - Len(a)]
<1> DEFINE U == S \cup T
<1>1. a \in Seq(U) /\ b \in Seq(U)
  <2>1. \A i \in 1..Len(a) : a[i] \in U
    BY ElementOfSeq
  <2>2. \A i \in 1..Len(b) : b[i] \in U
    BY ElementOfSeq
  <2>3. /\ Len(a) \in Nat /\ a = [i \in 1..Len(a) |-> a[i]]
        /\ Len(b) \in Nat /\ b = [i \in 1..Len(b) |-> b[i]]
    OBVIOUS
  <2> HIDE DEF U
  <2>4. [i \in 1..Len(a) |-> a[i]] \in Seq(U) /\ [i \in 1..Len(b) |-> b[i]] \in Seq(U)
    BY <2>1, <2>2, <2>3, IsASeq
  <2> QED
    BY <2>3, <2>4
<1> HIDE DEF U
<1>2. /\ a \o b \in Seq(U) /\ Len(a \o b) = Len(a) + Len(b)
      /\ Len(a) \in Nat /\ Len(b) \in Nat
      /\ \A i \in 1..Len(a) + Len(b) :
           (a \o b)[i] = IF i <= Len(a) THEN a[i] ELSE b[i - Len(a)]
  BY <1>1, ConcatProperties, LenProperties
<1>3. SubSeq(a \o b, 1, Len(a)) = a
  <2>1. SubSeq(a \o b, 1, Len(a)) = SubSeq(a, 1, Len(a))
    BY <1>1, <1>2, SubSeqOfConcat1
  <2>2. SubSeq(a, 1, Len(a)) = a
    BY <1>1, SubSeqFull
  <2> QED
    BY <2>1, <2>2
<1>4. ASSUME NEW i \in Len(a) + 1..Len(a \o b) PROVE (a \o b)[i] = b[i - Len(a)]
  <2>1. i \in 1..Len(a) + Len(b) /\ ~(i <= Len(a))
    BY <1>2
  <2> QED
    BY <1>2, <2>1
<1> QED
  BY <1>2, <1>3, <1>4 DEF U

LEMMA BreakList ==
  ASSUME NEW s, NEW k, NEW high, NEW found
  PROVE  LET b == BreaksBy(s, k, high, found)
         IN  /\ \E S : b \in Seq(S)
             /\ \A i \in 1..Len(b) : b[i].at = k
<1> DEFINE b == BreaksBy(s, k, high, found)
<1>1. PICK e : e.at = k /\ (b = <<>> \/ b = <<e>>)
  BY OneBreak
<1> HIDE DEF b
<1>2. CASE b = <<>>
  <2>1. <<>> \in Seq({e}) /\ Len(<<>>) = 0
    BY EmptySeq
  <2> QED
    BY <1>2, <2>1 DEF b
<1>3. CASE b = <<e>>
  <2>1. <<e>> \in Seq({e}) /\ Len(<<e>>) = 1 /\ <<e>>[1] = e
    OBVIOUS
  <2>2. \A i \in 1..Len(b) : b[i].at = k
    BY <1>1, <1>3, <2>1
  <2> QED
    BY <1>3, <2>1, <2>2 DEF b
<1> QED
  BY <1>1, <1>2, <1>3

LEMMA StepAdds ==
  ASSUME NEW s, NEW k, NEW before, NEW S, before \in Seq(S)
  PROVE  LET after == BreakStep(s, k, before)
         IN  /\ \E T : after \in Seq(T)
             /\ Len(before) \in Nat /\ Len(after) \in Nat /\ Len(before) <= Len(after)
             /\ SubSeq(after, 1, Len(before)) = before
             /\ \A i \in Len(before) + 1..Len(after) : after[i].at = k
<1> DEFINE up == BreaksBy(s, k, TRUE, before)
           down == BreaksBy(s, k, FALSE, before)
           mid == before \o up
           after == mid \o down
<1>1. /\ \A i \in 1..Len(up) : up[i].at = k
      /\ \A i \in 1..Len(down) : down[i].at = k
  BY BreakList
<1>2. PICK U : up \in Seq(U)
  BY BreakList
<1>3. PICK D : down \in Seq(D)
  BY BreakList
<1> HIDE DEF up, down
<1>4. /\ mid \in Seq(S \cup U) /\ Len(mid) = Len(before) + Len(up)
      /\ Len(before) \in Nat /\ Len(up) \in Nat
      /\ SubSeq(mid, 1, Len(before)) = before
      /\ \A i \in Len(before) + 1..Len(mid) : mid[i] = up[i - Len(before)]
  BY <1>2, JoinSeq
<1> HIDE DEF mid
<1>5. PICK M : M = S \cup U
  OBVIOUS
<1>6. /\ after \in Seq(M \cup D) /\ Len(after) = Len(mid) + Len(down)
      /\ Len(mid) \in Nat /\ Len(down) \in Nat
      /\ SubSeq(after, 1, Len(mid)) = mid
      /\ \A i \in Len(mid) + 1..Len(after) : after[i] = down[i - Len(mid)]
  <2>1. mid \in Seq(M)
    BY <1>4, <1>5
  <2> QED
    BY <1>3, <2>1, JoinSeq
<1>7. \A i \in 1..Len(mid) : after[i] = mid[i]
  <2>1. mid \in Seq(M)
    BY <1>4, <1>5
  <2>2. \A i \in 1..Len(mid) + Len(down) :
          after[i] = IF i <= Len(mid) THEN mid[i] ELSE down[i - Len(mid)]
    BY <1>3, <2>1 DEF after
  <2> QED
    BY <1>6, <2>2
<1>8. SubSeq(after, 1, Len(before)) = before
  <2>1. PICK T : after \in Seq(T) /\ mid \in Seq(T) /\ before \in Seq(T)
    BY <1>4, <1>5, <1>6
  <2> QED
    BY <1>4, <1>6, <1>7
<1>9. ASSUME NEW i \in Len(before) + 1..Len(after) PROVE after[i].at = k
  <2>1. CASE i <= Len(mid)
    <3>1. i \in 1..Len(mid) /\ i \in Len(before) + 1..Len(mid) /\ i - Len(before) \in 1..Len(up)
      BY <1>4, <1>6, <2>1
    <3> QED
      BY <1>1, <1>4, <1>7, <3>1
  <2>2. CASE ~(i <= Len(mid))
    <3>1. i \in Len(mid) + 1..Len(after) /\ i - Len(mid) \in 1..Len(down)
      BY <1>4, <1>6, <2>2
    <3> QED
      BY <1>1, <1>6, <3>1
  <2> QED
    BY <2>1, <2>2
<1>10. Len(after) \in Nat /\ Len(before) <= Len(after)
  BY <1>4, <1>6
<1>11. BreakStep(s, k, before) = after
  BY DEF BreakStep, up, down, mid
<1> HIDE DEF after
<1> QED
  BY <1>4, <1>6, <1>8, <1>9, <1>10, <1>11

LEMMA BreaksListed ==
  ASSUME NEW s, Len(s) \in Nat
  PROVE  \E S : Breaks(s) \in Seq(S)
<1>1. PICK g : Breaking(g, s, Len(s)) /\ Breaks(s) = g[Len(s)]
  BY BreaksBreak
<1>2. \A k \in 0..Len(s) : g[k] = IF k = 0 THEN <<>> ELSE BreakStep(s, k, g[k - 1])
  BY <1>1 DEF Breaking
<1> DEFINE G == {k \in Nat : k <= Len(s) => \E S : g[k] \in Seq(S)}
<1>3. 0 \in G
  <2>1. g[0] = <<>> /\ <<>> \in Seq({})
    BY <1>2, EmptySeq
  <2> QED
    BY <2>1
<1>4. ASSUME NEW k \in Nat, k \in G PROVE k + 1 \in G
  <2> SUFFICES ASSUME k + 1 <= Len(s) PROVE \E S : g[k + 1] \in Seq(S)
    OBVIOUS
  <2>1. k + 1 \in 0..Len(s) /\ k + 1 # 0 /\ (k + 1) - 1 = k /\ k <= Len(s)
    OBVIOUS
  <2>2. PICK S : g[k] \in Seq(S)
    BY <1>4, <2>1
  <2>3. g[k + 1] = BreakStep(s, k + 1, g[k])
    BY <1>2, <2>1
  <2> QED
    BY <2>2, <2>3, StepAdds
<1> HIDE DEF G
<1>5. \A k \in Nat : k \in G
  BY <1>3, <1>4, ByNumbers
<1> QED
  BY <1>1, <1>5 DEF G

(* The breaks of a longer chart are those of the shorter, and then the new *)
(* bar's.                                                                  *)
LEMMA BreaksKeep ==
  ASSUME NEW s, NEW t, Grown(s, t)
  PROVE  /\ IsPrefix(Breaks(s), Breaks(t))
         /\ \A k \in Len(Breaks(s)) + 1..Len(Breaks(t)) : Breaks(t)[k].at = Len(t)
<1> DEFINE was == Breaks(s)
           is == Breaks(t)
<1>1. PICK S : was \in Seq(S)
  BY BreaksListed DEF Grown
<1>2. is = BreakStep(t, Len(t), was)
  BY BreaksGrow
<1> HIDE DEF was, is
<1>3. /\ Len(was) <= Len(is)
      /\ SubSeq(is, 1, Len(was)) = was
      /\ \A k \in Len(was) + 1..Len(is) : is[k].at = Len(t)
  BY <1>1, <1>2, StepAdds
<1>4. SubSeq(was, 1, Len(was)) = was
  BY <1>1, SubSeqFull
<1> QED
  BY <1>3, <1>4 DEF IsPrefix, was, is

-----------------------------------------------------------------------------
(* A gap's fill state after every number of bars.                          *)
Filling(g, s, k, n) ==
  g = [j \in 0..n |-> IF j = 0 THEN Unfilled ELSE Filled(Gap(s, k), g[j - 1], s[k + j])]

LEMMA FillingExists ==
  ASSUME NEW s, NEW k
  PROVE  \A n \in Nat : \E g : Filling(g, s, k, n)
<1> DEFINE G == {n \in Nat : \E g : Filling(g, s, k, n)}
<1>1. 0 \in G
  <2> DEFINE g == [j \in 0..0 |-> Unfilled]
  <2>1. \A j \in 0..0 : g[j] = IF j = 0 THEN Unfilled ELSE Filled(Gap(s, k), g[j - 1], s[k + j])
    OBVIOUS
  <2>2. Filling(g, s, k, 0)
    BY <2>1 DEF Filling
  <2> QED
    BY <2>2
<1>2. ASSUME NEW n \in Nat, n \in G PROVE n + 1 \in G
  <2>1. PICK g : Filling(g, s, k, n)
    BY <1>2
  <2> DEFINE last == Filled(Gap(s, k), g[n], s[k + (n + 1)])
             h == [j \in 0..n + 1 |-> IF j = n + 1 THEN last ELSE g[j]]
  <2>2. \A j \in 0..n : g[j] = IF j = 0 THEN Unfilled ELSE Filled(Gap(s, k), g[j - 1], s[k + j])
    BY <2>1 DEF Filling
  <2>3. /\ h[n + 1] = last
        /\ \A j \in 0..n : h[j] = g[j]
    OBVIOUS
  <2>4. ASSUME NEW j \in 0..n + 1
        PROVE  h[j] = IF j = 0 THEN Unfilled ELSE Filled(Gap(s, k), h[j - 1], s[k + j])
    <3>1. CASE j = n + 1
      <4>1. j # 0 /\ j - 1 = n /\ n \in 0..n
        BY <3>1
      <4>2. h[j - 1] = g[n]
        BY <2>3, <4>1
      <4> HIDE DEF h
      <4> QED
        BY <2>3, <3>1, <4>1, <4>2
    <3>2. CASE j # n + 1
      <4>1. j \in 0..n /\ (j # 0 => j - 1 \in 0..n)
        BY <3>2
      <4> HIDE DEF h
      <4> QED
        BY <2>2, <2>3, <4>1
    <3> QED
      BY <3>1, <3>2
  <2>5. h = [j \in 0..n + 1 |-> h[j]]
    OBVIOUS
  <2> HIDE DEF h
  <2>6. Filling(h, s, k, n + 1)
    BY <2>4, <2>5 DEF Filling
  <2> QED
    BY <2>6
<1> HIDE DEF G
<1>3. \A n \in Nat : n \in G
  BY <1>1, <1>2, ByNumbers
<1> QED
  BY <1>3 DEF G

LEMMA FillFills ==
  ASSUME NEW s, NEW k \in Nat, NEW last \in Nat, k <= last
  PROVE  \E g : Filling(g, s, k, last - k) /\ FillUpTo(s, k, last) = g[last - k]
<1> DEFINE g == CHOOSE g : Filling(g, s, k, last - k)
<1>1. Filling(g, s, k, last - k)
  BY FillingExists
<1>2. FillUpTo(s, k, last) = g[last - k]
  BY DEF FillUpTo, Filling
<1> QED
  BY <1>1, <1>2

LEMMA GapStays ==
  ASSUME NEW s, NEW t, Grown(s, t), NEW k \in 2..Len(s) - 1
  PROVE  Gap(s, k) = Gap(t, k) /\ (k \in Gaps(s) <=> k \in Gaps(t))
<1>1. /\ k - 1 \in 1..Len(s) /\ k + 1 \in 1..Len(s) /\ Len(s) \in Nat /\ Len(t) = Len(s) + 1
  BY DEF Grown
<1>2. t[k - 1] = s[k - 1] /\ t[k + 1] = s[k + 1]
  BY <1>1 DEF Grown
<1>3. GapUp(s, k) = GapUp(t, k) /\ GapDown(s, k) = GapDown(t, k)
  BY <1>2 DEF GapUp, GapDown
<1>4. Gap(s, k) = Gap(t, k)
  BY <1>2, <1>3 DEF Gap
<1>5. k \in 2..Len(t) - 1
  BY <1>1
<1> QED
  BY <1>3, <1>4, <1>5 DEF Gaps

(* A bar more moves the fill state by that bar.                            *)
LEMMA FillGrows ==
  ASSUME NEW s, NEW t, Grown(s, t), NEW k \in 2..Len(s) - 1
  PROVE  FillUpTo(t, k, Len(t)) = Filled(Gap(t, k), FillUpTo(s, k, Len(s)), t[Len(t)])
<1> DEFINE n == Len(s) - k
<1>1. Len(s) \in Nat /\ Len(t) = Len(s) + 1 /\ n \in Nat /\ k \in Nat /\ Len(t) - k = n + 1
  BY DEF Grown
<1>2. PICK g : Filling(g, s, k, n) /\ FillUpTo(s, k, Len(s)) = g[n]
  <2>1. k <= Len(s)
    BY <1>1
  <2> QED
    BY <1>1, <2>1, FillFills
<1>3. PICK h : Filling(h, t, k, n + 1) /\ FillUpTo(t, k, Len(t)) = h[n + 1]
  <2>1. Len(t) \in Nat /\ k <= Len(t)
    BY <1>1
  <2> HIDE DEF n
  <2> QED
    BY <1>1, <2>1, FillFills
<1>4. Gap(s, k) = Gap(t, k)
  BY GapStays
<1>5. \A j \in 1..n : t[k + j] = s[k + j]
  <2>1. \A j \in 1..n : k + j \in 1..Len(s)
    BY <1>1
  <2> QED
    BY <2>1 DEF Grown
<1> HIDE DEF n
<1>6. /\ \A j \in 0..n : g[j] = IF j = 0 THEN Unfilled ELSE Filled(Gap(s, k), g[j - 1], s[k + j])
      /\ \A j \in 0..n + 1 : h[j] = IF j = 0 THEN Unfilled ELSE Filled(Gap(t, k), h[j - 1], t[k + j])
  BY <1>2, <1>3 DEF Filling
<1> DEFINE G == {j \in Nat : j <= n => g[j] = h[j]}
<1>7. 0 \in G
  <2>1. 0 \in 0..n /\ 0 \in 0..n + 1
    BY <1>1
  <2>2. g[0] = Unfilled /\ h[0] = Unfilled
    BY <1>6, <2>1
  <2> QED
    BY <2>2
<1>8. ASSUME NEW j \in Nat, j \in G PROVE j + 1 \in G
  <2> SUFFICES ASSUME j + 1 <= n PROVE g[j + 1] = h[j + 1]
    OBVIOUS
  <2>1. /\ j + 1 \in 1..n /\ j + 1 \in 0..n /\ j + 1 \in 0..n + 1 /\ j + 1 # 0
        /\ (j + 1) - 1 = j /\ g[j] = h[j]
    BY <1>1, <1>8
  <2>2. t[k + (j + 1)] = s[k + (j + 1)]
    BY <1>5, <2>1
  <2> QED
    BY <1>4, <1>6, <2>1, <2>2
<1> HIDE DEF G
<1>9. \A j \in Nat : j \in G
  BY <1>7, <1>8, ByNumbers
<1>10. g[n] = h[n]
  BY <1>1, <1>9 DEF G
<1>11. h[n + 1] = Filled(Gap(t, k), h[n], t[Len(t)])
  <2>1. n + 1 \in 0..n + 1 /\ n + 1 # 0 /\ (n + 1) - 1 = n /\ k + (n + 1) = Len(t)
    BY <1>1
  <2> QED
    BY <1>6, <2>1
<1> QED
  BY <1>2, <1>3, <1>10, <1>11

(* A gap that the last bar made is first reached by that bar.              *)
LEMMA FillStarts ==
  ASSUME NEW t, NEW k \in Nat, Len(t) = k + 1
  PROVE  FillUpTo(t, k, Len(t)) = Filled(Gap(t, k), Unfilled, t[Len(t)])
<1>1. Len(t) - k = 1 /\ Len(t) \in Nat /\ k <= Len(t)
  OBVIOUS
<1>2. PICK g : Filling(g, t, k, 1) /\ FillUpTo(t, k, Len(t)) = g[1]
  BY <1>1, FillFills
<1>3. g = [j \in 0..1 |-> IF j = 0 THEN Unfilled ELSE Filled(Gap(t, k), g[j - 1], t[k + j])]
  BY <1>2 DEF Filling
<1>4. g[0] = Unfilled /\ g[1] = Filled(Gap(t, k), g[1 - 1], t[k + 1]) /\ 1 - 1 = 0
  BY <1>3
<1> QED
  BY <1>1, <1>2, <1>4

-----------------------------------------------------------------------------
(* Freshness: whether a bar up to i closed through the zone.               *)
LEMMA MitigatedIff ==
  ASSUME NEW s, Len(s) \in Nat, NEW z, NEW i \in Nat
  PROVE  Mitigated(s, z, i) <=> \E j \in ClosedThrough(s, z) : j < i
<1> DEFINE C == ClosedThrough(s, z)
<1>1. C \in SUBSET (1..Len(s)) /\ C \in SUBSET Nat
  BY DEF ClosedThrough
<1>2. CASE C = {}
  BY <1>2 DEF Mitigated
<1>3. CASE C # {}
  <2> HIDE DEF C
  <2>1. \E m \in C : \A j \in C : m <= j
    BY <1>1, <1>3, LeastNumber
  <2>2. Min(C) \in C /\ \A j \in C : Min(C) <= j
    BY <2>1 DEF Min
  <2>3. Mitigated(s, z, i) <=> Min(C) < i
    BY <1>3 DEF Mitigated, C
  <2>4. \A j \in C : j < i => Min(C) < i
    <3>1. \A j \in C : j \in Nat
      BY <1>1
    <3> QED
      BY <2>2, <3>1
  <2>5. (\E j \in C : j < i) <=> Min(C) < i
    BY <2>2, <2>4
  <2> QED
    BY <2>3, <2>5 DEF C
<1> QED
  BY <1>2, <1>3

LEMMA FreshStays ==
  ASSUME NEW s, NEW t, Grown(s, t), NEW z, NEW i \in 1..Len(s)
  PROVE  FreshAt(s, z, i) = FreshAt(t, z, i)
<1>1. Len(s) \in Nat /\ Len(t) = Len(s) + 1 /\ Len(t) \in Nat /\ i \in Nat
  BY DEF Grown
<1>2. ASSUME NEW j \in 1..Len(s)
      PROVE  j \in ClosedThrough(s, z) <=> j \in ClosedThrough(t, z)
  <2>1. j \in 1..Len(t) /\ t[j] = s[j]
    BY <1>1 DEF Grown
  <2> QED
    BY <2>1 DEF ClosedThrough
<1>3. /\ \A j \in ClosedThrough(s, z) : j \in 1..Len(s)
      /\ \A j \in ClosedThrough(t, z) : j \in 1..Len(t)
  BY DEF ClosedThrough
<1>4. (\E j \in ClosedThrough(s, z) : j < i) <=> (\E j \in ClosedThrough(t, z) : j < i)
  <2>1. \A j \in 1..Len(t) : j < i => j \in 1..Len(s)
    BY <1>1
  <2> QED
    BY <1>2, <1>3, <2>1
<1>5. Mitigated(s, z, i) <=> Mitigated(t, z, i)
  BY <1>1, <1>4, MitigatedIff
<1> QED
  BY <1>5 DEF FreshAt

-----------------------------------------------------------------------------
ChartInv ==
  /\ bars \in Seq(Candles)
  /\ fills = [k \in Gaps(bars) |-> FillUpTo(bars, k, Len(bars))]

LEMMA ChartStarts == ChartInit => ChartInv
<1> SUFFICES ASSUME ChartInit PROVE ChartInv
  OBVIOUS
<1>1. bars = <<>> /\ fills = <<>> /\ Len(bars) = 0 /\ bars \in Seq(Candles)
  BY EmptySeq DEF ChartInit
<1>2. Gaps(bars) = {}
  BY <1>1 DEF Gaps
<1>3. <<>> = [k \in {} |-> FillUpTo(bars, k, Len(bars))]
  OBVIOUS
<1> QED
  BY <1>1, <1>2, <1>3 DEF ChartInv

LEMMA ArrivalGrows ==
  ASSUME ChartInv, BarArrives
  PROVE  Grown(bars, bars') /\ bars' \in Seq(Candles) /\ fills' = AdvanceTo(fills, bars', Len(bars'))
<1>1. PICK b \in Candles : bars' = Append(bars, b) /\ fills' = AdvanceTo(fills, bars', Len(bars'))
  BY DEF BarArrives
<1>2. bars \in Seq(Candles)
  BY DEF ChartInv
<1>3. /\ Append(bars, b) \in Seq(Candles)
      /\ Len(Append(bars, b)) = Len(bars) + 1 /\ Len(bars) \in Nat
      /\ \A j \in 1..Len(bars) : Append(bars, b)[j] = bars[j]
  BY <1>2, AppendProperties, LenProperties
<1> QED
  BY <1>1, <1>3 DEF Grown

LEMMA ArrivalKeeps == ChartInv /\ BarArrives => ChartInv'
<1> SUFFICES ASSUME ChartInv, BarArrives PROVE ChartInv'
  OBVIOUS
<1> DEFINE s == bars
           t == bars'
<1>1. Grown(s, t) /\ t \in Seq(Candles) /\ fills' = AdvanceTo(fills, t, Len(t))
  BY ArrivalGrows
<1>2. fills = [k \in Gaps(s) |-> FillUpTo(s, k, Len(s))] /\ Len(s) \in Nat /\ Len(t) = Len(s) + 1
  BY <1>1 DEF ChartInv, Grown
<1> HIDE DEF s, t
<1>3. /\ Gaps(t) \subseteq 2..Len(s) /\ Gaps(s) \subseteq 2..Len(s) - 1
  BY <1>2 DEF Gaps
<1>4. ASSUME NEW k \in Gaps(t)
      PROVE  FillUpTo(t, k, Len(t)) = Filled(Gap(t, k), IF k \in DOMAIN fills THEN fills[k] ELSE Unfilled, t[Len(t)])
  <2>1. k \in 2..Len(s) /\ k \in Nat
    BY <1>3
  <2>2. CASE k = Len(s)
    <3>1. k \notin Gaps(s)
      BY <1>2, <1>3, <2>2
    <3>2. k \notin DOMAIN fills
      BY <1>2, <3>1
    <3> QED
      BY <1>2, <2>1, <2>2, <3>2, FillStarts
  <2>3. CASE k # Len(s)
    <3>1. k \in 2..Len(s) - 1
      BY <1>2, <2>1, <2>3
    <3>2. k \in Gaps(s)
      BY <1>1, <3>1, GapStays
    <3>3. k \in DOMAIN fills /\ fills[k] = FillUpTo(s, k, Len(s))
      BY <1>2, <3>2
    <3> QED
      BY <1>1, <3>1, <3>3, FillGrows
  <2> QED
    BY <2>2, <2>3
<1>5. {k \in Gaps(t) : k < Len(t)} = Gaps(t)
  BY <1>2, <1>3
<1>6. fills' = [k \in Gaps(t) |-> FillUpTo(t, k, Len(t))]
  BY <1>1, <1>4, <1>5 DEF AdvanceTo
<1> QED
  BY <1>1, <1>6 DEF ChartInv, t

(* Whatever bars close, for all lookbacks and thresholds: the breaks of    *)
(* structure found stay and none appears in the past, a zone that stays is *)
(* as fresh at every past bar as it was, and the fill state moved bar by   *)
(* bar is the one a scan up to the last bar finds.                         *)
THEOREM NothingRepaints == ChartSpec => NoRepaint
<1>1. ChartInv /\ [BarArrives]_chartVars => ChartInv'
  <2>1. ChartInv /\ UNCHANGED chartVars => ChartInv'
    BY DEF ChartInv, chartVars
  <2> QED
    BY <2>1, ArrivalKeeps
<1>2. ChartInv /\ [BarArrives]_chartVars =>
        [/\ IsPrefix(Breaks(bars), Breaks(bars'))
         /\ \A k \in Len(Breaks(bars)) + 1..Len(Breaks(bars')) : Breaks(bars')[k].at = Len(bars')
         /\ \A z \in Range(Zones(bars)) \cap Range(Zones(bars')), i \in 1..Len(bars) :
              FreshAt(bars, z, i) = FreshAt(bars', z, i)
         /\ fills' = [k \in Gaps(bars') |-> FillUpTo(bars', k, Len(bars'))]]_chartVars
  <2> SUFFICES ASSUME ChartInv, BarArrives
               PROVE  /\ IsPrefix(Breaks(bars), Breaks(bars'))
                      /\ \A k \in Len(Breaks(bars)) + 1..Len(Breaks(bars')) : Breaks(bars')[k].at = Len(bars')
                      /\ \A z \in Range(Zones(bars)) \cap Range(Zones(bars')), i \in 1..Len(bars) :
                           FreshAt(bars, z, i) = FreshAt(bars', z, i)
                      /\ fills' = [k \in Gaps(bars') |-> FillUpTo(bars', k, Len(bars'))]
    OBVIOUS
  <2>1. Grown(bars, bars')
    BY ArrivalGrows
  <2>2. fills' = [k \in Gaps(bars') |-> FillUpTo(bars', k, Len(bars'))]
    BY ArrivalKeeps DEF ChartInv
  <2>3. \A z : \A i \in 1..Len(bars) : FreshAt(bars, z, i) = FreshAt(bars', z, i)
    BY <2>1, FreshStays
  <2> QED
    BY <2>1, <2>2, <2>3, BreaksKeep
<1> QED
  BY <1>1, <1>2, ChartStarts, PTL DEF ChartSpec, NoRepaint
==============================================================================
