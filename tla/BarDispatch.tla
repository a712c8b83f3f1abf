----------------------------- MODULE BarDispatch -----------------------------
(***************************************************************************)
(* SignalLoop's intake of bars: one iteration polls its timeframes in      *)
(* order, marks a newly closed bar, saves the sidecar and only then        *)
(* evaluates it.  Polls and evaluations may raise, saves may fail, the     *)
(* process may die between any two of these.  A bar is named by the time   *)
(* of its close; time moves in steps of the overdue warning's grace.       *)
(***************************************************************************)
EXTENDS Integers, FiniteSets, SequencesExt

CONSTANTS
  Timeframes,   \* LiveConfig.timeframes, in order
  Period,       \* Timeframe.minutes of each
  Grace,        \* _OVERDUE_GRACE_MINUTES
  Closed,       \* when the market is closed
  MaxAge,       \* how old a restored last_bar_time may be
  MaxErrors,    \* SignalLoop._max_consecutive_errors
  MaxNow, MaxFaults   \* bounds: time; exceptions, failed saves and deaths

ASSUME BarsAssumption ==
  /\ Timeframes \in Seq(Range(Timeframes))
  /\ Period \in [Range(Timeframes) -> Nat \ {0}]
  /\ {Grace, MaxAge} \subseteq Nat

VARIABLES
  now,          \* the time
  feed,         \* newest closed bar the broker shows, per timeframe
  seen,         \* _last_bar_times
  clock,        \* _close_seen_wallclock
  warned,       \* _overdue_warned_at
  kept,         \* _last_bar_times in the sidecar
  loop,         \* timeframes left, the bar being evaluated, errors, running
  counts        \* history: newest bar evaluated and lost, what excuses repeats, faults

barVars == <<now, feed, seen, clock, warned, kept, loop, counts>>

TFs == Range(Timeframes)

None == -1
Nothing == [tf \in TFs |-> None]
Resting == [todo |-> <<>>, bar |-> None, errors |-> 0, running |-> TRUE]

BarsInit ==
  /\ now = 0
  /\ feed = [tf \in TFs |-> 0]
  /\ seen = Nothing /\ clock = Nothing /\ warned = Nothing
  /\ kept = Nothing
  /\ loop = Resting
  /\ counts = [done |-> Nothing, lost |-> Nothing, again |-> 0, excused |-> 0, faults |-> 0, asOf |-> Nothing]

-----------------------------------------------------------------------------
Tick ==
  /\ now < MaxNow
  /\ now' = now + 1
  /\ UNCHANGED <<feed, seen, clock, warned, kept, loop, counts>>

(* The broker shows the bar that closed last, at once, late or never.      *)
Delivers(tf) ==
  /\ now \notin Closed
  /\ feed' = [feed EXCEPT ![tf] = Period[tf] * (now \div Period[tf])]
  /\ UNCHANGED <<now, seen, clock, warned, kept, loop, counts>>

-----------------------------------------------------------------------------
Fault == counts.faults < MaxFaults

TF == Head(loop.todo)

(* _iteration: every timeframe in turn.  Under a kill file an iteration    *)
(* does nothing, which is for this model a loop that rests.                *)
Iteration ==
  /\ loop.running /\ loop.todo = <<>>
  /\ loop' = [loop EXCEPT !.todo = Timeframes]
  /\ UNCHANGED <<now, feed, seen, clock, warned, kept, counts>>

Polling == loop.running /\ loop.todo # <<>> /\ loop.bar = None

(* The iteration goes on; after the last timeframe its errors are forgiven. *)
NextTimeframe ==
  LET rest == Tail(loop.todo)
  IN loop' = [loop EXCEPT !.todo = rest, !.bar = None,
                          !.errors = IF rest = <<>> THEN 0 ELSE @]

(* An exception ends the iteration, the last of a streak the process.      *)
Raises ==
  loop' = [todo |-> <<>>, bar |-> None, errors |-> loop.errors + 1,
           running |-> loop.errors + 1 < MaxErrors]

(* _maybe_warn_close_overdue, the first thing a poll does.                 *)
Overdue ==
  /\ now \notin Closed
  /\ clock[TF] # None
  /\ now - clock[TF] > Period[TF] + Grace
  /\ warned[TF] = None \/ now - warned[TF] >= Period[TF]

Warn == warned' = IF Overdue THEN [warned EXCEPT ![TF] = now] ELSE warned

(* Slip: every poll that is answered winds the stall clock.                *)
ClockAnyPoll == now

ClockPolled == IF now \in Closed \/ clock[TF] = None THEN now ELSE clock[TF]

NewBar == feed[TF] # seen[TF]

AsOf == [counts.asOf EXCEPT ![TF] = IF now \in Closed \/ @ = None THEN now ELSE @]

(* Slip: a window that is too short is marked all the same.                *)
MarkedShort(tf) == feed[tf]

MarkedBefore(tf) == seen[tf]

(* Nothing new, or a window of fewer than 100 bars.                        *)
PollOld ==
  /\ Polling
  /\ Warn
  /\ \/ ~NewBar /\ counts' = [counts EXCEPT !.asOf = AsOf]
     \/ /\ NewBar /\ Fault
        /\ counts' = [counts EXCEPT !.asOf = AsOf, !.faults = @ + 1]
  /\ clock' = [clock EXCEPT ![TF] = ClockPolled]
  /\ seen' = [seen EXCEPT ![TF] = MarkedBefore(TF)]
  /\ NextTimeframe
  /\ UNCHANGED <<now, feed, kept>>

PollRaises ==
  /\ Polling /\ Fault
  /\ Warn
  /\ clock' = [clock EXCEPT ![TF] = ClockPolled]
  /\ counts' = [counts EXCEPT !.asOf = AsOf, !.faults = @ + 1]
  /\ Raises
  /\ UNCHANGED <<now, feed, seen, kept>>

(* A new bar is marked, the stall clock wound and the sidecar saved, or    *)
(* the failure of the save swallowed.                                      *)
PollNew ==
  /\ Polling
  /\ NewBar
  /\ Warn
  /\ seen' = [seen EXCEPT ![TF] = feed[TF]]
  /\ clock' = [clock EXCEPT ![TF] = now]
  /\ loop' = [loop EXCEPT !.bar = feed[TF]]
  /\ \/ kept' = seen' /\ counts' = [counts EXCEPT !.asOf[TF] = now]
     \/ /\ Fault
        /\ UNCHANGED kept
        /\ counts' = [counts EXCEPT !.asOf[TF] = now, !.excused = @ + 1, !.faults = @ + 1]
  /\ UNCHANGED <<now, feed>>

Evaluating == loop.running /\ loop.bar # None

(* precompute, the alphas and _route_signal.                               *)
Evaluate ==
  /\ Evaluating
  /\ counts' = [counts EXCEPT !.done[TF] = loop.bar,
                            !.again = @ + (IF loop.bar = counts.done[TF] THEN 1 ELSE 0)]
  /\ NextTimeframe
  /\ UNCHANGED <<now, feed, seen, clock, warned, kept>>

EvaluateRaises ==
  /\ Evaluating /\ Fault
  /\ counts' = [counts EXCEPT !.lost[TF] = loop.bar, !.faults = @ + 1]
  /\ Raises
  /\ UNCHANGED <<now, feed, seen, clock, warned, kept>>

(* The monitor saves the same sidecar.                                     *)
MonitorSaves ==
  /\ loop.running
  /\ kept' = seen
  /\ UNCHANGED <<now, feed, seen, clock, warned, loop, counts>>

-----------------------------------------------------------------------------
(* Slip: the bars are not in the sidecar.                                  *)
RestoreNone(marks) == Nothing

(* _restore_state: bars older than two days are forgotten.                 *)
RestoreBars(marks) == [tf \in TFs |-> IF marks[tf] >= now - MaxAge THEN marks[tf] ELSE None]

Forgotten == {tf \in TFs : kept[tf] # None /\ kept[tf] < now - MaxAge}

(* The process dies, or has stopped itself, and is started again.          *)
LoopRestart ==
  /\ IF loop.running THEN Fault ELSE TRUE
  /\ seen' = RestoreBars(kept)
  /\ clock' = Nothing /\ warned' = Nothing
  /\ loop' = Resting
  /\ counts' = [counts EXCEPT !.lost = IF Evaluating THEN [@ EXCEPT ![TF] = loop.bar] ELSE @,
                            !.excused = @ + Cardinality(Forgotten),
                            !.faults = @ + (IF loop.running THEN 1 ELSE 0),
                            !.asOf = Nothing]
  /\ UNCHANGED <<now, feed, kept>>

BarsNext ==
  \/ Tick
  \/ \E tf \in TFs : Delivers(tf)
  \/ Iteration \/ PollOld \/ PollRaises \/ PollNew
  \/ Evaluate \/ EvaluateRaises
  \/ MonitorSaves \/ LoopRestart

BarsSpec == BarsInit /\ [][BarsNext]_barVars

-----------------------------------------------------------------------------
(* A bar is evaluated once, but for one repetition for every failed save   *)
(* of a mark and every mark that a restart found too old: nothing else     *)
(* trades the same close twice.                                            *)
BarsOnce == counts.again <= counts.excused

(* A bar that is marked as seen, or a newer one, has been evaluated, or it  *)
(* is being evaluated, or an exception or a death struck its evaluation:    *)
(* neither another timeframe's error nor a short window costs a bar.        *)
MarkedBarsEvaluated ==
  \A tf \in TFs :
    seen[tf] # None =>
      \/ seen[tf] <= counts.done[tf] \/ seen[tf] <= counts.lost[tf]
      \/ Evaluating /\ TF = tf /\ loop.bar = seen[tf]

(* A poll that takes no bar for longer than the period and the grace after *)
(* the last one was taken, the market closed or the process began leaves a *)
(* warning no older than a period: "agent is running but signal-blind".    *)
StallNoticed ==
  [][\A tf \in TFs :
       (/\ Polling /\ TF = tf /\ loop' # loop /\ counts'.asOf[tf] # None
        /\ now \notin Closed /\ counts.asOf[tf] # None
        /\ now - counts.asOf[tf] > Period[tf] + Grace)
         => warned'[tf] # None /\ now - warned'[tf] < Period[tf]]_barVars
=============================================================================
