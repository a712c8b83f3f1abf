---------------------------- MODULE EvidenceVault ----------------------------
(***************************************************************************)
(* The near-miss vault of one symbol: the agent appends an event a line,   *)
(* and the operator's resolver now and then reads the file, scores what    *)
(* the cached bars can decide, and writes the file anew.  An event is      *)
(* named by the bar it happened on; bars are numbered from 1, and an       *)
(* append or a rewrite is a step.  The file is a set of lines: nothing     *)
(* depends on their order, and a line without its end is always the last.  *)
(***************************************************************************)
EXTENDS Integers, FiniteSetsExt

CONSTANTS
  BarTouches,  \* what a bar may touch: "stop", "target", "both" or "none"
  MaxBars,     \* bound: bars
  Resolvers,   \* resolvers that may run at a time
  MaxTears     \* bound: deaths of the agent in the middle of a line

ASSUME VaultAssumption ==
  /\ BarTouches \subseteq {"stop", "target", "both", "none"}
  /\ MaxBars \in Nat \ {0}

VARIABLES
  path,      \* what each bar touches, of the levels all events share
  clock,     \* bars that have closed
  cached,    \* bars the resolver's cache holds
  events_file,   \* its lines
  resolver,  \* what each resolver has loaded, the bars it has, and (history)
             \* the events the file had when it loaded it
  tally      \* history: events appended, torn, and passed over by a rewrite

vaultVars == <<path, clock, cached, events_file, resolver, tally>>

Bars == 1..MaxBars

Unresolved == "open"
Line(bar) == [bar |-> bar, outcome |-> Unresolved, torn |-> FALSE]

NotRunning == [on |-> FALSE, events |-> {}, horizon |-> 0, lines |-> {}]

VaultInit ==
  /\ path \in [Bars -> BarTouches]
  /\ clock = 1 /\ cached = 0
  /\ events_file = {}
  /\ resolver = [r \in Resolvers |-> NotRunning]
  /\ tally = [appended |-> {}, torn |-> {}, passed |-> {}, tears |-> 0]

-----------------------------------------------------------------------------
BarCloses ==
  /\ clock < MaxBars
  /\ clock' = clock + 1
  /\ UNCHANGED <<path, cached, events_file, resolver, tally>>

(* download_data.                                                          *)
Download ==
  /\ cached < clock
  /\ cached' = clock
  /\ UNCHANGED <<path, clock, events_file, resolver, tally>>

(* _append_jsonl.  What follows a torn line is read as one line with it.   *)
Halves(lines) == {line \in lines : line.torn}

AppendLine(lines, line) ==
  IF Halves(lines) = {} THEN lines \cup {line}
  ELSE (lines \ Halves(lines)) \cup
         {[half EXCEPT !.torn = line.torn, !.outcome = "unreadable"] : half \in Halves(lines)}

EndsTorn == Halves(events_file) # {}

RecordNearMiss ==
  /\ clock \notin tally.appended
  /\ events_file' = AppendLine(events_file, Line(clock))
  /\ tally' = [tally EXCEPT !.appended = @ \cup {clock},
                            !.torn = @ \cup (IF EndsTorn THEN {clock} ELSE {})]
  /\ UNCHANGED <<path, clock, cached, resolver>>

(* The agent dies with half a line written.                                *)
Tear ==
  /\ clock \notin tally.appended /\ tally.tears < MaxTears
  /\ events_file' = AppendLine(events_file, [Line(clock) EXCEPT !.torn = TRUE])
  /\ tally' = [tally EXCEPT !.tears = @ + 1, !.appended = @ \cup {clock},
                            !.torn = @ \cup {clock}]
  /\ UNCHANGED <<path, clock, cached, resolver>>

-----------------------------------------------------------------------------
(* load_events skips what cannot be parsed.                                *)
Readable(line) == ~line.torn /\ line.outcome # "unreadable"

(* Slip: an event whose bars are not cached yet is dropped.                *)
LoadedCached(lines) == {line \in lines : Readable(line) /\ line.bar <= cached}

LoadEvents(lines) == {line \in lines : Readable(line)}

BarsOf(lines) == {line.bar : line \in lines}

ResolverLoads(r) ==
  /\ ~resolver[r].on
  /\ LoadEvents(events_file) # {}
  /\ resolver' = [resolver EXCEPT ![r] = [on |-> TRUE, events |-> LoadEvents(events_file),
                                          horizon |-> cached, lines |-> BarsOf(events_file)]]
  /\ UNCHANGED <<path, clock, cached, events_file, tally>>

(* Slip: the bar of the event is scored as well.                           *)
ForwardFromEvent(bar, horizon) == {j \in bar..horizon : path[j] # "none"}

(* resolve_event walks the cached bars strictly after the event's; a bar   *)
(* that touches both levels is a stop-out.                                 *)
Forward(bar, horizon) == {j \in bar + 1..horizon : path[j] # "none"}

Score(bar, horizon) ==
  IF Forward(bar, horizon) = {} THEN Unresolved
  ELSE IF path[Min(Forward(bar, horizon))] = "target" THEN "win" ELSE "loss"

(* main of resolve_near_misses: what has an outcome is kept, the rest is   *)
(* scored, and the file is replaced.                                       *)
Verdict(line, horizon) ==
  IF line.outcome = Unresolved THEN [line EXCEPT !.outcome = Score(line.bar, horizon)] ELSE line

Resolved(events, horizon) == {Verdict(line, horizon) : line \in events}

WriteEvents(r) ==
  /\ resolver[r].on
  /\ events_file' = Resolved(resolver[r].events, resolver[r].horizon)
  /\ resolver' = [resolver EXCEPT ![r] = NotRunning]
  /\ tally' = [tally EXCEPT !.passed = @ \cup (BarsOf(events_file) \ resolver[r].lines)]
  /\ UNCHANGED <<path, clock, cached>>

VaultNext ==
  \/ BarCloses \/ Download
  \/ RecordNearMiss \/ Tear
  \/ \E r \in Resolvers : ResolverLoads(r) \/ WriteEvents(r)

VaultSpec == VaultInit /\ [][VaultNext]_vaultVars

-----------------------------------------------------------------------------
InVault(bar) == \E line \in events_file : line.bar = bar /\ Readable(line)

(* What vault.py calls its stores: "Two append-only evidence stores": an   *)
(* event whose line was written whole stays in the file.                   *)
EventsKept == \A bar \in tally.appended \ tally.torn : InVault(bar)

(* No event is lost but one that the death of the agent tore, the one that *)
(* was appended to it, and those appended while a resolver was at work.    *)
LossesExplained == \A bar \in tally.appended \ (tally.torn \cup tally.passed) : InVault(bar)

FirstTouch(bar, touches) ==
  LET hit == {j \in bar + 1..MaxBars : path[j] \in touches}
  IN IF hit = {} THEN MaxBars + 1 ELSE Min(hit)

(* A verdict is the one the whole future gives, however little of it was   *)
(* cached at the time: a loss when the stop is touched no later than the   *)
(* target, a win when the target is touched first.                         *)
VerdictsTrue ==
  \A line \in events_file :
    LET stop == FirstTouch(line.bar, {"stop", "both"})
        target == FirstTouch(line.bar, {"target", "both"})
    IN /\ line.outcome = "loss" => stop <= target /\ stop <= MaxBars
       /\ line.outcome = "win" => target < stop
=============================================================================
