---------------------------- MODULE PositionStops ----------------------------
(***************************************************************************)
(* The stops of one ticket: the agent's soft stop in memory, the broker's  *)
(* stop far behind it, the partial exit, the move to breakeven and the     *)
(* trailing stop, each applied by the monitor on a snapshot of the         *)
(* position taken before the calls to the broker, with restarts and empty  *)
(* position reads in between.  Prices are pips in the ticket's favour from *)
(* its open price: a short is a long in them.                              *)
(***************************************************************************)
EXTENDS Integers, FiniteSetsExt

CONSTANTS
  Prices,        \* where the price goes
  SoftDist,      \* the soft distance the ticket was sized on
  TwiceCata,     \* catastrophe_mult, doubled
  MinCata,       \* min_catastrophe_pips
  MinInfer,      \* _INFER_MIN_BROKER_PIPS
  PanicMult, BeAtR, LockR, PartialAtR,
  PartialExit,   \* LiveConfig.partial_exit_enabled
  Trailing,      \* LiveConfig.trailing_stop_enabled
  TrailGap,      \* LiveConfig.trailing_stop_distance_pips
  StopsFill,     \* the broker executes stops; PaperBroker does not
  Volume,        \* lots opened
  MaxLapses      \* bound: restarts, empty reads and refused calls

(* Distances are whole in the unit of the model; catastrophe_mult is at    *)
(* least 1; an adoption can tell a catastrophe stop from none; the         *)
(* breakeven move (be_lock_r) locks no more than the risk itself.          *)
ASSUME StopsAssumption ==
  /\ Prices \subseteq Int
  /\ SoftDist \in Nat \ {0}
  /\ TwiceCata \in Nat \ {0, 1} /\ (TwiceCata * SoftDist) % 2 = 0
  /\ MinCata \in Nat \ {0} /\ MinInfer \in 1..MinCata
  /\ {BeAtR, PartialAtR, PanicMult, TrailGap} \subseteq Nat
  /\ LockR \in {0, 1}

VARIABLES
  market,   \* price and the close of the last closed bar
  broker,   \* the ticket at the broker
  ctx,      \* the monitor's entry context of the ticket
  be,       \* ticket in _breakeven_applied
  partial,  \* ticket in _partial_applied
  recent,   \* the context kept of a close that may be phantom
  disk,     \* the sidecar
  pc,       \* what the monitor does next
  pos,      \* its snapshot of the position
  tally     \* history and bounds: partials taken, flags lost, lapses

stopVars == <<market, broker, ctx, be, partial, recent, disk, pc, pos, tally>>

NoCtx == [known |-> FALSE, soft |-> 0, inferred |-> FALSE, overshoot |-> FALSE]

Entry == 0

Dist(stop) == IF stop > Entry THEN stop - Entry ELSE Entry - stop

(* soft_stop.catastrophe_stop.                                             *)
CatastropheStop == Entry - Max({(TwiceCata * SoftDist) \div 2, MinCata})

Saved(c, b, p, r) == [ctx |-> c, be |-> b, partial |-> p, recent |-> r]

StopsInit ==
  /\ market = [price |-> Entry, bar |-> Entry]
  /\ broker = [open |-> TRUE, stop |-> CatastropheStop, volume |-> Volume]
  /\ ctx = [NoCtx EXCEPT !.known = TRUE, !.soft = Entry - SoftDist]
  /\ be = FALSE /\ partial = FALSE
  /\ recent = NoCtx
  /\ disk = Saved(ctx, FALSE, FALSE, NoCtx)
  /\ pc = "read"
  /\ pos = [price |-> Entry, stop |-> CatastropheStop, volume |-> Volume]
  /\ tally = [taken |-> 0, lost |-> 0, lapses |-> 0]

Save == disk' = Saved(ctx', be', partial', recent')

Lapse == tally.lapses < MaxLapses

-----------------------------------------------------------------------------
(* The market moves and bars close; a resting stop fills when it is        *)
(* touched; a ticket may be closed at its target or by hand.               *)
PriceMoves ==
  /\ \E p \in Prices :
       /\ market' = [market EXCEPT !.price = p]
       /\ broker' = [broker EXCEPT !.open = @ /\ ~(StopsFill /\ p <= broker.stop)]
  /\ UNCHANGED <<ctx, be, partial, recent, disk, pc, pos, tally>>

BarCloses ==
  /\ market' = [market EXCEPT !.bar = market.price]
  /\ UNCHANGED <<broker, ctx, be, partial, recent, disk, pc, pos, tally>>

TargetFills ==
  /\ broker.open
  /\ broker' = [broker EXCEPT !.open = FALSE]
  /\ UNCHANGED <<market, ctx, be, partial, recent, disk, pc, pos, tally>>

(* The signal loop saves the sidecar with every new bar.                   *)
LoopSaves ==
  /\ UNCHANGED <<market, broker, ctx, be, partial, recent, pc, pos, tally>>
  /\ Save

-----------------------------------------------------------------------------
(* Slip: the broker's stop is taken for the soft stop.                     *)
InferWide(stop) == [NoCtx EXCEPT !.known = TRUE, !.soft = stop, !.inferred = TRUE]

(* _infer_soft_stop_from_broker and _adopt_position: the soft stop of a    *)
(* ticket without context, if its broker stop is far enough away.          *)
Infer(stop) ==
  IF Dist(stop) < MinInfer THEN NoCtx
  ELSE LET soft == Entry - (2 * Dist(stop)) \div TwiceCata
       IN [known |-> TRUE, soft |-> soft, inferred |-> TRUE,
           overshoot |-> market.price <= soft]

Snapshot == [price |-> market.price, stop |-> broker.stop, volume |-> broker.volume]

(* A read shows the ticket: its context is in memory, comes back from the  *)
(* record of a phantom close, or is inferred; then the stops are managed.  *)
ReadOpen ==
  /\ pc = "read"
  /\ broker.open
  /\ ctx' = IF ctx.known THEN ctx ELSE IF recent.known THEN recent ELSE Infer(broker.stop)
  /\ recent' = NoCtx
  /\ IF ctx.known THEN UNCHANGED disk ELSE disk' = Saved(ctx', be, partial, NoCtx)
  /\ pos' = Snapshot
  /\ pc' = "soft"
  /\ UNCHANGED <<market, broker, be, partial, tally>>

(* The ticket is missing from the read: _handle_close keeps its context,   *)
(* the callback saves the sidecar and the ticket's flags are dropped.      *)
Missed ==
  /\ recent' = IF ctx.known THEN ctx ELSE recent
  /\ ctx' = NoCtx
  /\ disk' = Saved(NoCtx, be, partial, recent')
  /\ be' = FALSE /\ partial' = FALSE

ReadClosed ==
  /\ pc = "read"
  /\ ~broker.open
  /\ ctx.known
  /\ Missed
  /\ UNCHANGED <<market, broker, pc, pos, tally>>

ReadBlank ==
  /\ pc = "read"
  /\ broker.open /\ Lapse
  /\ Missed
  /\ tally' = [tally EXCEPT !.lapses = @ + 1, !.lost = @ + 1]
  /\ UNCHANGED <<market, broker, pc, pos>>

-----------------------------------------------------------------------------
(* evaluate_soft_stop: a closed bar beyond the soft stop, or a price far   *)
(* beyond it, but not when the soft stop stands at the entry.              *)
SoftBroken ==
  LET dist == Dist(ctx.soft)
  IN /\ ctx.known /\ dist > 0
     /\ \/ pos.price <= ctx.soft - PanicMult * dist
        \/ market.bar < ctx.soft

(* An adopted ticket that was beyond its inferred stop when it was adopted.*)
Overshot == ctx.known /\ ctx.overshoot /\ ctx.inferred /\ pos.price <= ctx.soft

(* _manage_soft_stop.  A refused close leaves the ticket to the rest of    *)
(* the cycle and to the broker's stop.                                     *)
SoftCloses ==
  /\ pc = "soft"
  /\ Overshot \/ SoftBroken
  /\ broker.open
  /\ broker' = [broker EXCEPT !.open = FALSE]
  /\ pc' = "read"
  /\ ctx' = [ctx EXCEPT !.overshoot = FALSE]
  /\ UNCHANGED <<market, be, partial, recent, disk, pos, tally>>

SoftRefused ==
  /\ pc = "soft"
  /\ Overshot \/ SoftBroken
  /\ \/ ~broker.open /\ UNCHANGED tally
     \/ broker.open /\ Lapse /\ tally' = [tally EXCEPT !.lapses = @ + 1]
  /\ pc' = "partial"
  /\ UNCHANGED <<market, broker, ctx, be, partial, recent, disk, pos>>

SoftHolds ==
  /\ pc = "soft"
  /\ ~Overshot /\ ~SoftBroken
  /\ ctx' = [ctx EXCEPT !.overshoot = FALSE]
  /\ pc' = "partial"
  /\ UNCHANGED <<market, broker, be, partial, recent, disk, pos, tally>>

-----------------------------------------------------------------------------
(* _r_multiple: the risk is the soft distance, or the broker's when the    *)
(* soft stop is unknown; none is left when that stop stands at the entry.  *)
RiskDist == Dist(IF ctx.known THEN ctx.soft ELSE pos.stop)

Reached(r) == RiskDist > 0 /\ pos.price >= r * RiskDist

(* Slip: any stop will do.                                                 *)
AnyStop(stop) == TRUE

(* _is_better_stop, against the stop of the snapshot.                      *)
BetterStop(stop) == stop > pos.stop

(* modify_position: the broker takes no stop the price has already passed, *)
(* and may refuse for reasons of its own.                                  *)
Modified(stop) == broker.open /\ stop < market.price /\ broker' = [broker EXCEPT !.stop = stop]

Refused(stop) ==
  /\ UNCHANGED broker
  /\ \/ (~broker.open \/ stop >= market.price) /\ UNCHANGED tally
     \/ Lapse /\ tally' = [tally EXCEPT !.lapses = @ + 1]

Half == pos.volume \div 2

(* _manage_partial_scaleout: half of the snapshot's volume is closed, once.*)
PartialDue == PartialExit /\ ~partial /\ Reached(PartialAtR) /\ Half > 0 /\ Half < pos.volume

(* Slip: the flag waits for the breakeven move.                            *)
PartialUnmarked == partial

PartialMarked == TRUE

PartialFills ==
  /\ pc = "partial"
  /\ PartialDue
  /\ broker.open
  /\ LET left == IF Half < broker.volume THEN broker.volume - Half ELSE 0
     IN broker' = [broker EXCEPT !.volume = left, !.open = left > 0]
  /\ partial' = PartialMarked
  /\ tally' = [tally EXCEPT !.taken = @ + 1]
  /\ pc' = "partial_be"
  /\ UNCHANGED <<market, ctx, be, recent, disk, pos>>

PartialSkipped ==
  /\ pc = "partial"
  /\ \/ ~PartialDue /\ UNCHANGED tally
     \/ PartialDue /\ ~broker.open /\ UNCHANGED tally
     \/ PartialDue /\ Lapse /\ tally' = [tally EXCEPT !.lapses = @ + 1]
  /\ pc' = "be"
  /\ UNCHANGED <<market, broker, ctx, be, partial, recent, disk, pos>>

(* A known soft stop follows the broker's stop.                            *)
SoftTo(stop) == IF ctx.known THEN [ctx EXCEPT !.soft = stop] ELSE ctx

(* Slip: the breakeven mark does not wait for the broker.                  *)
MarkedAnyway(done) == TRUE

MarkedWhen(done) == done

(* The runner's stop goes to the open price; then the sidecar is saved.    *)
PartialBreakeven ==
  /\ pc = "partial_be"
  /\ \/ /\ ~be /\ BetterStop(Entry)
        /\ Modified(Entry)
        /\ be' = TRUE /\ ctx' = SoftTo(Entry)
        /\ UNCHANGED tally
     \/ /\ ~be /\ BetterStop(Entry)
        /\ Refused(Entry)
        /\ be' = MarkedWhen(FALSE)
        /\ UNCHANGED ctx
     \/ /\ be \/ ~BetterStop(Entry)
        /\ UNCHANGED <<broker, ctx, be, tally>>
  /\ UNCHANGED <<partial, recent>>
  /\ Save
  /\ pc' = "be"
  /\ UNCHANGED <<market, pos>>

(* _manage_position: the breakeven move, saved when the broker took it.    *)
Lock == Entry + LockR * RiskDist

BreakevenDue == BeAtR > 0 /\ ~be /\ Reached(BeAtR) /\ BetterStop(Lock)

(* After the move the cycle goes on with the R multiple it had before.     *)
TrailDue(marked) ==
  /\ Trailing /\ marked
  /\ RiskDist > 0
  /\ 2 * pos.price > (2 * BeAtR + 1) * RiskDist
  /\ BetterStop(pos.price - TrailGap)

After(marked) == pc' = IF TrailDue(marked) THEN "trail" ELSE "read"

BreakevenMoves ==
  /\ pc = "be"
  /\ BreakevenDue
  /\ Modified(Lock)
  /\ be' = TRUE
  /\ ctx' = SoftTo(Lock)
  /\ UNCHANGED <<partial, recent>>
  /\ Save
  /\ After(TRUE)
  /\ UNCHANGED <<market, pos, tally>>

BreakevenRefused ==
  /\ pc = "be"
  /\ BreakevenDue
  /\ Refused(Lock)
  /\ be' = MarkedWhen(FALSE)
  /\ After(be')
  /\ UNCHANGED <<market, ctx, partial, recent, disk, pos>>

BreakevenNotDue ==
  /\ pc = "be"
  /\ ~BreakevenDue
  /\ After(be)
  /\ UNCHANGED <<market, broker, ctx, be, partial, recent, disk, pos, tally>>

(* The trailing stop, behind the snapshot's price.                         *)
Trail ==
  /\ pc = "trail"
  /\ \/ Modified(pos.price - TrailGap) /\ UNCHANGED tally
     \/ Refused(pos.price - TrailGap)
  /\ pc' = "read"
  /\ UNCHANGED <<market, ctx, be, partial, recent, disk, pos>>

-----------------------------------------------------------------------------
(* A restart: context and flags come back from the sidecar.  The initial   *)
(* scan of a process whose first read is empty discards them instead.      *)
MonitorRestart ==
  /\ Lapse
  /\ ctx' = disk.ctx /\ be' = disk.be /\ partial' = disk.partial
  /\ recent' = disk.recent
  /\ tally' = [tally EXCEPT !.lapses = @ + 1, !.lost = @ + 1]
  /\ pc' = "read"
  /\ UNCHANGED <<market, broker, disk, pos>>

RestartBlank ==
  /\ Lapse
  /\ ctx' = NoCtx /\ be' = FALSE /\ partial' = FALSE
  /\ recent' = disk.recent
  /\ tally' = [tally EXCEPT !.lapses = @ + 1, !.lost = @ + 1]
  /\ pc' = "read"
  /\ UNCHANGED <<market, broker, disk, pos>>

StopsNext ==
  \/ PriceMoves \/ BarCloses \/ TargetFills \/ LoopSaves
  \/ ReadOpen \/ ReadClosed \/ ReadBlank
  \/ SoftCloses \/ SoftRefused \/ SoftHolds
  \/ PartialFills \/ PartialSkipped \/ PartialBreakeven
  \/ BreakevenMoves \/ BreakevenRefused \/ BreakevenNotDue \/ Trail
  \/ MonitorRestart \/ RestartBlank

StopsSpec == StopsInit /\ [][StopsNext]_stopVars

-----------------------------------------------------------------------------
(* The trailing stop starts no lower than where the breakeven move put the *)
(* stop.  The code does not ask for it: it compares the trailing stop with *)
(* the stop of the snapshot, from before a breakeven move of that cycle.   *)
TrailFollows == ~Trailing \/ 2 * TrailGap <= (2 * BeAtR + 1 - 2 * LockR) * SoftDist

(* A ticket marked as moved to breakeven has its broker stop, and the soft *)
(* stop if it has one, at the entry or better: after a refused modify, a   *)
(* restart between modify and save, a phantom close, an adoption.          *)
BreakevenHeld ==
  TrailFollows /\ be =>
    /\ broker.open => broker.stop >= Entry
    /\ ctx.known => ctx.soft >= Entry

(* What an adoption infers from a catastrophe stop: the soft distance, or  *)
(* more where min_catastrophe_pips set that stop.                          *)
ArmedDist == Max({SoftDist, (2 * MinCata) \div TwiceCata})

(* The risk the ticket was sized on never grows: no step loosens a broker  *)
(* stop, and no restart, reopening or adoption arms a soft stop further    *)
(* away than the original, unless the broker's stop is at the entry or     *)
(* better and makes the soft stop idle.                                    *)
RiskNeverGrows ==
  [][TrailFollows /\ broker'.open =>
       /\ broker'.stop >= broker.stop
       /\ ctx'.known => ctx'.soft >= Entry - ArmedDist \/ broker'.stop >= Entry]_stopVars

(* The partial exit is taken once, but for once more for every time the    *)
(* flag was lost with a restart or a phantom close.                        *)
PartialsBounded == tally.taken <= 1 + tally.lost
=============================================================================
