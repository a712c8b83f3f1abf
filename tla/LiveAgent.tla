------------------------------ MODULE LiveAgent ------------------------------
(***************************************************************************)
(* One symbol's process at work: both coroutines, the broker, an operator  *)
(* with the kill files, and process death.  asyncio gives the signal       *)
(* coroutine a turn only where the monitor awaits.                         *)
(***************************************************************************)
EXTENDS PositionMonitor, SignalLoop, FiniteSets

TypeOK ==
  /\ status \in [Tickets -> {"free", "open", "closed"}]
  /\ own \in SUBSET Tickets
  /\ blip \in BOOLEAN
  /\ kill \in BOOLEAN
  /\ mem \in Memories
  /\ guard \in Guards
  /\ disk \in Disks
  /\ mon \in Monitors
  /\ sig \in Signals
  /\ used \in [blips: Nat, faults: Nat, crashes: Nat]

Init ==
  /\ status = [t \in Tickets |-> "free"]
  /\ own = {}
  /\ blip = FALSE
  /\ kill = FALSE
  /\ mem = FreshMemory
  /\ guard = FreshGuard
  /\ disk = Snapshot(FreshMemory, FreshGuard)
  /\ mon = AtRest
  /\ sig = Idle
  /\ used = [blips |-> 0, faults |-> 0, crashes |-> 0]

-----------------------------------------------------------------------------
(* A protective order fills, or somebody closes the ticket by hand.        *)
BrokerCloses(t) ==
  /\ status[t] = "open"
  /\ ClosedAtBroker(t)
  /\ UNCHANGED <<own, blip, kill, mem, guard, disk, mon, sig, used>>

OutsiderOpens(t) ==
  /\ Outsiders
  /\ status[t] = "free"
  /\ status' = [status EXCEPT ![t] = "open"]
  /\ UNCHANGED <<own, blip, kill, mem, guard, disk, mon, sig, used>>

BlipStarts ==
  /\ ~blip
  /\ FillBlips \/ sig.pc # "filled"
  /\ used.blips < MaxBlips
  /\ used' = [used EXCEPT !.blips = @ + 1]
  /\ blip' = TRUE
  /\ UNCHANGED <<status, own, kill, mem, guard, disk, mon, sig>>

BlipEnds ==
  /\ blip
  /\ blip' = FALSE
  /\ UNCHANGED <<status, own, kill, mem, guard, disk, mon, sig, used>>

OperatorToggles ==
  /\ Halts
  /\ kill' = ~kill
  /\ UNCHANGED <<broker, mem, guard, disk, mon, sig, used>>

CooldownOver ==
  /\ guard.cooling
  /\ guard' = [guard EXCEPT !.cooling = FALSE]
  /\ disk' = [disk EXCEPT !.guard.cooling = FALSE]
  /\ UNCHANGED <<status, own, blip, kill, mem, mon, sig, used>>

Crash ==
  /\ mon.pc # "down"
  /\ used.crashes < MaxCrashes
  /\ used' = [used EXCEPT !.crashes = @ + 1]
  /\ mem' = FreshMemory
  /\ guard' = FreshGuard
  /\ mon' = [AtRest EXCEPT !.pc = "down"]
  /\ sig' = Idle
  /\ UNCHANGED <<broker, kill, disk>>

(* The preflight refuses a kill file; _restore_state on the same UTC day.  *)
Start ==
  /\ mon.pc = "down"
  /\ ~kill
  /\ mem' = [FreshMemory EXCEPT !.ctx = disk.ctx, !.exc = disk.exc,
                                !.recent = disk.recent, !.blank = disk.blank,
                                !.restored = disk.ctx]
  /\ guard' = disk.guard
  /\ mon' = AtRest
  /\ UNCHANGED <<broker, kill, disk, sig, used>>

Environment ==
  \/ \E t \in Tickets : BrokerCloses(t) \/ OutsiderOpens(t)
  \/ BlipStarts \/ BlipEnds
  \/ OperatorToggles
  \/ CooldownOver

Next ==
  \/ MonitorStep
  \/ SignalStep
  \/ Environment
  \/ Crash
  \/ Start

Spec == Init /\ [][Next]_vars

(* Every broker call returns and both loops run for as long as the process *)
(* lives; an empty position read does not last for ever.                   *)
Fairness ==
  /\ WF_vars(MonitorStep)
  /\ WF_vars(sig.pc # "idle" /\ SignalStep)
  /\ WF_vars(BlipEnds)

FairSpec == Spec /\ Fairness

-----------------------------------------------------------------------------
(* Where position reads are never falsely empty, the orders of a process   *)
(* hold one position at a time, however its coroutines interleave with     *)
(* closes, halts and restarts (max_open_positions, checked two awaits      *)
(* before the order is placed).                                            *)
OnePosition == Cardinality(own \cap Open) <= 1

(* The guard counts a close at most once, and a ticket that is tracked     *)
(* again after a phantom close not at all: registers and reverts pair up   *)
(* across empty reads and sweeps (revert_close "undoes the state effect of *)
(* a close that turned out to be phantom").                                *)
CountedOnce ==
  \A t \in Tickets : /\ guard.credit[t] \in {0, 1}
                     /\ t \in mem.ctx \cap Open => guard.credit[t] = 0

(* A position the monitor finds without context gets one again, so that    *)
(* its soft stop lives, unless it closes or a kill file comes up (I016:    *)
(* "such a ticket would trade with the soft-stop layer silently dead").    *)
StrangersTracked ==
  \A t \in Tickets :
    (status[t] = "open" /\ mon.pc # "down") ~>
      (t \in mem.ctx \/ status[t] # "open" \/ kill \/ mon.pc = "down")

(* "A halt must not blind observability": the close of a ticket the        *)
(* monitor knew of reaches the guard.                                      *)
KnownClosesCounted ==
  \A t \in Tickets :
    (t \in mem.known /\ status[t] = "closed") ~>
      (guard.credit[t] > 0 \/ mon.pc = "down")

(* "Close all positions if kill switch file appears": a kill file that     *)
(* stays leaves no position of the agent open.                             *)
HaltFlattens == kill ~> (~kill \/ own \cap Open = {} \/ mon.pc = "down")

(* ... what the code gives: a kill file that comes up while no order is on *)
(* its way and the last one has been noticed to be gone, unless a call to  *)
(* the broker fails (a refused emergency close is not tried again).        *)
QuietHaltFlattens ==
  (kill /\ sig.pc = "idle" /\ ~mem.handled) ~>
    (~kill \/ own \cap Open = {} \/ mon.pc = "down" \/ used.faults > 0)
=============================================================================
