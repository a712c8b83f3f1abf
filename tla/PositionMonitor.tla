--------------------------- MODULE PositionMonitor ---------------------------
(***************************************************************************)
(* The monitor coroutine: one cycle of PositionMonitor._check_positions,   *)
(* suspended wherever it awaits the broker.                                *)
(***************************************************************************)
EXTENDS AgentState

Goto(place) == mon' = [mon EXCEPT !.pc = place]

(* The kill check at the top of a cycle; a clean check re-arms it.         *)
MonitorStart ==
  /\ mon.pc = "start"
  /\ mon' = [AtRest EXCEPT !.halted = kill,
                           !.pc = IF ~kill THEN "read"
                                  ELSE IF mem.handled THEN "observe_read"
                                  ELSE "emergency_read"]
  /\ mem' = [mem EXCEPT !.handled = kill]
  /\ UNCHANGED <<broker, kill, guard, disk, sig, used>>

-----------------------------------------------------------------------------
(* Slip: the emergency close knows only tickets seen in an earlier cycle.  *)
EmergencyReadKnown ==
  /\ mon.pc = "emergency_read"
  /\ mon' = [mon EXCEPT !.closing = Visible \cap mem.known, !.pc = "emergency_close"]
  /\ UNCHANGED <<broker, kill, mem, guard, disk, sig, used>>

(* _emergency_close_all: one read, then one close per ticket read.         *)
EmergencyRead ==
  /\ mon.pc = "emergency_read"
  /\ mon' = [mon EXCEPT !.closing = Visible, !.pc = "emergency_close"]
  /\ UNCHANGED <<broker, kill, mem, guard, disk, sig, used>>

EmergencyClose(t) ==
  /\ mon.pc = "emergency_close"
  /\ t \in mon.closing
  /\ mon' = [mon EXCEPT !.closing = @ \ {t}]
  /\ IF status[t] = "open" THEN ClosedAtBroker(t) ELSE UNCHANGED status
  /\ UNCHANGED <<own, blip, kill, mem, guard, disk, sig, used>>

(* A refused close is logged and not tried again.                          *)
EmergencyCloseRefused(t) ==
  /\ mon.pc = "emergency_close"
  /\ t \in mon.closing
  /\ Fault
  /\ mon' = [mon EXCEPT !.closing = @ \ {t}]
  /\ UNCHANGED <<broker, kill, mem, guard, disk, sig>>

(* Back from the close of a kill file: on to the observation pass.         *)
EmergencyDone ==
  /\ mon.pc = "emergency_close"
  /\ mon.closing = {}
  /\ mon.halted
  /\ Goto("observe_read")
  /\ UNCHANGED <<broker, kill, mem, guard, disk, sig, used>>

-----------------------------------------------------------------------------
(* Slip: the known tickets are renewed with the read, before the closes.   *)
ReadRenews ==
  /\ mon.pc \in {"read", "observe_read"}
  /\ mem' = [mem EXCEPT !.known = Visible]
  /\ mon' = [mon EXCEPT !.seen = Visible,
                        !.pc = IF mon.halted THEN "observe_account" ELSE "account"]
  /\ UNCHANGED <<broker, kill, guard, disk, sig, used>>

Read ==
  /\ mon.pc \in {"read", "observe_read"}
  /\ mon' = [mon EXCEPT !.seen = Visible,
                        !.pc = IF mon.halted THEN "observe_account" ELSE "account"]
  /\ UNCHANGED <<broker, kill, mem, guard, disk, sig, used>>

(* BrokerReadError: the cycle ends here.                                   *)
AccountUnreadable ==
  /\ mon.pc \in {"account", "observe_account"}
  /\ Fault
  /\ Goto("start")
  /\ UNCHANGED <<broker, kill, mem, guard, disk, sig>>

(* The pieces of a cycle between the account read and the closes.  Before  *)
(* the initial scan a stranger is reopened or adopted at once, and the     *)
(* context of a restored ticket that is not seen is dropped; afterwards a  *)
(* stranger with no recent close waits one cycle before it is adopted.     *)
Stale == IF mem.scanned THEN {} ELSE mem.restored \ mon.seen
Strangers == mon.seen \ mem.ctx
Reopened(recent) == Strangers \cap recent

(* Slip: strangers are adopted by the initial scan only.                   *)
AdoptedAtStart(recent) == IF mem.scanned THEN {} ELSE Strangers \ recent

Adopted(recent) == IF mem.scanned THEN (Strangers \ recent) \cap mem.pending
                   ELSE Strangers \ recent

Waiting(recent) ==
  IF mem.scanned THEN (Strangers \ recent) \ mem.pending ELSE {}

Swept(recent) ==
  [mem EXCEPT !.ctx      = (@ \ Stale) \cup Reopened(recent) \cup Adopted(recent),
              !.exc      = (@ \cup mon.seen) \ Stale,
              !.recent   = recent \ Reopened(recent),
              !.blank    = @ \ (mem.recent \ recent),
              !.pending  = Waiting(recent),
              !.restored = {},
              !.scanned  = TRUE]

(* Excursions, initial scan, sweep, then the closed tickets are known.     *)
Sweep ==
  \E old \in IF LongBlips /\ mem.scanned THEN SUBSET mem.recent ELSE {{}} :
    LET recent == mem.recent \ old
    IN /\ mem' = Swept(recent)
       /\ guard' = Reverted(guard, Reopened(recent) \ mem.blank)
       /\ disk' = IF Reopened(recent) \cup Adopted(recent) = {} THEN disk
                  ELSE Snapshot(mem', guard')
       /\ mon' = [mon EXCEPT !.todo = mem.known \ mon.seen, !.pc = "closes"]

AccountRead ==
  /\ mon.pc = "account"
  /\ Sweep
  /\ UNCHANGED <<broker, kill, sig, used>>

(* _check_daily_dd finds the limit breached and awaits the closes; the     *)
(* first cycle only notes the balance the day starts with ...              *)
DailyLimit ==
  /\ Halts
  /\ mem.scanned
  /\ mon.pc = "account"
  /\ Goto("emergency_read")
  /\ UNCHANGED <<broker, kill, mem, guard, disk, sig, used>>

(* ... writes the kill file, and the cycle goes on with what it has read.  *)
DailyLimitDone ==
  /\ mon.pc = "emergency_close"
  /\ mon.closing = {}
  /\ ~mon.halted
  /\ kill' = TRUE
  /\ Sweep
  /\ UNCHANGED <<broker, sig, used>>

(* _observe_while_halted keeps excursions of tracked tickets only.         *)
Observe ==
  /\ mon.pc = "observe_account"
  /\ mem' = [mem EXCEPT !.exc = @ \cup (mon.seen \cap mem.ctx)]
  /\ mon' = [mon EXCEPT !.todo = mem.known \ mon.seen, !.pc = "closes"]
  /\ UNCHANGED <<broker, kill, guard, disk, sig, used>>

-----------------------------------------------------------------------------
(* _on_trade_closed: the guard is told, the sidecar is written.            *)
Report(t, m) ==
  /\ guard' = Counted(guard, t)
  /\ disk' = Snapshot(m, guard')

(* _handle_close up to its await.  A close of the agent's own carries its  *)
(* result and needs no history, so it is reported at once.                 *)
HandleClose(t) ==
  /\ mon.pc = "closes"
  /\ t \in mon.todo
  /\ mem' = [mem EXCEPT !.ctx = @ \ {t}, !.exc = @ \ {t}, !.forced = @ \ {t},
                        !.recent = @ \cup {t},
                        !.blank = IF t \in mem.ctx \cup mem.exc THEN @
                                  ELSE @ \cup {t}]
  /\ IF t \in mem.forced
       THEN /\ Report(t, mem')
            /\ mon' = [mon EXCEPT !.todo = @ \ {t}]
       ELSE /\ mon' = [mon EXCEPT !.pc = "history", !.ticket = {t}]
            /\ UNCHANGED <<guard, disk>>
  /\ UNCHANGED <<broker, kill, sig, used>>

(* ... and after it.  The arithmetic on the prices of a blank close raises *)
(* and so ends the cycle.                                                  *)
CloseResolved(t) ==
  /\ mon.pc = "history"
  /\ t \in mon.ticket
  /\ IF t \in mem.blank
       THEN /\ mon' = AtRest
            /\ UNCHANGED <<guard, disk>>
       ELSE /\ mon' = [mon EXCEPT !.todo = @ \ {t}, !.ticket = {}, !.pc = "closes"]
            /\ Report(t, mem)
  /\ UNCHANGED <<broker, kill, mem, sig, used>>

ClosesDone ==
  /\ mon.pc = "closes"
  /\ mon.todo = {}
  /\ mem' = [mem EXCEPT !.known = mon.seen]
  /\ mon' = IF mon.halted THEN AtRest ELSE [mon EXCEPT !.pc = "manage"]
  /\ UNCHANGED <<broker, kill, guard, disk, sig, used>>

(* _manage_soft_stop closes a ticket whose context it has.                 *)
SoftStop(t) ==
  /\ mon.pc = "manage"
  /\ t \in (mon.seen \cap mem.ctx) \ mem.blank
  /\ status[t] = "open"
  /\ ClosedAtBroker(t)
  /\ mem' = [mem EXCEPT !.forced = @ \cup {t}]
  /\ mon' = [mon EXCEPT !.seen = @ \ {t}]
  /\ UNCHANGED <<own, blip, kill, guard, disk, sig, used>>

ManageDone ==
  /\ mon.pc = "manage"
  /\ mon' = AtRest
  /\ UNCHANGED <<broker, kill, mem, guard, disk, sig, used>>

MonitorStep ==
  \/ MonitorStart
  \/ EmergencyRead
  \/ \E t \in Tickets : EmergencyClose(t) \/ EmergencyCloseRefused(t)
  \/ EmergencyDone
  \/ Read
  \/ AccountUnreadable
  \/ AccountRead
  \/ DailyLimit
  \/ DailyLimitDone
  \/ Observe
  \/ \E t \in Tickets : HandleClose(t) \/ CloseResolved(t)
  \/ ClosesDone
  \/ \E t \in Tickets : SoftStop(t)
  \/ ManageDone
=============================================================================
