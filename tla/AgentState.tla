----------------------------- MODULE AgentState -----------------------------
(***************************************************************************)
(* What one symbol's process shares: the broker account, the kill files,   *)
(* the state sidecar, and the memory its two coroutines both work on.  The *)
(* coroutines are PositionMonitor and SignalLoop; asyncio runs one of them *)
(* until it awaits, so a step of a model is the code between two awaits.   *)
(* Every close is taken to be a loss: only losses bind later entries.      *)
(***************************************************************************)
EXTENDS Integers

CONSTANTS
  Tickets,      \* the tickets the broker may come to issue for this symbol
  Outsiders,    \* tickets may be opened outside the process
  Halts,        \* kill files come and go, the daily limit may be breached
  LongBlips,    \* a blip may outlast _PHANTOM_REOPEN_WINDOW_S
  FillBlips,    \* a blip may start before a fill has been acknowledged
  MaxBlips,     \* bound: spells of empty position reads
  MaxFaults,    \* bound: refused closes and failed account reads
  MaxCrashes    \* bound: process deaths

ASSUME AgentAssumption ==
  /\ Outsiders \in BOOLEAN
  /\ Halts \in BOOLEAN
  /\ LongBlips \in BOOLEAN
  /\ FillBlips \in BOOLEAN
  /\ MaxBlips \in Nat
  /\ MaxFaults \in Nat
  /\ MaxCrashes \in Nat

VARIABLES
  status,   \* the broker's view of a ticket: free, open or closed
  own,      \* tickets this process's orders opened
  blip,     \* position reads answer with an empty list
  kill,     \* a kill file of either path exists
  mem,      \* the monitor's dictionaries and flags, see FreshMemory
  guard,    \* the post-loss guard: cooldown, and net closes counted per ticket
  disk,     \* state.json
  mon,      \* where the monitor coroutine is, and its local variables
  sig,      \* where the signal coroutine is, and its local variables
  used      \* spent bounds

broker == <<status, own, blip>>
vars == <<status, own, blip, kill, mem, guard, disk, mon, sig, used>>

(* ctx: _entry_ctx; exc: _excursion; known: _known_tickets; pending:       *)
(* _ctxless_pending; recent: _recent_closes; forced: _close_results;       *)
(* restored: _restored_ctx_tickets; handled: _kill_switch_handled;         *)
(* scanned: _initial_scan_done; blank: tickets whose context or recent     *)
(* close names no entry price and no P&L.                                  *)
FreshMemory ==
  [ctx |-> {}, exc |-> {}, known |-> {}, pending |-> {}, recent |-> {},
   forced |-> {}, restored |-> {}, blank |-> {}, handled |-> FALSE, scanned |-> FALSE]

Memories ==
  [ctx: SUBSET Tickets, exc: SUBSET Tickets, known: SUBSET Tickets,
   pending: SUBSET Tickets, recent: SUBSET Tickets, forced: SUBSET Tickets,
   restored: SUBSET Tickets, blank: SUBSET Tickets, handled: BOOLEAN, scanned: BOOLEAN]

FreshGuard == [cooling |-> FALSE, credit |-> [t \in Tickets |-> 0]]
Guards == [cooling: BOOLEAN, credit: [Tickets -> Int]]

(* Slip: which tickets are blank is left out of the sidecar.               *)
SnapshotUnmarked(m, g) == [ctx |-> m.ctx, exc |-> m.exc, recent |-> m.recent, guard |-> g]

(* _collect_state.                                                         *)
Snapshot(m, g) == [ctx |-> m.ctx, exc |-> m.exc, recent |-> m.recent,
                   blank |-> m.blank, guard |-> g]

Disks == [ctx: SUBSET Tickets, exc: SUBSET Tickets, recent: SUBSET Tickets,
          blank: SUBSET Tickets, guard: Guards]

(* Places where the monitor awaits, and the two where it does not.         *)
MonitorAwaits == {"start", "read", "account", "emergency_read",
                  "emergency_close", "history", "manage", "observe_read",
                  "observe_account"}
MonitorPlaces == MonitorAwaits \cup {"closes", "down"}

(* seen: positions as read; todo: closed_tickets; closing: what the        *)
(* emergency close still has to close; ticket: the one in _handle_close;   *)
(* halted: the cycle found a kill file.                                    *)
AtRest == [pc |-> "start", seen |-> {}, todo |-> {}, closing |-> {},
           ticket |-> {}, halted |-> FALSE]

Monitors ==
  [pc: MonitorPlaces, seen: SUBSET Tickets, todo: SUBSET Tickets,
   closing: SUBSET Tickets, ticket: SUBSET Tickets, halted: BOOLEAN]

SignalPlaces == {"idle", "bars", "account", "positions", "order", "filled"}
Idle == [pc |-> "idle", ticket |-> {}]
Signals == [pc: SignalPlaces, ticket: SUBSET Tickets]

Open == {t \in Tickets : status[t] = "open"}

(* broker.get_open_positions: an unreadable terminal gives the empty list. *)
Visible == IF blip THEN {} ELSE Open

Fault == used.faults < MaxFaults /\ used' = [used EXCEPT !.faults = @ + 1]

(* The ticket is closed at the broker, at a loss.                          *)
ClosedAtBroker(t) == status' = [status EXCEPT ![t] = "closed"]

(* The guard told of a close, and told that a close was phantom.           *)
Counted(g, t) == [cooling |-> TRUE, credit |-> [g.credit EXCEPT ![t] = @ + 1]]

(* Slip: the callback for reopened tickets is not wired.                   *)
RevertUnwired(g, T) == g

Reverted(g, T) ==
  IF T = {} THEN g
  ELSE [cooling |-> FALSE,
        credit |-> [t \in Tickets |-> g.credit[t] - (IF t \in T THEN 1 ELSE 0)]]
=============================================================================
