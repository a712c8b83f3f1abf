------------------------------ MODULE Watchdog ------------------------------
(***************************************************************************)
(* The life of one trading process, and what an external dead man's switch *)
(* shows of it.  run_live refuses to start under most kill files; the loop *)
(* pings from time to time, halted or not, with a note of why nothing is   *)
(* traded; the monitor pings when it closes everything; a loop that fails  *)
(* too often pings its failure and ends.  Every ping may be lost.  The     *)
(* switch shows the process down when its last ping said so or is too old. *)
(***************************************************************************)
EXTENDS Integers, FiniteSets

CONSTANTS
  Symbols,      \* what the process may be started for
  Interval,     \* _HEARTBEAT_INTERVAL_SECONDS
  Cooldown,     \* _EMERGENCY_NOTIFY_COOLDOWN_SECONDS
  Period,       \* of the external check
  MaxAttempts,  \* tries of one ping
  MaxDrops,     \* bound on the tries that a blip of the network takes
  MaxErrors,    \* _max_consecutive_errors
  MaxMinutes, MaxEvents,   \* bounds: time, and events from outside
  NoValue

(* Retries outlast a blip, and the check waits for a heartbeat at least.   *)
ASSUME AlarmAssumption ==
  /\ {Interval, Cooldown, Period, MaxAttempts, MaxDrops} \subseteq Nat
  /\ 0 < Interval /\ Interval <= Period /\ MaxDrops < MaxAttempts
  /\ NoValue \notin Nat \cup {"dd", "stale", "sticky"}

VARIABLES
  minute, looped,    \* who has come round since the last tick
  proc,           \* the process, with what it keeps in memory
  kill, master,   \* the symbol's kill file, the master kill file
  net,            \* the network reaches the check
  check,          \* the external check: its last ping
  events,         \* events from outside so far
  past            \* history: see AlarmInit

watchVars == <<minute, looped, proc, kill, master, net, check, events, past>>

-----------------------------------------------------------------------------
(* ROUTING_TABLE: the cells that were examined, risk scales in percent.    *)
ROUTING_TABLE ==
  {[symbol |-> "EURUSD", tf |-> "H4", session |-> "all", mode |-> "htf_against", scale |-> 100],
   [symbol |-> "GBPUSD", tf |-> "H4", session |-> "all", mode |-> "htf_against", scale |-> 50],
   [symbol |-> "USDCAD", tf |-> "H4", session |-> "all", mode |-> "htf_against", scale |-> 50]}
  \cup [symbol : {"EURUSD", "GBPUSD", "USDCAD"}, tf : {"D1"}, session : {"all"},
        mode : {"skip"}, scale : {0}]

survivors == {cell \in ROUTING_TABLE : cell.mode # "skip"}

(* build_live_routes: a symbol without a deployed cell cannot be traded.   *)
LiveRoutes(symbol) == {cell \in survivors : cell.symbol = symbol}

-----------------------------------------------------------------------------
(* A kill file: an auto-kill of today's drawdown, one of an earlier day,   *)
(* or one that stays until a person removes it.                            *)
Killed == kill # NoValue \/ master

(* The halt note of a heartbeat.                                           *)
HaltNote ==
  CASE kill \in {"dd", "stale"} -> "rearms"
    [] kill = "sticky" \/ (kill = NoValue /\ master) -> "sticky"
    [] OTHER -> ""

(* HealthcheckPinger._send: the tries of one ping against a blip.          *)
SendOnce(drops) == net /\ drops = 0
Send(drops) == net /\ drops < MaxAttempts

Pinged(c, sent, up, note) == IF sent THEN [at |-> minute, up |-> up, note |-> note] ELSE c

Down == [up |-> FALSE, beat |-> NoValue, errors |-> 0, handled |-> FALSE, notified |-> NoValue]

(* _preflight_kill_switch.                                                 *)
MayStart == ~master /\ kill \in {NoValue, "stale"}

-----------------------------------------------------------------------------
AlarmInit ==
  /\ minute = 0 /\ looped = {} /\ proc = Down
  /\ kill = NoValue /\ master = FALSE /\ net = TRUE
  /\ check = [at |-> NoValue, up |-> FALSE, note |-> ""]
  /\ events = 0
  /\ past = [began |-> NoValue, lost |-> FALSE,     \* the run: its start, a ping sent to no network
             halt |-> 0,                         \* when the halt note last changed
             died |-> 0, fatal |-> FALSE,        \* the end of the run
             due |-> FALSE]                      \* a heartbeat was due in it

(* main and SignalLoop.run up to the loop: routes, preflight, health check *)
(* and connection.  A start that is refused leaves nothing.                *)
Launch ==
  /\ ~proc.up /\ MayStart /\ minute < MaxMinutes
  /\ \E s \in Symbols : LiveRoutes(s) # {}
  /\ proc' = [Down EXCEPT !.up = TRUE, !.beat = minute]
  /\ kill' = NoValue
  /\ looped' = {}
  /\ past' = [past EXCEPT !.began = minute, !.lost = FALSE, !.fatal = FALSE,
                          !.halt = IF kill # NoValue THEN minute ELSE @]
  /\ UNCHANGED <<minute, master, net, check, events>>

Ends(fatal, due) == [past EXCEPT !.died = minute, !.fatal = fatal, !.due = due]

(* _maybe_heartbeat.                                                       *)
BeatsUnhalted == ~Killed /\ minute - proc.beat >= Interval
Beats == minute - proc.beat >= Interval

(* One pass of run's loop: _iteration, then the heartbeat, in one go       *)
(* unless the iteration awaits, and also after the iteration that ends it. *)
Pass ==
  /\ proc.up
  /\ \E raises \in BOOLEAN, drops \in 0..MaxDrops :
       LET errors == IF Killed THEN proc.errors ELSE IF raises THEN proc.errors + 1 ELSE 0
           fatal == ~Killed /\ errors >= MaxErrors
           failed == IF fatal THEN Pinged(check, Send(drops), FALSE, "") ELSE check
       IN  /\ Killed => ~raises
           /\ check' = IF Beats THEN Pinged(failed, Send(drops), TRUE, HaltNote) ELSE failed
           /\ proc' = IF fatal THEN Down
                      ELSE [proc EXCEPT !.errors = errors, !.beat = IF Beats THEN minute ELSE @]
           /\ past' = [IF fatal THEN Ends(TRUE, Beats) ELSE past
                         EXCEPT !.lost = @ \/ ((Beats \/ fatal) /\ ~net)]
  /\ looped' = looped \cup {"loop"}
  /\ UNCHANGED <<minute, kill, master, net, events>>

(* _emergency_close_all, the notification: not twice within the cooldown.  *)
Notifies == proc.notified = NoValue \/ minute - proc.notified >= Cooldown

EmergencyPing(sent) ==
  /\ check' = IF Notifies THEN Pinged(check, sent, TRUE, "halted") ELSE check
  /\ proc' = [proc EXCEPT !.notified = IF Notifies THEN minute ELSE @, !.handled = Killed]
  /\ past' = [past EXCEPT !.lost = @ \/ (Notifies /\ ~net),
                          !.halt = IF Killed THEN @ ELSE minute]

(* _check_positions: the monitor sees a kill file for the first time, or   *)
(* goes on.                                                                *)
MonitorSees ==
  /\ proc.up /\ kill # "stale"
  /\ IF Killed /\ ~proc.handled THEN \E drops \in 0..MaxDrops : EmergencyPing(Send(drops))
     ELSE proc' = [proc EXCEPT !.handled = Killed] /\ UNCHANGED <<check, past>>
  /\ looped' = looped \cup {"monitor"}
  /\ UNCHANGED <<minute, kill, master, net, events>>

(* The drawdown limit is reached: everything is closed, then the kill file *)
(* is written.                                                             *)
MonitorHalts ==
  /\ proc.up /\ ~Killed
  /\ \E drops \in 0..MaxDrops : EmergencyPing(Send(drops))
  /\ kill' = "dd"
  /\ looped' = looped \cup {"monitor"}
  /\ UNCHANGED <<minute, master, net, events>>

(* _maybe_auto_clear_dd_halt after midnight: lifted, or made sticky.       *)
MonitorRearms ==
  /\ proc.up /\ kill = "stale"
  /\ kill' \in {NoValue, "sticky"}
  /\ past' = [past EXCEPT !.halt = minute]
  /\ UNCHANGED <<minute, looped, proc, master, net, check, events>>

-----------------------------------------------------------------------------
(* SIGTERM or a crash.                                                     *)
Stops ==
  /\ proc.up /\ events < MaxEvents
  /\ proc' = Down /\ events' = events + 1
  /\ past' = Ends(FALSE, FALSE)
  /\ UNCHANGED <<minute, looped, kill, master, net, check>>

(* A person creates or removes a kill file.                                *)
Operator ==
  /\ events < MaxEvents /\ events' = events + 1
  /\ \/ kill' \in {NoValue, "sticky"} /\ kill' # kill /\ UNCHANGED master
     \/ master' = ~master /\ UNCHANGED kill
  /\ past' = [past EXCEPT !.halt = minute]
  /\ UNCHANGED <<minute, looped, proc, net, check>>

NetChanges ==
  /\ events < MaxEvents /\ events' = events + 1
  /\ net' = ~net
  /\ UNCHANGED <<minute, looped, proc, kill, master, check, past>>

(* Five minutes, in which a running process comes round many times.        *)
Tick ==
  /\ minute < MaxMinutes /\ (proc.up => looped = {"loop", "monitor"})
  /\ minute' = minute + 1 /\ looped' = {}
  /\ kill' \in IF kill = "dd" THEN {"dd", "stale"} ELSE {kill}
  /\ UNCHANGED <<proc, master, net, check, events, past>>

AlarmNext ==
  \/ Launch \/ Pass \/ MonitorSees \/ MonitorHalts \/ MonitorRearms
  \/ Stops \/ Operator \/ NetChanges \/ Tick

AlarmSpec == AlarmInit /\ [][AlarmNext]_watchVars

-----------------------------------------------------------------------------
ShownUp == check.at # NoValue /\ check.up /\ minute - check.at <= Period

Settled(since) == proc.up /\ ~past.lost /\ minute > past.began + Interval /\ minute > since + Interval

(* "Halted-but-alive must never look like downtime": a process that has    *)
(* run for an interval is shown up, through halts, errors and blips of the *)
(* network, unless it pinged while there was none.                         *)
AliveIsUp == Settled(0) => ShownUp

(* And what is shown says whether it trades.                               *)
HaltIsShown ==
  Settled(past.halt) => check.note \in (IF Killed THEN {HaltNote, "halted"} ELSE {""})

(* A process that ended is shown down after the period, and one that ended *)
(* with its errors at once, but when a heartbeat fell due in that pass:    *)
(* then the success ping that follows the failure hides it for a period.   *)
DeadIsDown ==
  /\ ~proc.up /\ minute > past.died + Period => ~ShownUp
  /\ ~proc.up /\ past.fatal /\ ~past.due /\ ~past.lost => ~ShownUp

AlarmTrue == AliveIsUp /\ HaltIsShown /\ DeadIsDown
=============================================================================
