------------------------------- MODULE DDHalt -------------------------------
(***************************************************************************)
(* The life of one symbol's kill file: the daily-drawdown halt that writes *)
(* it, the monitor's self-recovery that removes it after the UTC rollover  *)
(* or makes it sticky, the start-up preflight, and an operator who writes  *)
(* and deletes files at any time.  A file is what the classifiers of       *)
(* agent/utils.py see of it: who it reads as written by, and its date.     *)
(***************************************************************************)
EXTENDS Integers

CONSTANTS
  StickyAfter,    \* RiskManager.DD_HALT_STICKY_AFTER_DAYS
  OperatorRaces,  \* the operator may act between a file's read and its unlink
  MaxDay,         \* bound: last UTC day
  MaxCrashes,     \* bound: process deaths
  MaxFaults       \* bound: file operations that raise OSError

ASSUME HaltAssumption ==
  /\ StickyAfter \in Nat \ {0}
  /\ OperatorRaces \in BOOLEAN
  /\ MaxDay \in Nat
  /\ MaxCrashes \in Nat
  /\ MaxFaults \in Nat

VARIABLES
  day,        \* the UTC date
  file,       \* LiveConfig.kill_file
  master,     \* Config.kill_switch_file exists
  proc,       \* where the process is, see Places
  halt_date,  \* the date the monitor read from the file
  memory,     \* RiskManager.recovery
  saved,      \* its section of state.json
  crashes, faults,
  cleared     \* history: halt dates whose file the program itself removed

vars == <<day, file, master, proc, halt_date, memory, saved, crashes, faults, cleared>>
world == <<day, file, master>>
budget == <<crashes, faults>>

NoFile == [kind |-> "none", day |-> 0]
Files == [kind: {"none", "dd", "sticky", "manual"}, day: Nat]

(* down; between two monitor cycles; awaiting the closes of a drawdown     *)
(* halt; about to unlink; about to rewrite; about to persist.              *)
Places == {"down", "idle", "closing", "clearing", "escalating", "unsaved"}

Fresh == [halt_dates |-> {}, escalated |-> FALSE]
Recoveries == [halt_dates: SUBSET Nat, escalated: BOOLEAN]

TypeOK ==
  /\ day \in Nat
  /\ file \in Files
  /\ master \in BOOLEAN
  /\ proc \in Places
  /\ halt_date \in Nat
  /\ memory \in Recoveries
  /\ saved \in Recoveries
  /\ crashes \in Nat
  /\ faults \in Nat
  /\ cleared \in SUBSET Nat

Init ==
  /\ day = 0
  /\ file = NoFile
  /\ master = FALSE
  /\ proc = "down"
  /\ halt_date = 0
  /\ memory = Fresh
  /\ saved = Fresh
  /\ crashes = 0
  /\ faults = 0
  /\ cleared = {}

-----------------------------------------------------------------------------
Halted == file.kind # "none" \/ master

(* Slip: a halt is stale on its very day.                                  *)
StaleSameDay == file.kind = "dd" /\ file.day <= day

(* is_daily_dd_auto_kill and a date before today.                          *)
Stale == file.kind = "dd" /\ file.day < day

(* consecutive_dd_halt_days >= DD_HALT_STICKY_AFTER_DAYS: the run of       *)
(* calendar days that ends at the last recorded one.                       *)
Thrashing(dates) ==
  \E last \in dates :
    /\ \A d \in dates : d <= last
    /\ \A i \in 0 .. StickyAfter - 1 : last - i \in dates

Fault == faults < MaxFaults /\ faults' = faults + 1

(* _check_daily_dd finds the limit breached: the closes are awaited.       *)
Breach ==
  /\ proc = "idle"
  /\ ~Halted
  /\ proc' = "closing"
  /\ UNCHANGED <<world, halt_date, memory, saved, budget, cleared>>

(* Slip: the file is stamped with a date behind UTC.                       *)
WriteKillBehind ==
  /\ proc = "closing"
  /\ proc' = "idle"
  /\ file' = IF file.kind = "none" THEN [kind |-> "dd", day |-> day - 1] ELSE file
  /\ UNCHANGED <<day, master, halt_date, memory, saved, budget, cleared>>

(* ... and the kill file is written afterwards, unless there is one.       *)
WriteKill ==
  /\ proc = "closing"
  /\ proc' = "idle"
  /\ file' = IF file.kind = "none" THEN [kind |-> "dd", day |-> day] ELSE file
  /\ UNCHANGED <<day, master, halt_date, memory, saved, budget, cleared>>

(* Slip: a day already on record is not looked at again.                   *)
InspectOnce ==
  /\ proc = "idle"
  /\ Stale
  /\ file.day \notin memory.halt_dates
  /\ halt_date' = file.day
  /\ LET dates  == memory.halt_dates \cup {file.day}
         sticky == memory.escalated \/ Thrashing(dates)
     IN /\ memory' = [halt_dates |-> dates, escalated |-> sticky]
        /\ proc' = IF sticky THEN "escalating" ELSE "clearing"
  /\ UNCHANGED <<world, saved, budget, cleared>>

(* _maybe_auto_clear_dd_halt reads the file; evaluate_dd_halt_rollover     *)
(* records its day and decides.  Same day: hold, nothing changes.          *)
Inspect ==
  /\ proc = "idle"
  /\ Stale
  /\ halt_date' = file.day
  /\ LET dates  == memory.halt_dates \cup {file.day}
         sticky == memory.escalated \/ Thrashing(dates)
     IN /\ memory' = [halt_dates |-> dates, escalated |-> sticky]
        /\ proc' = IF sticky THEN "escalating" ELSE "clearing"
  /\ UNCHANGED <<world, saved, budget, cleared>>

Clear ==
  /\ proc = "clearing"
  /\ file.kind # "none"
  /\ file' = NoFile
  /\ cleared' = cleared \cup {halt_date}
  /\ proc' = "unsaved"
  /\ UNCHANGED <<day, master, halt_date, memory, saved, budget>>

(* The unlink raises: the file is gone already, or stays.                  *)
ClearFails ==
  /\ proc = "clearing"
  /\ proc' = "idle"
  /\ IF file.kind = "none" THEN UNCHANGED faults ELSE Fault
  /\ UNCHANGED <<world, halt_date, memory, saved, crashes, cleared>>

Escalate ==
  /\ proc = "escalating"
  /\ file' = [kind |-> "sticky", day |-> day]
  /\ proc' = "unsaved"
  /\ UNCHANGED <<day, master, halt_date, memory, saved, budget, cleared>>

EscalateFails ==
  /\ proc = "escalating"
  /\ Fault
  /\ proc' = "unsaved"
  /\ UNCHANGED <<world, halt_date, memory, saved, crashes, cleared>>

(* SignalLoop._persist_state, after a recovery or after any trade event.   *)
Persist ==
  /\ proc \in {"idle", "closing", "unsaved"}
  /\ saved' = memory
  /\ proc' = IF proc = "unsaved" THEN "idle" ELSE proc
  /\ UNCHANGED <<world, halt_date, memory, budget, cleared>>

PersistFails ==
  /\ proc = "unsaved"
  /\ Fault
  /\ proc' = "idle"
  /\ UNCHANGED <<world, halt_date, memory, saved, crashes, cleared>>

Crash ==
  /\ proc # "down"
  /\ crashes < MaxCrashes
  /\ crashes' = crashes + 1
  /\ proc' = "down"
  /\ memory' = Fresh
  /\ UNCHANGED <<world, halt_date, saved, faults, cleared>>

(* Slip: the preflight does not ask whether the symbol has escalated.      *)
StartIgnoresLatch ==
  /\ proc = "down"
  /\ ~master
  /\ file.kind = "none" \/ Stale
  /\ file' = NoFile
  /\ cleared' = IF file.kind = "none" THEN cleared ELSE cleared \cup {file.day}
  /\ memory' = saved
  /\ proc' = "idle"
  /\ UNCHANGED <<day, master, halt_date, saved, budget>>

(* _preflight_kill_switch, then _restore_state: a stale halt that has not  *)
(* escalated is removed on the spot; any other file refuses the start.     *)
Start ==
  /\ proc = "down"
  /\ ~master
  /\ file.kind = "none" \/ (Stale /\ ~saved.escalated)
  /\ file' = NoFile
  /\ cleared' = IF file.kind = "none" THEN cleared ELSE cleared \cup {file.day}
  /\ memory' = saved
  /\ proc' = "idle"
  /\ UNCHANGED <<day, master, halt_date, saved, budget>>

-----------------------------------------------------------------------------
OperatorFree == OperatorRaces \/ proc \notin {"clearing", "escalating"}

OperatorStops ==
  /\ OperatorFree
  /\ file' = [kind |-> "manual", day |-> day]
  /\ UNCHANGED <<day, master, proc, halt_date, memory, saved, budget, cleared>>

OperatorResumes ==
  /\ OperatorFree
  /\ file.kind # "none"
  /\ file' = NoFile
  /\ UNCHANGED <<day, master, proc, halt_date, memory, saved, budget, cleared>>

OperatorMaster ==
  /\ master' = ~master
  /\ UNCHANGED <<day, file, proc, halt_date, memory, saved, budget, cleared>>

NextDay ==
  /\ day < MaxDay
  /\ day' = day + 1
  /\ UNCHANGED <<file, master, proc, halt_date, memory, saved, budget, cleared>>

Monitor ==
  \/ WriteKill
  \/ Inspect
  \/ Clear \/ ClearFails
  \/ Escalate \/ EscalateFails
  \/ Persist \/ PersistFails

Next ==
  \/ Monitor
  \/ Breach
  \/ Crash
  \/ Start
  \/ OperatorStops \/ OperatorResumes \/ OperatorMaster
  \/ NextDay

Spec == Init /\ [][Next]_vars

(* The monitor's cycle runs every few seconds for as long as the process   *)
(* lives, and swallows what it raises.                                     *)
Fairness ==
  /\ WF_vars(WriteKill)
  /\ WF_vars(Inspect)
  /\ WF_vars(Clear \/ ClearFails)
  /\ WF_vars(Escalate \/ EscalateFails)
  /\ WF_vars(proc = "unsaved" /\ (Persist \/ PersistFails))

FairSpec == Spec /\ Fairness

-----------------------------------------------------------------------------
(* The steps of the program, apart from the operator's and the clock's.    *)
ByProgram == proc' # proc

Overdue == file.kind = "dd" /\ file.day < day

(* The program removes or rewrites a kill file only if it is its own clean *)
(* daily halt of an earlier day: "a human-created kill file or any other   *)
(* auto-kill stays sticky forever" (_maybe_auto_clear_dd_halt).            *)
OnlyStaleHaltTouched ==
  [][ByProgram /\ file.kind # "none" /\ file' # file => Overdue]_vars

(* Once the thrash guard has latched, in memory or on disk, no step of the *)
(* program lifts a halt, whatever crashes and failed rewrites follow.      *)
Latched == memory.escalated \/ saved.escalated

EscalationStands ==
  [][Latched /\ ByProgram /\ file'.kind = "none" => file.kind = "none"]_vars

(* "Stop silently re-arming": the program never lifts by itself the halts  *)
(* of StickyAfter consecutive days.                                        *)
NoSilentThrash ==
  ~\E last \in cleared : \A i \in 0 .. StickyAfter - 1 : last - i \in cleared

(* A stale daily halt does not blind a live process for ever: it is lifted *)
(* or made sticky, though removing and rewriting it may fail.              *)
StaleHaltResolved == (proc # "down" /\ Overdue) ~> (proc = "down" \/ ~Overdue)
=============================================================================
