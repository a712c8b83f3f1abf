------------------------------ MODULE BrokerLink ------------------------------
(***************************************************************************)
(* The link to the MT5 terminal, which the monitor and the signal loop of  *)
(* a process share: one channel bound to one terminal process, one cache   *)
(* of symbol names.  Calls run in threads, so a step is the code between   *)
(* two awaits, and the monitor's reconnect interleaves with the loop's     *)
(* calls.  Nobody closes the position that is open throughout.             *)
(***************************************************************************)
EXTENDS Integers

CONSTANTS
  ReconnectAfter,  \* _RECONNECT_AFTER_READ_FAILURES
  MaxTerminals,    \* bound: terminal processes started
  MaxOutages       \* bound: times the terminal loses the broker

VARIABLES
  term,      \* the terminal process: its number, running, connected to the broker
  bound,     \* the terminal process the MT5 package is bound to, or 0
  name,      \* live_config.symbol: the base name, or the broker's
  cache,     \* _resolved_symbols
  looking,   \* a name found in a thread and not yet cached, per coroutine
  boot,      \* where SignalLoop.run is before the coroutines start
  mon,       \* where the monitor is, and _account_read_failures
  sig,       \* where the signal loop is
  torn       \* history: the link changed between the loop's last two reads

linkVars == <<term, bound, name, cache, looking, boot, mon, sig, torn>>

Coroutines == {"monitor", "loop"}
Names == {"base", "full"}
None == "none"
NoNames == [n \in Names |-> None]

LinkInit ==
  /\ term = [number |-> 1, running |-> TRUE, online |-> TRUE, outages |-> 0]
  /\ bound = 0
  /\ name = "base"
  /\ cache = NoNames
  /\ looking = [c \in Coroutines |-> None]
  /\ boot = "connect"
  /\ mon = [pc |-> "positions", failures |-> 0]
  /\ sig = "idle"
  /\ torn = FALSE

-----------------------------------------------------------------------------
(* A channel answers when the terminal it was bound to still runs; its     *)
(* account and its positions can be read when it is online as well.        *)
Answers == term.running /\ bound = term.number

Readable == Answers /\ term.online

Tears == torn' = (torn \/ sig # "order")

TerminalDies ==
  /\ term.running /\ term.number < MaxTerminals
  /\ term' = [term EXCEPT !.running = FALSE]
  /\ Tears
  /\ UNCHANGED <<bound, name, cache, looking, boot, mon, sig>>

TerminalStarts ==
  /\ ~term.running
  /\ term' = [term EXCEPT !.running = TRUE, !.number = @ + 1]
  /\ UNCHANGED <<bound, name, cache, looking, boot, mon, sig, torn>>

GoesOffline ==
  /\ term.online /\ term.outages < MaxOutages
  /\ term' = [term EXCEPT !.online = FALSE, !.outages = @ + 1]
  /\ Tears
  /\ UNCHANGED <<bound, name, cache, looking, boot, mon, sig>>

ComesBack ==
  /\ ~term.online
  /\ term' = [term EXCEPT !.online = TRUE]
  /\ Tears
  /\ UNCHANGED <<bound, name, cache, looking, boot, mon, sig>>

-----------------------------------------------------------------------------
(* initialize and login: bound to the terminal that runs, if one does.     *)
Initialised == IF term.running THEN term.number ELSE 0

Connected == term.running /\ term.online

(* _connect_with_retry, then _resolve_and_verify_symbol and create_task.   *)
BootConnect ==
  /\ boot = "connect"
  /\ bound' = Initialised
  /\ boot' = IF Connected THEN "resolve" ELSE "connect"
  /\ UNCHANGED <<term, name, cache, looking, mon, sig, torn>>

(* The last of max_reconnect_attempts failed, whichever that is.           *)
BootGivesUp ==
  /\ boot = "connect" /\ ~Connected
  /\ boot' = "exited"
  /\ UNCHANGED <<term, bound, name, cache, looking, mon, sig, torn>>

(* _resolve_symbol_sync: the name asked for when nothing is found.         *)
Lookup(n) == IF Answers THEN "full" ELSE n

BootResolve ==
  /\ boot = "resolve"
  /\ name' = Lookup(name)
  /\ cache' = [cache EXCEPT ![name] = Lookup(name)]
  /\ boot' = IF Lookup(name) = "full" THEN "verified" ELSE "unverified"
  /\ UNCHANGED <<term, bound, looking, mon, sig, torn>>

Running == boot \in {"verified", "unverified"}

(* resolve_symbol: cached, or looked up in a thread and then cached.       *)
Finds(c) ==
  /\ Running
  /\ cache[name] = None /\ looking[c] = None
  /\ looking' = [looking EXCEPT ![c] = Lookup(name)]
  /\ UNCHANGED <<term, bound, name, cache, boot, mon, sig, torn>>

Caches(c) ==
  /\ looking[c] # None
  /\ cache' = [cache EXCEPT ![name] = looking[c]]
  /\ looking' = [looking EXCEPT ![c] = None]
  /\ UNCHANGED <<term, bound, name, boot, mon, sig, torn>>

(* The next call of a coroutine finds a name.                              *)
Resolved(c) == Running /\ looking[c] = None /\ cache[name] # None

(* A read of the symbol's positions shows the one that is open.            *)
Seen == Readable /\ cache[name] = "full"

-----------------------------------------------------------------------------
(* _check_positions: positions, then the account; every further streak of  *)
(* failures of the same length brings one reconnect.                       *)
MonitorPositions ==
  /\ mon.pc = "positions"
  /\ Resolved("monitor")
  /\ mon' = [mon EXCEPT !.pc = "account"]
  /\ UNCHANGED <<term, bound, name, cache, looking, boot, sig, torn>>

(* Slip: only the first streak brings a reconnect.                         *)
StreakFirst(failures) == failures = ReconnectAfter

Streak(failures) == failures % ReconnectAfter = 0

(* The count is kept modulo two streaks: that one more than a streak is    *)
(* not the first is all that tells the counts apart.                       *)
Counted == IF mon.failures = 2 * ReconnectAfter THEN ReconnectAfter + 1 ELSE mon.failures + 1

MonitorAccount ==
  /\ mon.pc = "account"
  /\ mon' = IF Readable THEN [pc |-> "positions", failures |-> 0]
            ELSE [pc |-> IF Streak(Counted) THEN "shutdown" ELSE "positions",
                  failures |-> Counted]
  /\ UNCHANGED <<term, bound, name, cache, looking, boot, sig, torn>>

(* reconnect, called by _maybe_reconnect_broker.                           *)
Shutdown ==
  /\ mon.pc = "shutdown"
  /\ bound' = 0
  /\ Tears
  /\ mon' = [mon EXCEPT !.pc = "clear"]
  /\ UNCHANGED <<term, name, cache, looking, boot, sig>>

ClearNames ==
  /\ mon.pc = "clear"
  /\ cache' = NoNames
  /\ mon' = [mon EXCEPT !.pc = "initialise"]
  /\ UNCHANGED <<term, bound, name, looking, boot, sig, torn>>

Reinitialise ==
  /\ mon.pc = "initialise"
  /\ bound' = Initialised
  /\ Tears
  /\ mon' = [pc |-> "positions", failures |-> IF Connected THEN 0 ELSE mon.failures]
  /\ UNCHANGED <<term, name, cache, looking, boot, sig>>

-----------------------------------------------------------------------------
At(pc) == Running /\ looking["loop"] = None /\ sig = pc

Goto(pc) == sig' = pc

(* Bars come from an online terminal and for the right name; no bars and   *)
(* no new bar end the iteration.                                           *)
LoopBars ==
  /\ At("idle") /\ Resolved("loop")
  /\ Seen
  /\ Goto("account")
  /\ UNCHANGED <<term, bound, name, cache, looking, boot, mon, torn>>

(* Slip: an unreadable account is an account without money.                *)
AccountFabricated == Goto("positions")

(* get_account_info raises, which ends the iteration.                      *)
AccountAnswered == IF Readable THEN Goto("positions") ELSE Goto("idle")

LoopAccount ==
  /\ At("account")
  /\ AccountAnswered
  /\ torn' = FALSE
  /\ UNCHANGED <<term, bound, name, cache, looking, boot, mon>>

(* get_open_positions: None is the empty list.  With a position in sight   *)
(* there is no entry.                                                      *)
LoopPositions ==
  /\ At("positions") /\ Resolved("loop")
  /\ Goto(IF Seen THEN "idle" ELSE "order")
  /\ UNCHANGED <<term, bound, name, cache, looking, boot, mon, torn>>

(* place_order: refused without a tick, else filled.                       *)
LoopOrder ==
  /\ At("order") /\ Resolved("loop")
  /\ Goto(IF Seen THEN "filled" ELSE "idle")
  /\ UNCHANGED <<term, bound, name, cache, looking, boot, mon, torn>>

LoopRests ==
  /\ At("filled")
  /\ Goto("idle")
  /\ UNCHANGED <<term, bound, name, cache, looking, boot, mon, torn>>

Environment == TerminalDies \/ TerminalStarts \/ GoesOffline \/ ComesBack

MonitorStep ==
  \/ Finds("monitor") \/ Caches("monitor")
  \/ MonitorPositions \/ MonitorAccount \/ Shutdown \/ ClearNames \/ Reinitialise

LoopStep ==
  \/ Finds("loop") \/ Caches("loop")
  \/ LoopBars \/ LoopAccount \/ LoopPositions \/ LoopOrder \/ LoopRests

Boot == BootConnect \/ BootResolve

LinkNext == Environment \/ Boot \/ BootGivesUp \/ MonitorStep \/ LoopStep

(* asyncio runs every coroutine that can go on; the terminal promises      *)
(* nothing.                                                                *)
LinkFairness == WF_linkVars(Boot) /\ WF_linkVars(MonitorStep) /\ WF_linkVars(LoopStep)

LinkSpec == LinkInit /\ [][LinkNext]_linkVars /\ LinkFairness

-----------------------------------------------------------------------------
(* After a start that found the name, a second order goes out only if the  *)
(* link changed between the loop's read of the account and its read of the *)
(* positions: a dead link stops the iteration at the account.              *)
NoBlindOrder ==
  [][sig' = "filled" /\ sig = "order" => torn \/ boot = "unverified"]_linkVars

(* When a terminal runs and is online from some time on, the process's     *)
(* channel answers from some time on, however the terminal was replaced    *)
(* before, unless the start gave up: "re-attached automatically a minute   *)
(* after it finishes" (broker.py).                                         *)
ReadsComeBack == <>[](term.running /\ term.online) => <>[](Readable \/ boot = "exited")
=============================================================================
