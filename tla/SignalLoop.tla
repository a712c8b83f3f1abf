----------------------------- MODULE SignalLoop -----------------------------
(***************************************************************************)
(* The signal coroutine: one iteration of SignalLoop.run, suspended        *)
(* wherever it awaits the broker.  What the alphas find in a new bar is    *)
(* left open; the sizing and the portfolio ceiling may refuse any signal.  *)
(***************************************************************************)
EXTENDS AgentState

(* The coroutine is at this await, and the monitor awaits something too.   *)
At(place) == sig.pc = place /\ mon.pc \in MonitorAwaits

Step(place) == sig' = [sig EXCEPT !.pc = place]

(* Done with a signal: there may be another alpha for this bar, another    *)
(* timeframe, or the iteration is over.                                    *)
Onward(places) == \E place \in places : sig' = [pc |-> place, ticket |-> {}]

(* The only kill check of an iteration is at its top.                      *)
Iterate ==
  /\ At("idle")
  /\ ~kill
  /\ Step("bars")
  /\ UNCHANGED <<broker, kill, mem, guard, disk, mon, used>>

(* A bar not seen before is noted on disk before it is looked at.          *)
NewBar ==
  /\ At("bars")
  /\ disk' = Snapshot(mem, guard)
  /\ Step("account")
  /\ UNCHANGED <<broker, kill, mem, guard, mon, used>>

NoNewBar ==
  /\ At("bars")
  /\ Onward({"idle", "bars"})
  /\ UNCHANGED <<broker, kill, mem, guard, disk, mon, used>>

(* No signal, or one that the guard, the risk manager, its size or the     *)
(* portfolio ceiling turns away.                                           *)
NoSignal ==
  /\ At("account") \/ At("positions")
  /\ Onward({"idle", "bars", "account"})
  /\ UNCHANGED <<broker, kill, mem, guard, disk, mon, used>>

(* pre_trade_check, once the account is read.                              *)
PreTradeCheck ==
  /\ At("account")
  /\ ~guard.cooling
  /\ Step("positions")
  /\ UNCHANGED <<broker, kill, mem, guard, disk, mon, used>>

(* Slip: the order goes out whatever the position read shows.              *)
EvaluateAnyway ==
  /\ At("positions")
  /\ Step("order")
  /\ UNCHANGED <<broker, kill, mem, guard, disk, mon, used>>

(* RiskManager.evaluate: no position of this symbol may be read open.      *)
Evaluate ==
  /\ At("positions")
  /\ Visible = {}
  /\ Step("order")
  /\ UNCHANGED <<broker, kill, mem, guard, disk, mon, used>>

(* place_order: the broker fills the order ...                             *)
Filled(t) ==
  /\ At("order")
  /\ status[t] = "free"
  /\ status' = [status EXCEPT ![t] = "open"]
  /\ own' = own \cup {t}
  /\ sig' = [pc |-> "filled", ticket |-> {t}]
  /\ UNCHANGED <<blip, kill, mem, guard, disk, mon, used>>

Rejected ==
  /\ At("order")
  /\ Onward({"idle", "bars", "account"})
  /\ UNCHANGED <<broker, kill, mem, guard, disk, mon, used>>

(* ... and the loop learns of it: register_entry, persist.                 *)
RegisterEntry(t) ==
  /\ At("filled")
  /\ t \in sig.ticket
  /\ mem' = [mem EXCEPT !.ctx = @ \cup {t}, !.exc = @ \cup {t}]
  /\ disk' = Snapshot(mem', guard)
  /\ Onward({"idle", "bars", "account"})
  /\ UNCHANGED <<broker, kill, guard, mon, used>>

SignalStep ==
  \/ Iterate
  \/ NewBar
  \/ NoNewBar
  \/ NoSignal
  \/ PreTradeCheck
  \/ Evaluate
  \/ \E t \in Tickets : Filled(t)
  \/ Rejected
  \/ \E t \in Tickets : RegisterEntry(t)
=============================================================================
