---------------------------- MODULE PostLossGuard ----------------------------
(***************************************************************************)
(* agent/risk/post_loss_guard.py as operators on a guard record.  The live *)
(* loop is the only caller modelled: it always passes `now` and never a    *)
(* bar index, so the bar-counted cooldown stays unset and is left out.  An *)
(* instant is a number of clock slots, DayLength of them in a UTC day.     *)
(***************************************************************************)
EXTENDS Integers

CONSTANTS
  MaxConsecutiveLosses,  \* GuardConfig.max_consecutive_losses
  CooldownSlots,         \* GuardConfig.cooldown_minutes, in clock slots
  DayLength,             \* clock slots in one UTC day
  Directions,            \* "long" and "short"
  NoDirection            \* the direction of a close whose context was lost

ASSUME GuardAssumption ==
  /\ MaxConsecutiveLosses \in Nat \ {0}
  /\ CooldownSlots \in Nat \ {0}
  /\ DayLength \in Nat \ {0}
  /\ NoDirection \notin Directions

Day(now) == now \div DayLength

NoDay == -1
NoCooldown == 0     \* no instant precedes it, so it blocks nothing

(* How a close reads to register_close: the sign of its P&L, and whether a *)
(* loss is catastrophic (a stop-out reason, or too large a share of the    *)
(* balance).                                                               *)
Losses == {"loss", "catastrophe"}
Outcomes == Losses \cup {"win", "scratch"}

HaltReasons == {"none", "stop_out", "consecutive"}

Guards ==
  [day: Nat \cup {NoDay},
   consecutive_losses: Nat,
   size: {"full", "reduced"},
   cooldown_until: Nat,
   session_halted: BOOLEAN,
   halt_reason: HaltReasons,
   last_loss_direction: Directions \cup {NoDirection}]

FreshGuard ==
  [day |-> NoDay, consecutive_losses |-> 0, size |-> "full",
   cooldown_until |-> NoCooldown, session_halted |-> FALSE,
   halt_reason |-> "none", last_loss_direction |-> NoDirection]

(* _maybe_roll_day: the first call of a process only notes the day.        *)
RollDay(g, now) ==
  [(IF g.day \in {NoDay, Day(now)} THEN g ELSE FreshGuard)
     EXCEPT !.day = Day(now)]

RegisterLoss(g, outcome, direction, now) ==
  LET streak  == g.consecutive_losses + 1
      breaker == streak >= MaxConsecutiveLosses
      stopOut == outcome = "catastrophe"
  IN [g EXCEPT
        !.consecutive_losses  = streak,
        !.size                = "reduced",
        !.last_loss_direction = direction,
        !.cooldown_until      = now + CooldownSlots,
        !.session_halted      = @ \/ stopOut \/ breaker,
        !.halt_reason         = IF breaker THEN "consecutive"
                                ELSE IF stopOut THEN "stop_out" ELSE @]

(* Slip: every close that is no loss clears the streak.                    *)
ScratchIsAWin(g, outcome, direction, now) ==
  LET rolled == RollDay(g, now)
  IN IF outcome \in Losses THEN RegisterLoss(rolled, outcome, direction, now)
     ELSE [rolled EXCEPT !.consecutive_losses = 0, !.size = "full"]

(* Slip: a win lifts the halt together with the streak.                    *)
WinLiftsHalt(g, outcome, direction, now) ==
  LET rolled == RollDay(g, now)
  IN IF outcome \in Losses THEN RegisterLoss(rolled, outcome, direction, now)
     ELSE IF outcome = "win" THEN [FreshGuard EXCEPT !.day = Day(now)]
     ELSE rolled

RegisterClose(g, outcome, direction, now) ==
  LET rolled == RollDay(g, now)
  IN IF outcome \in Losses THEN RegisterLoss(rolled, outcome, direction, now)
     ELSE IF outcome = "win"
       THEN [rolled EXCEPT !.consecutive_losses = 0, !.size = "full"]
     ELSE rolled

(* Slip: the streak is not kept from going below zero.                     *)
RevertUnclamped(g, direction) ==
  [g EXCEPT !.consecutive_losses = @ - 1, !.cooldown_until = NoCooldown]

(* revert_close of a loss, on a guard whose day is current.                *)
RevertLoss(g, direction) ==
  LET streak == IF g.consecutive_losses > 0 THEN g.consecutive_losses - 1 ELSE 0
      lifted == /\ g.session_halted
                /\ g.halt_reason = "consecutive"
                /\ streak < MaxConsecutiveLosses
  IN [g EXCEPT
        !.consecutive_losses  = streak,
        !.size                = IF streak = 0 THEN "full" ELSE @,
        !.cooldown_until      = NoCooldown,
        !.last_loss_direction = IF @ = direction THEN NoDirection ELSE @,
        !.session_halted      = @ /\ ~lifted,
        !.halt_reason         = IF lifted THEN "none" ELSE @]

(* Slip: a revert lifts the halt without looking at the streak.            *)
RevertLiftsHalt(g, outcome, direction, now) ==
  IF outcome \in Losses
    THEN [RevertLoss(RollDay(g, now), direction)
            EXCEPT !.session_halted = FALSE, !.halt_reason = "none"]
  ELSE RollDay(g, now)

(* Slip: a revert restores the full size without looking at the streak.    *)
RevertRestoresSize(g, outcome, direction, now) ==
  IF outcome \in Losses
    THEN [RevertLoss(RollDay(g, now), direction) EXCEPT !.size = "full"]
  ELSE RollDay(g, now)

RevertClose(g, outcome, direction, now) ==
  IF outcome \in Losses THEN RevertLoss(RollDay(g, now), direction)
  ELSE RollDay(g, now)

(* _cooldown_override_ok: a strong candidate against the last loss.        *)
IsFlip(g, strong, direction) ==
  /\ strong
  /\ g.last_loss_direction # NoDirection
  /\ direction # g.last_loss_direction

(* pre_trade_check on a guard whose day is current.                        *)
InCooldown(g, now) == now < g.cooldown_until

EntryAllowed(g, strong, direction, now) ==
  /\ ~g.session_halted
  /\ InCooldown(g, now) => IsFlip(g, strong, direction)

(* Slip: the sidecar comes back without its cooldown.                      *)
RestoreForgetsCooldown(saved, now) ==
  IF saved.day = Day(now) THEN [saved EXCEPT !.cooldown_until = NoCooldown]
  ELSE FreshGuard

(* SignalLoop._restore_state: a sidecar of another UTC day is dropped.     *)
RestoreGuard(saved, now) ==
  IF saved.day = Day(now) THEN saved ELSE FreshGuard
=============================================================================
