---------------------------- MODULE GuardSession ----------------------------
(***************************************************************************)
(* One symbol's post-loss guard over its life: entries it admits, closes   *)
(* the monitor reports to it, closes that turn out to be phantom (the      *)
(* ticket vanished from a bad position read and comes back), UTC days and  *)
(* restarts from the state sidecar.  `truth` is history: what the reported *)
(* closes that really happened today add up to, and whether any close      *)
(* reported so far was a phantom one.                                      *)
(***************************************************************************)
EXTENDS PostLossGuard

CONSTANTS
  Tickets,      \* slots for the tickets of this symbol
  Phantoms,     \* outcomes a vanished ticket is recorded with; {}: no contention
  MaxNow,       \* bound: last clock slot
  MaxLosses     \* bound: no further loss is explored at this streak

ASSUME SessionAssumption ==
  /\ Phantoms \subseteq Outcomes
  /\ MaxNow \in Nat
  /\ MaxLosses \in Nat

VARIABLES
  guard,    \* SignalLoop.post_loss_guard
  saved,    \* its section of state.json
  now,      \* the UTC clock
  blip,     \* the terminal answers position reads with an empty list
  ticket,   \* per slot: none, open, or lost (recorded closed, still open)
  truth     \* history: today's real closes, and whether one was ever phantom

vars == <<guard, saved, now, blip, ticket, truth>>

(* `entry` remembers how a ticket came to be open: through the guard, with *)
(* a strong or a weak candidate, or from outside the process.              *)
Free == [status |-> "none", direction |-> NoDirection, outcome |-> "scratch",
         entry |-> "outside"]

Slots == [status: {"none", "open", "lost"},
          direction: Directions \cup {NoDirection},
          outcome: Outcomes,
          entry: {"outside", "weak", "strong"}]

NothingLost(phantom) == [losses |-> 0, stopOut |-> FALSE, until |-> 0,
                         direction |-> NoDirection, phantom |-> phantom]

Truths == [losses: Nat, stopOut: BOOLEAN, until: Nat,
           direction: Directions \cup {NoDirection}, phantom: BOOLEAN]

TypeOK ==
  /\ guard \in Guards
  /\ saved \in Guards
  /\ now \in Nat
  /\ blip \in BOOLEAN
  /\ ticket \in [Tickets -> Slots]
  /\ truth \in Truths

Init ==
  /\ guard = FreshGuard
  /\ saved = FreshGuard
  /\ now = 0
  /\ blip = FALSE
  /\ ticket = [t \in Tickets |-> Free]
  /\ truth = NothingLost(FALSE)

-----------------------------------------------------------------------------
(* The one position per symbol that RiskManager.evaluate allows, as far as *)
(* the position read shows.                                                *)
NoPositionRead == blip \/ \A u \in Tickets : ticket[u].status = "none"

(* SignalLoop._route_signal: pre_trade_check, then the position check, the *)
(* fill and the persist.                                                   *)
Enter(t, direction, strong) ==
  LET rolled == RollDay(guard, now)
  IN /\ ticket[t].status = "none"
     /\ EntryAllowed(rolled, strong, direction, now)
     /\ NoPositionRead
     /\ ticket' = [ticket EXCEPT ![t] = [Free EXCEPT !.status = "open",
                                                     !.direction = direction,
                                                     !.entry =
                          IF strong THEN "strong" ELSE "weak"]]
     /\ guard' = rolled
     /\ saved' = rolled
     /\ UNCHANGED <<now, blip, truth>>

(* A candidate turned away, by the guard, by the risk manager, for its size *)
(* or by the broker: only the day roll happens, in memory.                 *)
Refuse ==
  /\ guard' = RollDay(guard, now)
  /\ UNCHANGED <<saved, now, blip, ticket, truth>>

(* A ticket opened outside the process is taken over; no gate applies.     *)
Adopt(t, direction) ==
  /\ ticket[t].status = "none"
  /\ ~blip
  /\ ticket' = [ticket EXCEPT ![t] = [Free EXCEPT !.status = "open",
                                                  !.direction = direction]]
  /\ saved' = guard
  /\ UNCHANGED <<guard, now, blip, truth>>

(* SignalLoop._on_trade_closed: register, persist.                         *)
Report(t, outcome) ==
  /\ guard' = RegisterClose(guard, outcome, ticket[t].direction, now)
  /\ saved' = guard'

HappenedToday(outcome, direction) ==
  IF outcome \in Losses
    THEN [losses    |-> truth.losses + 1,
          stopOut   |-> truth.stopOut \/ outcome = "catastrophe",
          until     |-> now + CooldownSlots,
          direction |-> direction,
          phantom   |-> truth.phantom]
  ELSE IF outcome = "win" THEN [truth EXCEPT !.losses = 0] ELSE truth

(* The broker closed the ticket, or the agent did: the monitor reports it. *)
Close(t, outcome) ==
  /\ ticket[t].status = "open"
  /\ outcome \in Losses => /\ guard.consecutive_losses < MaxLosses
                           /\ truth.losses < MaxLosses
  /\ Report(t, outcome)
  /\ truth' = HappenedToday(outcome, ticket[t].direction)
  /\ ticket' = [ticket EXCEPT ![t] = Free]
  /\ UNCHANGED <<now, blip>>

(* The ticket is missing from an empty read: reported closed, still open.  *)
Vanish(t, outcome) ==
  /\ blip
  /\ ticket[t].status = "open"
  /\ outcome \in Losses => guard.consecutive_losses < MaxLosses
  /\ Report(t, outcome)
  /\ ticket' = [ticket EXCEPT ![t].status = "lost", ![t].outcome = outcome]
  /\ truth' = [truth EXCEPT !.phantom = TRUE]
  /\ UNCHANGED <<now, blip>>

(* SignalLoop._on_trade_reopened: the lost ticket is read again.           *)
Reopen(t) ==
  /\ ~blip
  /\ ticket[t].status = "lost"
  /\ guard' = RevertClose(guard, ticket[t].outcome, ticket[t].direction, now)
  /\ saved' = guard'
  /\ ticket' = [ticket EXCEPT ![t].status = "open", ![t].outcome = "scratch"]
  /\ UNCHANGED <<now, blip, truth>>

(* The record of a lost ticket is pruned before the ticket is read again:  *)
(* it is adopted as a stranger and nothing is reverted.                    *)
Lapse(t) ==
  /\ ~blip
  /\ ticket[t].status = "lost"
  /\ ticket' = [ticket EXCEPT ![t].status = "open", ![t].outcome = "scratch"]
  /\ saved' = guard
  /\ UNCHANGED <<guard, now, blip, truth>>

(* A lost ticket closes at the broker: nobody hears of it any more.        *)
CloseUnheard(t) ==
  /\ ticket[t].status = "lost"
  /\ ticket' = [ticket EXCEPT ![t] = Free]
  /\ UNCHANGED <<guard, saved, now, blip, truth>>

Blip ==
  /\ Phantoms # {}
  /\ blip' = ~blip
  /\ UNCHANGED <<guard, saved, now, ticket, truth>>

(* The process dies and its successor restores the sidecar.  A ticket that *)
(* was closed in between is dropped by the initial scan without a report.  *)
Restart(gone) ==
  /\ \A t \in gone : ticket[t].status = "open"
  /\ guard' = RestoreGuard(saved, now)
  /\ ticket' = [t \in Tickets |-> IF t \in gone THEN Free ELSE ticket[t]]
  /\ UNCHANGED <<saved, now, blip, truth>>

Tick ==
  /\ now < MaxNow
  /\ now' = now + 1
  /\ truth' = IF Day(now') = Day(now) THEN truth
              ELSE NothingLost(truth.phantom)
  /\ UNCHANGED <<guard, saved, blip, ticket>>

Next ==
  \/ \E t \in Tickets, d \in Directions, s \in BOOLEAN : Enter(t, d, s)
  \/ Refuse
  \/ \E t \in Tickets, d \in Directions \cup {NoDirection} : Adopt(t, d)
  \/ \E t \in Tickets, o \in Outcomes : Close(t, o)
  \/ \E t \in Tickets, o \in Phantoms : Vanish(t, o)
  \/ \E t \in Tickets : Reopen(t) \/ Lapse(t) \/ CloseUnheard(t)
  \/ Blip
  \/ \E gone \in SUBSET Tickets : Restart(gone)
  \/ Tick

Spec == Init /\ [][Next]_vars

-----------------------------------------------------------------------------
(* The guard as its next caller finds it: every call rolls the day first.  *)
Current == RollDay(guard, now)

(* What must hold of every guard record, live or saved.                    *)
BreakerTripped(g) == g.consecutive_losses >= MaxConsecutiveLosses => g.session_halted
SizeMatches(g) == g.size = "reduced" <=> g.consecutive_losses > 0
ReasonMatches(g) == g.session_halted <=> g.halt_reason # "none"

(* A guard at or over the consecutive-loss limit has halted the session,   *)
(* whatever sequence of closes, phantom closes, reverts, rollovers and     *)
(* restarts led there (register_close and revert_close move the streak and *)
(* the halt in separate statements).                                       *)
BreakerHolds == BreakerTripped(Current) /\ BreakerTripped(saved)

(* The next trade is sized down exactly while a loss streak is standing,   *)
(* across phantom reverts and restarts too (size and streak are kept apart *)
(* and are cleared by different statements).                               *)
SizeFollowsStreak == SizeMatches(Current) /\ SizeMatches(saved)

(* Until a phantom close is reported, every real loss since the day's last *)
(* win is still counted, by whatever restarts and rollovers the streak was *)
(* carried.                                                                *)
LossesCounted == ~truth.phantom => truth.losses <= Current.consecutive_losses

(* ... and after a catastrophic loss the session stays halted for the rest *)
(* of the UTC day.                                                         *)
StopOutHalts == ~truth.phantom /\ truth.stopOut => Current.session_halted

(* ... and after a real loss no entry goes through the guard until the     *)
(* cooldown of that loss has run out, a strong one against its direction   *)
(* excepted.                                                               *)
Admitted(t) == ticket[t].status = "none" /\ ticket'[t].entry # "outside"

NoRevengeEntry ==
  [][\A t \in Tickets :
       Admitted(t) /\ now < truth.until /\ ~truth.phantom =>
         /\ ticket'[t].entry = "strong"
         /\ ticket'[t].direction # truth.direction]_vars

(* What the documentation says of phantom closes too: "A catastrophic/     *)
(* stop-out halt is NOT auto-reverted".                                    *)
StopOutStands == truth.stopOut => Current.session_halted
=============================================================================
