----------------------------- MODULE DailyBudget -----------------------------
(***************************************************************************)
(* What one process may lose in a UTC day: the daily-drawdown check of     *)
(* PositionMonitor, the day state of RiskManager, and restarts.  Money is  *)
(* a whole number.  Position reads are sound here (LiveAgent has the       *)
(* others), and the kill file's later life is DDHalt's.                    *)
(***************************************************************************)
EXTENDS Integers, Sequences

CONSTANTS
  Opening,      \* the balance the account starts with
  Stop, Gain,   \* the most a ticket can lose, its broker stop, and win, its target
  Marks,        \* floating profits a ticket may show
  LimitPct,     \* LiveConfig.max_daily_dd_pct and RiskConfig.daily_dd_halt_pct
  GarbagePct,   \* PositionMonitor._MAX_PLAUSIBLE_DD_PCT
  Glitches,     \* equities a garbage account reading may show
  MaxDay,       \* bound: last UTC day
  MaxEntries,   \* bound: orders filled
  MaxRestarts   \* bound: process deaths

ASSUME DayAssumption ==
  /\ {Opening, Stop} \subseteq Nat \ {0}
  /\ Gain \in Nat
  /\ Marks \subseteq -Stop..Gain
  /\ LimitPct \in 1..100
  /\ Glitches \subseteq Int
  /\ MaxDay \in Nat

VARIABLES
  today,     \* the UTC day
  balance,   \* the account's balance
  ticket,    \* the open ticket, and closes nobody has noticed yet
  watch,     \* the monitor's _current_day and _day_start_balance
  risk,      \* RiskManager.state
  sidecar,   \* RiskManager.state in the sidecar
  killed,    \* the day the kill file was written, or NoDay
  order,     \* an order is on its way
  past,      \* history: see Past
  used       \* spent bounds

dayVars == <<today, balance, ticket, watch, risk, sidecar, killed, order, past, used>>

NoDay == -1
NoTicket == [open |-> FALSE, mark |-> 0, closed |-> <<>>]
Watch == [day |-> NoDay, start |-> 0]
RiskState == [day |-> NoDay, open |-> 0, pnl |-> 0, halted |-> FALSE]

(* dawn: the balance when the day began; restarts: process deaths today;   *)
(* booked: P&L reported today since the first evaluation of the day;        *)
(* watched: a cycle with a sound reading was completed since the last order. *)
Past == [dawn |-> Opening, restarts |-> 0, booked |-> 0, watched |-> FALSE]

Equity == balance + ticket.mark

DayInit ==
  /\ today = 0
  /\ balance = Opening
  /\ ticket = NoTicket
  /\ watch = Watch
  /\ risk = RiskState
  /\ sidecar = RiskState
  /\ killed = NoDay
  /\ order = FALSE
  /\ past = Past
  /\ used = [entries |-> 0, restarts |-> 0]

-----------------------------------------------------------------------------
(* The market: floating profit moves; the ticket closes at its broker      *)
(* stop, at its target or by hand, and is missing from the next read.      *)
Moves ==
  /\ ticket.open
  /\ \E mark \in Marks : ticket' = [ticket EXCEPT !.mark = mark]
  /\ UNCHANGED <<today, balance, watch, risk, sidecar, killed, order, past, used>>

Closes ==
  /\ ticket.open
  /\ ticket' = [open |-> FALSE, mark |-> 0, closed |-> Append(ticket.closed, ticket.mark)]
  /\ balance' = balance + ticket.mark
  /\ UNCHANGED <<today, watch, risk, sidecar, killed, order, past, used>>

Midnight ==
  /\ today < MaxDay
  /\ today' = today + 1
  /\ past' = [Past EXCEPT !.dawn = balance, !.watched = past.watched]
  /\ UNCHANGED <<balance, ticket, watch, risk, sidecar, killed, order, used>>

-----------------------------------------------------------------------------
(* RiskManager.on_new_day and record_trade_pnl.                            *)
OnNewDay(r, bal) ==
  IF r.day = today THEN r ELSE [RiskState EXCEPT !.day = today, !.open = bal]

RecordTradePnl(r, pnl) ==
  [r EXCEPT !.pnl = @ + pnl,
            !.halted = @ \/ (r.open > 0 /\ -(r.pnl + pnl) * 100 >= LimitPct * r.open)]

(* The closes that a read shows are reported one by one; there are two of  *)
(* them at most (TicketsFew in the proofs).                                *)
Reported(r, closed) ==
  CASE Len(closed) = 0 -> r
    [] Len(closed) = 1 -> RecordTradePnl(r, closed[1])
    [] OTHER           -> RecordTradePnl(RecordTradePnl(r, closed[1]), closed[2])

Total(closed) ==
  CASE Len(closed) = 0 -> 0
    [] Len(closed) = 1 -> closed[1]
    [] OTHER           -> closed[1] + closed[2]

-----------------------------------------------------------------------------
(* _check_daily_dd on an account reading: garbage is recognised by a       *)
(* balance or an equity near zero, or by a loss too large to be one.       *)
Implausible(bal, equity) == bal <= 1 \/ equity <= 1

FirstOfDay == watch.day # today \/ watch.start <= 1

Drawdown(equity) == (watch.start - equity) * 100

Breach(bal, equity) ==
  /\ ~Implausible(bal, equity)
  /\ ~FirstOfDay
  /\ Drawdown(equity) >= LimitPct * watch.start
  /\ Drawdown(equity) < GarbagePct * watch.start

(* One monitor cycle.  A breach closes the ticket and writes the kill file; *)
(* closes that the position read showed are reported and the sidecar is    *)
(* saved.  The close just made is reported by the next cycle, which under   *)
(* the kill file checks no drawdown any more.                              *)
Cycle(bal, equity) ==
  LET first   == killed = NoDay /\ ~Implausible(bal, equity) /\ FirstOfDay
      breach  == killed = NoDay /\ Breach(bal, equity)
      flatten == breach /\ ticket.open
  IN /\ watch' = IF first THEN [day |-> today, start |-> bal] ELSE watch
     /\ risk' = Reported(risk, ticket.closed)
     /\ sidecar' = IF ticket.closed = <<>> THEN sidecar ELSE risk'
     /\ ticket' = IF flatten THEN [NoTicket EXCEPT !.closed = <<ticket.mark>>]
                  ELSE [ticket EXCEPT !.closed = <<>>]
     /\ balance' = IF flatten THEN balance + ticket.mark ELSE balance
     /\ killed' = IF breach THEN today ELSE killed
     /\ past' = [past EXCEPT !.watched = @ \/ equity = Equity,
                             !.booked = IF risk.day # today THEN @
                                        ELSE @ + Total(ticket.closed)]
     /\ UNCHANGED <<today, order, used>>

MonitorCycle == Cycle(balance, Equity)

(* The terminal answers with a garbage equity.                             *)
GlitchCycle == \E equity \in Glitches : Cycle(balance, equity)

(* The kill file of an earlier day is cleared (see DDHalt).                *)
Rearm ==
  /\ killed # NoDay
  /\ killed < today
  /\ killed' = NoDay
  /\ UNCHANGED <<today, balance, ticket, watch, risk, sidecar, order, past, used>>

-----------------------------------------------------------------------------
(* SignalLoop._route_signal: the kill check of the iteration, the account  *)
(* and position reads, and RiskManager.evaluate.  The monitor's cycles are *)
(* seconds apart and the bars hours: one cycle has passed since the last   *)
(* order.  Without money nothing is sized (position_size).                 *)
Gate ==
  /\ ~order
  /\ killed = NoDay
  /\ past.watched
  /\ used.entries < MaxEntries
  /\ risk' = OnNewDay(risk, balance)
  /\ order' = (~ticket.open /\ ~risk'.halted /\ balance > 0)
  /\ past' = [past EXCEPT !.booked = IF risk.day = today THEN @ ELSE 0]
  /\ UNCHANGED <<today, balance, ticket, watch, sidecar, killed, used>>

(* The order is filled and registered, which saves the sidecar.            *)
Fill ==
  /\ order
  /\ order' = FALSE
  /\ ticket' = [ticket EXCEPT !.open = TRUE]
  /\ sidecar' = risk
  /\ past' = [past EXCEPT !.watched = FALSE]
  /\ used' = [used EXCEPT !.entries = @ + 1]
  /\ UNCHANGED <<today, balance, watch, risk, killed>>

Reject ==
  /\ order
  /\ order' = FALSE
  /\ UNCHANGED <<today, balance, ticket, watch, risk, sidecar, killed, past, used>>

-----------------------------------------------------------------------------
(* Slip: the day state comes back without its halt.                        *)
RestoreUnhalted(r) == IF r.day = today THEN [r EXCEPT !.halted = FALSE] ELSE RiskState

(* Slip: the day state is not restored.                                    *)
RestoreFresh(r) == RiskState

(* _restore_state: the day state of the same UTC day only.  The monitor's  *)
(* day start is not in the sidecar.                                        *)
RestoreDay(r) == IF r.day = today THEN r ELSE RiskState

(* The process dies and its successor starts, which a kill file forbids.   *)
(* The initial scan drops the tickets that are gone.                       *)
DayRestart ==
  /\ used.restarts < MaxRestarts
  /\ killed = NoDay
  /\ used' = [used EXCEPT !.restarts = @ + 1]
  /\ watch' = Watch
  /\ risk' = RestoreDay(sidecar)
  /\ order' = FALSE
  /\ ticket' = [ticket EXCEPT !.closed = <<>>]
  /\ past' = [past EXCEPT !.restarts = @ + 1,
                          !.booked = IF sidecar.day = today THEN @ ELSE 0]
  /\ UNCHANGED <<today, balance, sidecar, killed>>

DayNext ==
  \/ Moves \/ Closes \/ Midnight
  \/ MonitorCycle \/ GlitchCycle \/ Rearm
  \/ Gate \/ Fill \/ Reject
  \/ DayRestart

DaySpec == DayInit /\ [][DayNext]_dayVars

-----------------------------------------------------------------------------
TypeOK ==
  /\ today \in 0..MaxDay
  /\ balance \in Int
  /\ ticket \in [open: BOOLEAN, mark: Int, closed: Seq(Int)]
  /\ watch \in [day: Int, start: Int]
  /\ {risk, sidecar} \subseteq [day: Int, open: Int, pnl: Int, halted: BOOLEAN]
  /\ killed \in {NoDay} \cup 0..MaxDay
  /\ order \in BOOLEAN
  /\ past \in [dawn: Int, restarts: Nat, booked: Int, watched: BOOLEAN]

(* What a day may cost, whatever restarts and garbage readings it sees: the *)
(* limit; three tickets at their stops, the one that closed unnoticed, the *)
(* one on its way and one carried over midnight; a win that is noticed     *)
(* after midnight and booked on the new day; and two tickets for every     *)
(* restart, whose closes nobody hears of.  A restart renews the monitor's  *)
(* day start; it does not renew the budget.                                *)
DayLossBounded ==
  (past.dawn - balance) * 100 <
    LimitPct * past.dawn + 100 * (3 * Stop + Gain + 2 * Stop * past.restarts)

(* The day's P&L is what was reported since the day's first evaluation:    *)
(* nothing of it is booked twice or lost in a restart, and nothing is      *)
(* carried over from the day before.                                       *)
DayPnlKept == risk.day = today => risk.pnl = past.booked

DayBudget == DayLossBounded /\ DayPnlKept

(* Once the closes reported since the day's first evaluation have reached  *)
(* the limit, no signal passes for the rest of that day, whatever wins,    *)
(* restarts and midnights lie in between.                                  *)
HaltedDayStands ==
  [][risk.day = today /\ risk.halted /\ today' = today => risk'.halted /\ (order' => order)]_dayVars
=============================================================================
