------------------------------ MODULE WeekReport ------------------------------
(***************************************************************************)
(* The weekly report: what it makes of the logs of the processes that      *)
(* trade one account.  Each writes heartbeats with the balance it sees and *)
(* a line for each of its trades that closed; the broker books the close   *)
(* some time before, and also what is traded by hand.  A close that was    *)
(* logged while the broker showed no position is a phantom, and a later    *)
(* line reopens it.  history has what happened in order, and a place in it *)
(* is its time: a parser sees only the lines.                              *)
(***************************************************************************)
EXTENDS Integers, SequencesExt, FiniteSetsExt

CONSTANTS
  Traders,     \* the processes, one per symbol
  Tickets,     \* the agents' trades: records of symbol, pnl and phantom pnl
  Amounts,     \* what a trade by hand moves
  Tolerance,   \* EXTERNAL_MOVE_TOLERANCE_USD
  MaxLogged

ASSUME WeekAssumption ==
  /\ IsFiniteSet(Tickets) /\ \A t \in Tickets : {t.pnl, t.phantom} \subseteq Int
  /\ Amounts \subseteq Int /\ Tolerance \in Nat

VARIABLE history

Times == DOMAIN history
Events(kind) == {i \in Times : history[i].kind = kind}

-----------------------------------------------------------------------------
(* _parse_log: the row of a ticket after a line.                           *)
NoRow == [at |-> 0]

(* Slip: a reopened line is not read.                                      *)
RowKept(row, i) == IF history[i].kind = "closed" THEN [at |-> i, pnl |-> history[i].pnl] ELSE row

RowAfter(row, i) == IF history[i].kind = "closed" THEN [at |-> i, pnl |-> history[i].pnl] ELSE NoRow

IsLine(i, t) == history[i].kind \in {"closed", "reopened"} /\ history[i].ticket = t

Row(t) ==
  LET row[n \in 0..Len(history)] ==
        IF n = 0 THEN NoRow ELSE IF IsLine(n, t) THEN RowAfter(row[n - 1], n) ELSE row[n - 1]
  IN  row[Len(history)]

ClosedRows == {t \in Tickets : Row(t) # NoRow}

(* parse_log_file of the daily summary: every closed line is a trade.      *)
PnlOf(places) == MapThenSumSet(LAMBDA i : history[i].pnl, places)
DailyPnl == PnlOf(Events("closed"))

PnlIn(tickets) == MapThenSumSet(LAMBDA t : Row(t).pnl, tickets)
WeeklyPnl == PnlIn(ClosedRows)

(* _agent_pnl_between, after the first time and up to the second.          *)
AgentPnl(from, to) == PnlIn({t \in ClosedRows : Row(t).at \in from + 1..to})

Heartbeats == Events("heartbeat")
BeatsOf(s) == {i \in Heartbeats : history[i].symbol = s}

(* AccountView.external_pnl.                                               *)
ExternalPnl ==
  IF Heartbeats = {} THEN 0
  ELSE history[Max(Heartbeats)].balance - history[Min(Heartbeats)].balance
         - AgentPnl(Min(Heartbeats), Max(Heartbeats))

(* _detect_external_moves: within one process's heartbeats, a change of    *)
(* the balance that its trades do not explain.                             *)
Abs(x) == IF x < 0 THEN -x ELSE x

Windows(s) ==
  {gap \in BeatsOf(s) \X BeatsOf(s) :
     gap[1] < gap[2] /\ \A k \in BeatsOf(s) : k \notin gap[1] + 1..gap[2] - 1}

Residual(gap) ==
  LET delta == history[gap[2]].balance - history[gap[1]].balance
  IN  IF delta = 0 THEN 0 ELSE delta - AgentPnl(gap[1], gap[2])

Raw == {gap \in UNION {Windows(s) : s \in Traders} : Abs(Residual(gap)) > Tolerance}

(* Two observations of one move: the same amount, and windows that meet    *)
(* within the half hour, which here is always.                             *)
SameMove(a, b) == Abs(Residual(a) - Residual(b)) <= Tolerance

Narrower(a, b) == a[2] - a[1] < b[2] - b[1]

(* The moves, in the order of their windows, each shown by the narrowest.  *)
InOrder ==
  [n \in 1..Cardinality(Raw) |->
     CHOOSE gap \in Raw : Cardinality({g \in Raw : g[1] < gap[1]}) = n - 1]

Merged(moves, gap) ==
  LET prior == {i \in DOMAIN moves : SameMove(moves[i], gap)}
  IN  IF prior = {} THEN Append(moves, gap)
      ELSE IF Narrower(gap, moves[Min(prior)]) THEN [moves EXCEPT ![Min(prior)] = gap]
      ELSE moves

Moves ==
  LET moves[n \in 0..Len(InOrder)] ==
        IF n = 0 THEN <<>> ELSE Merged(moves[n - 1], InOrder[n])
  IN  moves[Len(InOrder)]

(* A move that is the amount of a close logged outside its window is that  *)
(* close, late; build_checklist flags the others.                          *)
LateMatches(gap) ==
  {t \in ClosedRows : Row(t).at \notin gap[1] + 1..gap[2] /\ Abs(Row(t).pnl - Residual(gap)) <= Tolerance}

Checked(acc, gap) ==
  LET free == LateMatches(gap) \ acc.consumed
  IN  IF free = {} THEN [acc EXCEPT !.moves = Append(@, gap)]
      ELSE [acc EXCEPT !.consumed = @ \cup {CHOOSE t \in free : \A u \in free : Row(t).at <= Row(u).at}]

Flagged ==
  LET done[n \in 0..Len(Moves)] ==
        IF n = 0 THEN [moves |-> <<>>, consumed |-> {}] ELSE Checked(done[n - 1], Moves[n])
  IN  done[Len(Moves)].moves

-----------------------------------------------------------------------------
WeekInit == history = <<>>

Happens(event) ==
  /\ Len(history) < MaxLogged
  /\ history' = Append(history, event)

IsBooked(t) == \E i \in Events("booked") : history[i].ticket = t

(* What the process that owns the trade last logged of it.                 *)
LinesOn(t) == {i \in Times : IsLine(i, t)}
LoggedClosed(t) == LinesOn(t) # {} /\ history[Max(LinesOn(t))].kind = "closed"

Balance == PnlOf(Events("booked") \cup Events("manual"))

Heartbeat == \E s \in Traders : Happens([kind |-> "heartbeat", symbol |-> s, balance |-> Balance])

(* The broker books a close, the process that owns the trade logs it.      *)
Booked ==
  \E t \in Tickets : ~IsBooked(t) /\ Happens([kind |-> "booked", ticket |-> t, pnl |-> t.pnl])

CloseLogged ==
  \E t \in Tickets :
    IsBooked(t) /\ ~LoggedClosed(t) /\ Happens([kind |-> "closed", ticket |-> t, pnl |-> t.pnl])

(* The account blinks: a close that was not, and its reopening.            *)
PhantomLogged ==
  \E t \in Tickets :
    ~IsBooked(t) /\ ~LoggedClosed(t) /\ Happens([kind |-> "closed", ticket |-> t, pnl |-> t.phantom])

ReopenedLogged ==
  \E t \in Tickets :
    ~IsBooked(t) /\ LoggedClosed(t) /\ Happens([kind |-> "reopened", ticket |-> t])

Manual == \E a \in Amounts : Events("manual") = {} /\ Happens([kind |-> "manual", pnl |-> a])

WeekNext ==
  \/ Heartbeat \/ Booked \/ CloseLogged
  \/ PhantomLogged \/ ReopenedLogged \/ Manual

WeekSpec == WeekInit /\ [][WeekNext]_history

-----------------------------------------------------------------------------
BookedAt(t) == CHOOSE i \in Events("booked") : history[i].ticket = t

(* The logs are settled when the closes logged are the closes booked.      *)
LogsSettled ==
  \A t \in Tickets :
    IF IsBooked(t) THEN LoggedClosed(t) /\ history[Max(LinesOn(t))].pnl = t.pnl ELSE ~LoggedClosed(t)

(* And prompt if no process logged a heartbeat between the two.            *)
Prompt ==
  \A t \in Tickets, i \in Heartbeats :
    IsBooked(t) => (i < BookedAt(t)) = (i < Max(LinesOn(t)))

(* Traded by hand, for more than the tolerance and while the balances that *)
(* some process logged before and after it differ: with a trade of the     *)
(* agent that cancels it in every window, the logs do not show it.         *)
Noticeable(i) ==
  /\ Abs(history[i].pnl) > Tolerance
  /\ \E s \in Traders : \E gap \in Windows(s) :
       i \in gap[1]..gap[2] /\ history[gap[1]].balance # history[gap[2]].balance

(* The daily summaries add to the weekly P&L the phantoms that were        *)
(* reopened.  Once the logs are settled the weekly P&L is what the broker  *)
(* booked for the agents; when each close was logged promptly, what is     *)
(* left of the balance's change is what was traded by hand, it is found as *)
(* one move however many processes saw it, and nothing else is found.      *)
ManualMovesFound ==
  /\ DailyPnl - WeeklyPnl =
       MapThenSumSet(LAMBDA i : history[i].ticket.phantom, Events("reopened"))
  /\ LogsSettled =>
       /\ WeeklyPnl = PnlOf(Events("booked"))
       /\ Prompt =>
            LET seen == {i \in Events("manual") : Noticeable(i)}
            IN  /\ Len(Moves) = Cardinality(seen)
                /\ \A i \in seen : \E gap \in Range(Moves) :
                     /\ i \in gap[1]..gap[2] /\ Residual(gap) = history[i].pnl
                     /\ LateMatches(gap) = {} => gap \in Range(Flagged)
                /\ Heartbeats # {} =>
                     ExternalPnl = PnlOf(Events("manual") \cap Min(Heartbeats)..Max(Heartbeats))
=============================================================================
