---------------------------- MODULE MCRiskLimits ----------------------------
(***************************************************************************)
(* For TLC, side by side: what bounds the loss of an order, of a ticket,   *)
(* of a day and of all tickets together, and the bars that orders come     *)
(* from.  One of the models moves while the others are where they start,   *)
(* so that their states add up instead of multiplying (`moving`).          *)
(* Lots: money in cents.  Days: in hundredths of the opening balance.      *)
(* Stops: a soft stop of 10 pips, partial exit and breakeven at 1 R, a     *)
(* trailing stop no further behind the price than the breakeven stop.      *)
(* Bars: a short and a long timeframe, the market closed at one time.      *)
(***************************************************************************)
EXTENDS LotSizing, DailyBudget, PortfolioCeiling, PositionStops, BarDispatch

MCTiers == <<1, 10, 100>>

MCMarks == {-1, 1}

MCPrices == {-30, -12, -6, 0, 5, 11, 16, 60}

MCTimeframes == <<"H1", "H4">>
MCPeriod == [H1 |-> 2, H4 |-> 3]

MCTrades == {[dist |-> 20, lot |-> 1], [dist |-> 2, lot |-> 10], [dist |-> 10, lot |-> 1]}

-----------------------------------------------------------------------------
VARIABLE moving   \* the model that moves

IdleTrade == CHOOSE t \in Inputs : TRUE

MCInit ==
  /\ moving \in {"lot", "day", "ceiling", "ticket", "bars"}
  /\ IF moving = "lot" THEN Init ELSE trade = IdleTrade
  /\ DayInit /\ CeilingInit /\ StopsInit /\ BarsInit

MCNext ==
  /\ \/ moving = "lot" /\ Differs /\ UNCHANGED <<dayVars, ceilingVars, stopVars, barVars>>
     \/ moving = "day" /\ DayNext /\ UNCHANGED <<trade, ceilingVars, stopVars, barVars>>
     \/ moving = "ceiling" /\ CeilingNext /\ UNCHANGED <<trade, dayVars, stopVars, barVars>>
     \/ moving = "ticket" /\ StopsNext /\ UNCHANGED <<trade, dayVars, ceilingVars, barVars>>
     \/ moving = "bars" /\ BarsNext /\ UNCHANGED <<trade, dayVars, ceilingVars, stopVars>>
  /\ UNCHANGED moving

MCSpec == MCInit /\ [][MCNext]_<<moving, trade, dayVars, ceilingVars, stopVars, barVars>>
=============================================================================
