------------------------------ MODULE MCRecords ------------------------------
(***************************************************************************)
(* For TLC, side by side: what the system shows and keeps of itself and of *)
(* the market (the alarm, the sidecar, the evidence vault, the journal,    *)
(* the weekly report, the news cache, the paper account, the target        *)
(* ladder, the chart, the backtest and the validation).  One of the models *)
(* moves (`moving`) while the others are where they start.  Prices are     *)
(* small numbers, the alarm's time is in steps of five minutes.            *)
(***************************************************************************)
EXTENDS StateStore, EvidenceVault, NewsCalendar, PaperBroker, Backtest, Watchdog, TargetLadder,
        Validation, LiveJournal, Chart, WeekReport

-----------------------------------------------------------------------------
MCTouches == {"stop", "target", "both", "none"}

MCTrades ==
  {[conviction |-> 68, source |-> "anticipation", aligned |-> "with", r |-> 2],
   [conviction |-> 80, source |-> "reaction", aligned |-> "against", r |-> -1]}

MCAccounts == {"eur", "gbp"}
MCTickets ==
  {[symbol |-> "eur", pnl |-> 7, phantom |-> 2], [symbol |-> "gbp", pnl |-> -5, phantom |-> -3]}
MCAmounts == {-5, -7}

-----------------------------------------------------------------------------
Event(t, c, i) == [time |-> t, currency |-> c, impact |-> i]
MCAnnouncements ==
  {Event(2, "usd", "high"), Event(4, "eur", "high"), Event(3, "usd", "low"),
   Event(NoTime, "usd", "high")}

MCPrices == {-5, 3, 4, 5, 6, 8}
MCSources == <<"swing", "zone_edge">>
MCTargets == {3, 4}

-----------------------------------------------------------------------------
Candle(o, h, l, c) == [open |-> o, high |-> h, low |-> l, close |-> c]
MCCandles == {Candle(4, 5, 3, 4), Candle(4, 9, 4, 8), Candle(8, 9, 3, 4), Candle(2, 3, 0, 1)}

MCGroups == {"h4"}
T(i, y, h, p) == [id |-> i, year |-> y, hour |-> h, pnl |-> p]
MCHistory ==
  {T(1, 1, 2, 1), T(2, 2, 20, 2), T(3, 3, 5, 2), T(4, 3, 1, 3), T(5, 2, 3, -1)}
MCSessions == {"all", "asia", "london"}

-----------------------------------------------------------------------------
VARIABLE moving   \* the model that moves

Only(model, Starts, idle) == IF moving = model THEN Starts ELSE idle /\ Starts

MCInit ==
  /\ moving \in {"watch", "store", "vault", "journal", "week", "news", "paper", "ladder",
                 "chart", "test", "valid"}
  /\ Init /\ AlarmInit /\ JournalInit /\ WeekInit /\ NewsInit /\ PaperInit
  /\ ChartInit /\ ValidInit
  /\ Only("vault", VaultInit, path = [b \in 1..3 |-> "none"])
  /\ Only("ladder", LadderInit, trade = [long |-> TRUE, target |-> 3])
  /\ Only("test", TestInit, signals = {} /\ hits = [b \in 1..6 |-> {}])

recordVars == <<vars, vaultVars, journalVars, history>>
accountVars == <<newsVars, paperVars, ladderVars>>
chartsVars == <<chartVars, testVars, validVars>>

RecordMoves ==
  /\ \/ moving = "store" /\ Next /\ UNCHANGED <<vaultVars, journalVars, history>>
     \/ moving = "vault" /\ VaultNext /\ UNCHANGED <<vars, journalVars, history>>
     \/ moving = "journal" /\ JournalNext /\ UNCHANGED <<vars, vaultVars, history>>
     \/ moving = "week" /\ WeekNext /\ UNCHANGED <<vars, vaultVars, journalVars>>
  /\ UNCHANGED <<watchVars, accountVars, chartsVars>>

AccountMoves ==
  /\ \/ moving = "news" /\ NewsNext /\ UNCHANGED <<paperVars, ladderVars>>
     \/ moving = "paper" /\ PaperNext /\ UNCHANGED <<newsVars, ladderVars>>
     \/ moving = "ladder" /\ Found /\ UNCHANGED <<newsVars, paperVars>>
  /\ UNCHANGED <<watchVars, recordVars, chartsVars>>

ChartMoves ==
  /\ \/ moving = "chart" /\ BarArrives /\ UNCHANGED <<testVars, validVars>>
     \/ moving = "test" /\ TestNext /\ UNCHANGED <<chartVars, validVars>>
     \/ moving = "valid" /\ ValidNext /\ UNCHANGED <<chartVars, testVars>>
  /\ UNCHANGED <<watchVars, recordVars, accountVars>>

MCNext ==
  /\ \/ moving = "watch" /\ AlarmNext /\ UNCHANGED <<recordVars, accountVars, chartsVars>>
     \/ RecordMoves \/ AccountMoves \/ ChartMoves
  /\ UNCHANGED moving

MCSpec == MCInit /\ [][MCNext]_<<moving, watchVars, recordVars, accountVars, chartsVars>>
=============================================================================
