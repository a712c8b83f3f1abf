--------------------------- MODULE Budgets_proofs ---------------------------
(***************************************************************************)
(* What an order may risk, what a day may cost and what the account may    *)
(* have at risk: no order risks more than its budget, for all balances,    *)
(* stops, risks, margins and limits; no day costs more than its limit and  *)
(* the tickets that can slip past it, for all money, marks, glitches and   *)
(* restarts; no order that nobody overtook exceeds the ceiling.            *)
(***************************************************************************)
EXTENDS LotSizing, DailyBudget, PortfolioCeiling, SetSums_proofs, SequenceTheorems, TLAPS

-----------------------------------------------------------------------------
(* Arithmetic: a floor does not exceed what is rounded, and a product      *)
(* grows with its factors.                                                 *)
LEMMA FloorBelow ==
  ASSUME NEW a \in Nat, NEW d \in Nat \ {0}
  PROVE  a \div d \in Nat /\ (a \div d) * d <= a
OBVIOUS

LEMMA ProductNatural ==
  ASSUME NEW a \in Nat, NEW b \in Nat
  PROVE  a * b \in Nat
OBVIOUS

LEMMA ProductPositive ==
  ASSUME NEW a \in Nat \ {0}, NEW b \in Nat \ {0}
  PROVE  a * b \in Nat \ {0}
OBVIOUS

LEMMA ProductMonotone ==
  ASSUME NEW a \in Nat, NEW b \in Nat, NEW c \in Nat, a <= b
  PROVE  a * c <= b * c
OBVIOUS

LEMMA MinOfTwo ==
  ASSUME NEW a \in Nat, NEW b \in Nat
  PROVE  Min({a, b}) = IF a <= b THEN a ELSE b
BY DEF Min

LEMMA MaxOfTwo ==
  ASSUME NEW a \in Nat, NEW b \in Nat
  PROVE  Max({a, b}) = IF a >= b THEN a ELSE b
BY DEF Max

-----------------------------------------------------------------------------
(* What a lot loses, per lot and per basis point.                          *)
Cost(t) == Whole * (t.stop * PipStep)

LEMMA InputsTyped ==
  ASSUME NEW t \in Inputs
  PROVE  /\ t.balance \in Nat /\ t.stop \in Nat \ {0} /\ t.risk \in Nat /\ t.free \in Nat
         /\ Cost(t) \in Nat \ {0}
<1>1. t.balance \in Nat /\ t.stop \in Nat \ {0} /\ t.risk \in Nat /\ t.free \in Nat
  BY SizingAssumption DEF Inputs
<1>2. PipStep \in Nat \ {0}
  BY SizingAssumption
<1>3. t.stop * PipStep \in Nat \ {0}
  BY <1>1, <1>2, ProductPositive
<1>4. Whole \in Nat \ {0}
  BY DEF Whole
<1> QED
  BY <1>1, <1>3, <1>4, ProductPositive DEF Cost

LEMMA WithinByCost ==
  ASSUME NEW t \in Inputs, NEW lot \in Nat, NEW bp \in Nat
  PROVE  Within(lot, t, bp) <=> lot * Cost(t) <= t.balance * bp
<1>1. PipStep \in Nat \ {0} /\ t.stop \in Nat \ {0}
  BY SizingAssumption, InputsTyped
<1>2. t.stop * PipStep \in Nat
  BY <1>1, ProductPositive
<1>3. \A p \in Nat : (lot * p) * 10000 = lot * (10000 * p)
  OBVIOUS
<1> QED
  BY <1>2, <1>3 DEF Within, Loss, Cost, Whole

LEMMA LotForWithin ==
  ASSUME NEW t \in Inputs, NEW bp \in Nat
  PROVE  LotFor(t, bp) \in Nat /\ Within(LotFor(t, bp), t, bp)
<1>1. t.balance * bp \in Nat /\ Cost(t) \in Nat \ {0}
  BY InputsTyped, ProductNatural
<1>2. /\ (t.balance * bp) \div Cost(t) \in Nat
      /\ ((t.balance * bp) \div Cost(t)) * Cost(t) <= t.balance * bp
  BY <1>1, FloorBelow
<1>3. LotFor(t, bp) = (t.balance * bp) \div Cost(t)
  BY DEF LotFor, Cost
<1> QED
  BY <1>2, <1>3, WithinByCost

LEMMA SmallerWithin ==
  ASSUME NEW t \in Inputs, NEW bp \in Nat, NEW lot \in Nat, NEW less \in Nat,
         less <= lot, Within(lot, t, bp)
  PROVE  Within(less, t, bp)
<1>1. Cost(t) \in Nat /\ t.balance * bp \in Nat
  BY InputsTyped, ProductNatural
<1>2. less * Cost(t) <= lot * Cost(t)
  BY <1>1, ProductMonotone
<1>3. less * Cost(t) \in Nat /\ lot * Cost(t) \in Nat
  BY <1>1, ProductNatural
<1>4. lot * Cost(t) <= t.balance * bp
  BY WithinByCost
<1>5. less * Cost(t) <= t.balance * bp
  BY <1>1, <1>2, <1>3, <1>4
<1> QED
  BY <1>5, WithinByCost

(* A minimum lot inside its risk is one that may be snapped to.            *)
LEMMA WithinAllowed ==
  ASSUME NEW t \in Inputs, Within(MinLot, t, t.risk)
  PROVE  SnapAllowed(t)
<1>1. t.balance * t.risk \in Nat
  BY InputsTyped, ProductNatural
<1>2. Loss(MinLot, t) * Whole <= t.balance * t.risk
  BY DEF Within
<1>3. t.balance * t.risk * 3 = 3 * (t.balance * t.risk)
  BY <1>1
<1>4. Loss(MinLot, t) \in Nat
  BY SizingAssumption, InputsTyped, ProductPositive, ProductNatural DEF Loss
<1>5. Loss(MinLot, t) * Whole * 2 <= t.balance * t.risk * 3
  BY <1>1, <1>2, <1>4 DEF Whole
<1> QED
  BY <1>5 DEF SnapAllowed

-----------------------------------------------------------------------------
(* A lot that may be sent as far as the risk asked for is concerned, or    *)
(* none.  What only makes such a lot smaller, but not smaller than the     *)
(* minimum, leaves it so.                                                  *)
Budgeted(lot, t) ==
  /\ lot \in Nat
  /\ lot > 0 => /\ lot >= MinLot
                /\ Within(lot, t, t.risk) \/ lot = MinLot
                /\ lot = MinLot => SnapAllowed(t)

LEMMA SmallerBudgeted ==
  ASSUME NEW t \in Inputs, NEW lot, Budgeted(lot, t),
         NEW less \in Nat, less <= lot, less >= MinLot
  PROVE  Budgeted(less, t)
<1>1. MinLot \in Nat \ {0} /\ lot \in Nat /\ lot > 0
  BY SizingAssumption DEF Budgeted
<1>2. CASE lot = MinLot
  BY <1>1, <1>2 DEF Budgeted
<1>3. CASE lot # MinLot
  <2>1. Within(less, t, t.risk)
    BY <1>1, <1>3, SmallerWithin, InputsTyped DEF Budgeted
  <2> QED
    BY <2>1, WithinAllowed DEF Budgeted
<1> QED
  BY <1>2, <1>3

LEMMA SnappedBudgeted ==
  ASSUME NEW t \in Inputs
  PROVE  Budgeted(Snapped(t), t)
<1>1. LotFor(t, t.risk) \in Nat /\ Within(LotFor(t, t.risk), t, t.risk)
  BY LotForWithin, InputsTyped
<1>2. MinLot \in Nat \ {0}
  BY SizingAssumption
<1>3. CASE LotFor(t, t.risk) >= MinLot
  BY <1>1, <1>2, <1>3, WithinAllowed DEF Snapped, Budgeted
<1>4. CASE ~(LotFor(t, t.risk) >= MinLot)
  BY <1>2, <1>4 DEF Snapped, Budgeted
<1> QED
  BY <1>3, <1>4

LEMMA CappedByMarginSound ==
  ASSUME NEW t \in Inputs, NEW lot, Budgeted(lot, t)
  PROVE  LET capped == CappedByMargin(lot, t)
         IN  Budgeted(capped, t) /\ capped <= lot /\ capped <= MarginLot(t)
<1>1. MarginLot(t) \in Nat
  <2>1. t.free * BufferPct \in Nat
    BY SizingAssumption, InputsTyped, ProductNatural
  <2>2. 100 * MarginStep \in Nat \ {0}
    BY SizingAssumption, ProductPositive
  <2> QED
    BY <2>1, <2>2, FloorBelow DEF MarginLot
<1>2. MinLot \in Nat \ {0} /\ lot \in Nat
  BY SizingAssumption DEF Budgeted
<1>3. CASE lot <= MarginLot(t)
  BY <1>2, <1>3 DEF CappedByMargin
<1>4. CASE ~(lot <= MarginLot(t)) /\ MarginLot(t) < MinLot
  BY <1>1, <1>2, <1>4 DEF CappedByMargin, Budgeted
<1>5. CASE ~(lot <= MarginLot(t)) /\ ~(MarginLot(t) < MinLot)
  BY <1>1, <1>2, <1>5, SmallerBudgeted DEF CappedByMargin
<1> QED
  BY <1>3, <1>4, <1>5

LEMMA CappedByRiskSound ==
  ASSUME NEW t \in Inputs, NEW lot, Budgeted(lot, t)
  PROVE  LET capped == CappedByRisk(lot, t)
         IN  /\ Budgeted(capped, t) /\ capped <= lot
             /\ capped > MinLot => Within(capped, t, HardRisk)
<1>1. HardRisk \in Nat /\ MinLot \in Nat \ {0} /\ lot \in Nat
  BY SizingAssumption DEF Budgeted
<1>2. LotFor(t, HardRisk) \in Nat /\ Within(LotFor(t, HardRisk), t, HardRisk)
  BY <1>1, LotForWithin
<1>3. CASE lot <= MinLot \/ Within(lot, t, HardRisk)
  BY <1>1, <1>3 DEF CappedByRisk
<1>4. CASE ~(lot <= MinLot \/ Within(lot, t, HardRisk))
  <2>1. LotFor(t, HardRisk) < lot
    BY <1>1, <1>2, <1>4, SmallerWithin
  <2>2. CappedByRisk(lot, t) =
          IF MinLot >= LotFor(t, HardRisk) THEN MinLot ELSE LotFor(t, HardRisk)
    BY <1>1, <1>2, <1>4, MaxOfTwo DEF CappedByRisk
  <2> QED
    BY <1>1, <1>2, <1>4, <2>1, <2>2, SmallerBudgeted
<1> QED
  BY <1>3, <1>4

LEMMA MarginCovers ==
  ASSUME NEW t \in Inputs, NEW lot \in Nat, lot <= MarginLot(t)
  PROVE  lot * MarginStep * 100 <= t.free * BufferPct
<1>1. /\ t.free * BufferPct \in Nat
      /\ 100 * MarginStep \in Nat \ {0}
      /\ MarginStep \in Nat
  BY SizingAssumption, InputsTyped, ProductNatural, ProductPositive
<1>2. MarginLot(t) \in Nat /\ MarginLot(t) * (100 * MarginStep) <= t.free * BufferPct
  BY <1>1, FloorBelow DEF MarginLot
<1>3. lot * (100 * MarginStep) <= MarginLot(t) * (100 * MarginStep)
  BY <1>1, <1>2, ProductMonotone
<1>4. /\ lot * (100 * MarginStep) \in Nat
      /\ MarginLot(t) * (100 * MarginStep) \in Nat
  BY <1>1, <1>2, ProductNatural
<1>5. lot * MarginStep * 100 = lot * (100 * MarginStep)
  BY <1>1
<1> QED
  BY <1>1, <1>2, <1>3, <1>4, <1>5

LEMMA LotSound ==
  ASSUME NEW t \in Inputs
  PROVE  LET lot == CalculateLot(t)
         IN  /\ Budgeted(lot, t)
             /\ lot <= MaxLot
             /\ lot > MinLot => Within(lot, t, HardRisk)
             /\ lot > 0 => lot <= MarginLot(t)
<1>1. MinLot \in Nat \ {0} /\ MaxLot \in Nat /\ MinLot <= MaxLot
  BY SizingAssumption
<1>2. CASE t.balance = 0
  BY <1>1, <1>2 DEF CalculateLot, Budgeted
<1>3. CASE t.balance # 0
  <2> DEFINE sized == Min({Snapped(t), MaxLot})
             paid == CappedByMargin(sized, t)
  <2>1. Snapped(t) \in Nat /\ Budgeted(Snapped(t), t)
    BY SnappedBudgeted DEF Budgeted
  <2>2. sized = IF Snapped(t) <= MaxLot THEN Snapped(t) ELSE MaxLot
    BY <1>1, <2>1, MinOfTwo
  <2>3. Budgeted(sized, t) /\ sized <= MaxLot
    BY <1>1, <2>1, <2>2, SmallerBudgeted
  <2>4. Budgeted(paid, t) /\ paid <= sized /\ paid <= MarginLot(t)
    BY <2>3, CappedByMarginSound
  <2>5. CalculateLot(t) = CappedByRisk(paid, t)
    BY <1>3 DEF CalculateLot
  <2>6. /\ Budgeted(CalculateLot(t), t) /\ CalculateLot(t) <= paid
        /\ CalculateLot(t) > MinLot => Within(CalculateLot(t), t, HardRisk)
    BY <2>4, <2>5, CappedByRiskSound
  <2>7. MarginLot(t) \in Nat
    BY SizingAssumption, InputsTyped, ProductNatural, ProductPositive, FloorBelow DEF MarginLot
  <2> HIDE DEF sized, paid
  <2> QED
    BY <1>1, <2>3, <2>4, <2>6, <2>7 DEF Budgeted
<1> QED
  BY <1>2, <1>3

Typed == trade \in Inputs

(* Every order of any account, stop, risk and margin is inside its budget: *)
(* no chain of rounding, snapping and clamping in calculate_lot ends above *)
(* what one of its steps allows.                                           *)
THEOREM EveryOrderWithinBudget == Spec => []OrderWithinBudget
<1>1. Init => Typed
  BY DEF Init, Typed
<1>2. Typed /\ [Differs]_trade => Typed'
  <2>1. ASSUME trade \in Inputs, NEW b \in Balances
        PROVE  [trade EXCEPT !.balance = b] \in Inputs
    BY <2>1 DEF Inputs
  <2>2. ASSUME trade \in Inputs, NEW s \in Stops
        PROVE  [trade EXCEPT !.stop = s] \in Inputs
    BY <2>2 DEF Inputs
  <2>3. ASSUME trade \in Inputs, NEW r \in Risks
        PROVE  [trade EXCEPT !.risk = r] \in Inputs
    BY <2>3 DEF Inputs
  <2>4. ASSUME trade \in Inputs, NEW f \in Margins
        PROVE  [trade EXCEPT !.free = f] \in Inputs
    BY <2>4 DEF Inputs
  <2> QED
    BY <2>1, <2>2, <2>3, <2>4 DEF Differs, Typed
<1>3. Typed => OrderWithinBudget
  <2> SUFFICES ASSUME trade \in Inputs, OrderLot(trade) > 0
               PROVE  LET lot == OrderLot(trade)
                      IN  /\ lot \in MinLot..MaxLot
                          /\ lot > MinLot => Within(lot, trade, trade.risk) /\ Within(lot, trade, HardRisk)
                          /\ lot = MinLot => SnapAllowed(trade)
                          /\ lot * MarginStep * 100 <= trade.free * BufferPct
    BY DEF OrderWithinBudget, Typed
  <2>1. OrderLot(trade) = CalculateLot(trade)
    BY DEF OrderLot
  <2>2. MinLot \in Nat /\ MaxLot \in Nat
    BY SizingAssumption
  <2>3. /\ Budgeted(OrderLot(trade), trade)
        /\ OrderLot(trade) <= MaxLot
        /\ OrderLot(trade) > MinLot => Within(OrderLot(trade), trade, HardRisk)
        /\ OrderLot(trade) <= MarginLot(trade)
    BY <2>1, LotSound
  <2>4. OrderLot(trade) * MarginStep * 100 <= trade.free * BufferPct
    BY <2>3, MarginCovers DEF Budgeted
  <2> QED
    BY <2>2, <2>3, <2>4 DEF Budgeted
<1> QED
  BY <1>1, <1>2, <1>3, PTL DEF Spec

-----------------------------------------------------------------------------
(* The budget of a day.  A read finds two closed tickets at most, one once *)
(* a cycle has been completed since the last order, and an order is only   *)
(* on its way when there is no ticket.                                     *)
States == [day: Int, open: Int, pnl: Int, halted: BOOLEAN]

Results == -Stop..Gain

TicketsFew ==
  /\ ticket.mark \in Results /\ ticket.closed \in Seq(Results)
  /\ Len(ticket.closed) <= IF ticket.open THEN 1 ELSE 2
  /\ past.watched => Len(ticket.closed) <= IF ticket.open THEN 0 ELSE 1
  /\ order => ~ticket.open /\ past.watched

(* Nothing is sized without money, so a stop costs no more than it has.    *)
Solvent ==
  /\ balance > -Stop /\ past.dawn > -Stop
  /\ ticket.open \/ order => balance > 0

(* The sidecar's day state is that of the process, or of an earlier day as *)
(* long as the process has booked nothing that could halt it.              *)
SidecarFresh ==
  /\ risk.day <= today /\ sidecar.day <= today
  /\ sidecar.day = today => risk = sidecar
  /\ sidecar.day # today /\ risk.day = today => ~risk.halted

(* Until the day is in the sidecar it has cost one ticket at most.         *)
OneTicketOnly ==
  sidecar.day # today =>
    (past.dawn - balance)
      + (IF ticket.open \/ (order /\ risk.day # today) THEN Stop ELSE 0) <= Stop

(* The day's first evaluation found that balance, and what was lost since  *)
(* then was reported or died with a process.                               *)
Accounted ==
  risk.day = today =>
    /\ past.dawn - risk.open <= Stop
    /\ risk.open + risk.pnl + Total(ticket.closed) - balance <= Gain + 2 * Stop * past.restarts

(* A state that is not halted has not reached its limit.                   *)
Armed(r) == ~r.halted /\ r.open > 0 => -(100 * r.pnl) < LimitPct * r.open

(* The loss since the day's first evaluation, with what is at risk now.    *)
AtRisk == IF ticket.open \/ order THEN Stop ELSE 0

LossHeld ==
  risk.day = today =>
    100 * (risk.open - balance + AtRisk) <
      LimitPct * risk.open + 100 * (Gain + 2 * Stop + 2 * Stop * past.restarts)

DayHeld ==
  /\ TypeOK /\ TicketsFew /\ Solvent /\ SidecarFresh
  /\ OneTicketOnly /\ Accounted /\ DayPnlKept /\ Armed(risk) /\ LossHeld

-----------------------------------------------------------------------------
(* The limit of an amount of money, and of an amount in debt.              *)
LEMMA LimitOf ==
  ASSUME NEW x \in Int
  PROVE  /\ LimitPct * x \in Int
         /\ x > 0 => 0 < LimitPct * x /\ LimitPct * x <= 100 * x
         /\ x <= 0 => 100 * x <= LimitPct * x
<1>1. LimitPct \in 1..100
  BY DayAssumption
<1>2. ASSUME NEW n \in Nat PROVE /\ LimitPct * n \in Nat /\ LimitPct * n <= 100 * n
                                 /\ n > 0 => 0 < LimitPct * n
  BY <1>1
<1>3. LimitPct * x \in Int
  BY <1>1
<1>4. CASE x > 0
  BY <1>2, <1>3, <1>4
<1>5. CASE x <= 0
  <2>1. LimitPct * (-x) <= 100 * (-x)
    BY <1>2, <1>5
  <2>2. LimitPct * (-x) = -(LimitPct * x)
    BY <1>1
  <2> QED
    BY <1>3, <1>5, <2>1, <2>2
<1> QED
  BY <1>3, <1>4, <1>5

LEMMA LimitOfSum ==
  ASSUME NEW x \in Int, NEW y \in Int
  PROVE  LimitPct * x - LimitPct * y = LimitPct * (x - y)
BY DayAssumption

LEMMA MoneyTyped ==
  /\ Stop \in Nat \ {0} /\ Gain \in Nat /\ Opening \in Nat \ {0}
  /\ Results \subseteq Int /\ 0 \in Results /\ Marks \subseteq Results
BY DayAssumption DEF Results

LEMMA RiskStateTyped ==
  /\ RiskState \in States /\ RiskState.day = NoDay /\ RiskState.open = 0
  /\ RiskState.pnl = 0 /\ RiskState.halted = FALSE
BY DEF RiskState, States, NoDay

LEMMA ResultBounds == \A m \in Results : m \in Int /\ -Stop <= m /\ m <= Gain
BY MoneyTyped DEF Results

LEMMA UpToTwo ==
  ASSUME NEW n \in Nat, n <= 2
  PROVE  n = 0 \/ n = 1 \/ n = 2
OBVIOUS

LEMMA ClosedResults ==
  ASSUME NEW closed \in Seq(Results), Len(closed) <= 2
  PROVE  /\ Len(closed) = 0 \/ Len(closed) = 1 \/ Len(closed) = 2
         /\ closed = <<>> => Len(closed) = 0
         /\ Len(closed) >= 1 => closed[1] \in Results
         /\ Len(closed) = 2 => closed[2] \in Results
<1>1. Len(closed) \in Nat
  BY LenProperties
<1>2. Len(closed) = 0 \/ Len(closed) = 1 \/ Len(closed) = 2
  BY <1>1, UpToTwo
<1>3. Len(<<>>) = 0
  BY EmptySeq
<1>4. closed = <<>> => Len(closed) = 0
  BY <1>3
<1>5. Len(closed) >= 1 => closed[1] \in Results
  BY <1>1, ElementOfSeq
<1>6. Len(closed) = 2 => closed[2] \in Results
  BY <1>1, ElementOfSeq
<1> QED
  BY <1>2, <1>4, <1>5, <1>6

LEMMA OneOrTwo ==
  ASSUME NEW closed \in Seq(Results)
  PROVE  /\ Len(closed) = 0 => Total(closed) = 0 /\ \A r : Reported(r, closed) = r
         /\ Len(closed) = 1 => /\ Total(closed) = closed[1]
                               /\ \A r : Reported(r, closed) = RecordTradePnl(r, closed[1])
         /\ Len(closed) = 2 =>
              /\ Total(closed) = closed[1] + closed[2]
              /\ \A r : Reported(r, closed) =
                          RecordTradePnl(RecordTradePnl(r, closed[1]), closed[2])
BY DEF Total, Reported

LEMMA RecordSteps ==
  ASSUME NEW r \in States, NEW pnl \in Int
  PROVE  /\ RecordTradePnl(r, pnl) \in States
         /\ RecordTradePnl(r, pnl).day = r.day /\ RecordTradePnl(r, pnl).open = r.open
         /\ RecordTradePnl(r, pnl).pnl = r.pnl + pnl
         /\ r.halted => RecordTradePnl(r, pnl).halted
         /\ Armed(RecordTradePnl(r, pnl))
<1> DEFINE halted == r.halted \/ (r.open > 0 /\ -(r.pnl + pnl) * 100 >= LimitPct * r.open)
           s == RecordTradePnl(r, pnl)
<1>1. r.day \in Int /\ r.open \in Int /\ r.pnl \in Int /\ r.pnl + pnl \in Int
  BY DEF States
<1>2. s = [r EXCEPT !.pnl = r.pnl + pnl, !.halted = halted] /\ halted \in BOOLEAN
  BY DEF RecordTradePnl, States
<1> HIDE DEF halted
<1>3. /\ s \in States /\ s.day = r.day /\ s.open = r.open /\ s.pnl = r.pnl + pnl
      /\ s.halted = halted
  BY <1>1, <1>2 DEF States
<1>4. r.halted => s.halted
  BY <1>3 DEF halted
<1>5. Armed(s)
  <2>1. LimitPct * r.open \in Int
    BY <1>1, LimitOf
  <2>2. ~s.halted => ~(r.open > 0 /\ -(r.pnl + pnl) * 100 >= LimitPct * r.open)
    BY <1>3 DEF halted
  <2>3. -(r.pnl + pnl) * 100 = -(100 * (r.pnl + pnl))
    BY <1>1
  <2> HIDE DEF s
  <2> QED
    BY <1>1, <1>3, <2>1, <2>2, <2>3 DEF Armed
<1> QED
  BY <1>3, <1>4, <1>5

LEMMA ReportSteps ==
  ASSUME NEW r \in States, Armed(r), NEW closed \in Seq(Results), Len(closed) <= 2
  PROVE  /\ Reported(r, closed) \in States
         /\ Reported(r, closed).day = r.day /\ Reported(r, closed).open = r.open
         /\ Total(closed) \in Int
         /\ Reported(r, closed).pnl = r.pnl + Total(closed)
         /\ r.halted => Reported(r, closed).halted
         /\ Armed(Reported(r, closed))
         /\ closed = <<>> => Reported(r, closed) = r
<1>1. CASE Len(closed) = 0
  <2>1. Total(closed) = 0 /\ Reported(r, closed) = r
    BY <1>1, OneOrTwo
  <2>2. r.pnl \in Int
    BY DEF States
  <2> QED
    BY <2>1, <2>2
<1>2. CASE Len(closed) = 1
  <2>1. closed[1] \in Int /\ closed # <<>>
    BY <1>2, ClosedResults, ResultBounds
  <2> QED
    BY <1>2, <2>1, OneOrTwo, RecordSteps
<1>3. CASE Len(closed) = 2
  <2> DEFINE one == RecordTradePnl(r, closed[1])
  <2>1. closed[1] \in Int /\ closed[2] \in Int /\ closed # <<>>
    BY <1>3, ClosedResults, ResultBounds
  <2>2. /\ one \in States /\ one.day = r.day /\ one.open = r.open
        /\ one.pnl = r.pnl + closed[1] /\ (r.halted => one.halted)
    BY <2>1, RecordSteps
  <2>3. Reported(r, closed) = RecordTradePnl(one, closed[2]) /\ Total(closed) = closed[1] + closed[2]
    BY <1>3, OneOrTwo
  <2> HIDE DEF one
  <2>4. r.pnl + closed[1] + closed[2] = r.pnl + (closed[1] + closed[2])
        /\ closed[1] + closed[2] \in Int
    BY <2>1 DEF States
  <2> DEFINE two == RecordTradePnl(one, closed[2])
  <2>5. /\ two \in States /\ two.day = one.day /\ two.open = one.open
        /\ two.pnl = one.pnl + closed[2] /\ (one.halted => two.halted) /\ Armed(two)
    BY <2>1, <2>2, RecordSteps
  <2> HIDE DEF two
  <2>6. Reported(r, closed) = two
    BY <2>3 DEF two
  <2> QED
    BY <2>1, <2>2, <2>3, <2>4, <2>5, <2>6
<1> QED
  BY <1>1, <1>2, <1>3, ClosedResults

(* What closes add up to.                                                  *)
LEMMA TotalBounds ==
  ASSUME NEW closed \in Seq(Results), Len(closed) <= 2
  PROVE  /\ Total(closed) \in Int /\ -(2 * Stop) <= Total(closed)
         /\ Len(closed) <= 1 => -Stop <= Total(closed) /\ Total(closed) <= Gain
         /\ Len(closed) <= 1 => \A m \in Results : /\ Append(closed, m) \in Seq(Results)
                                                   /\ Len(Append(closed, m)) = Len(closed) + 1
                                                   /\ Total(Append(closed, m)) = Total(closed) + m
<1>1. Stop \in Nat /\ Gain \in Nat
  BY MoneyTyped
<1>2. ASSUME NEW m \in Results
      PROVE  /\ m \in Int /\ Append(closed, m) \in Seq(Results)
             /\ Len(Append(closed, m)) = Len(closed) + 1
             /\ Append(closed, m)[Len(closed) + 1] = m
             /\ \A i \in 1..Len(closed) : Append(closed, m)[i] = closed[i]
  BY ResultBounds
<1>3. CASE Len(closed) = 0
  <2>1. Total(closed) = 0
    BY <1>3, OneOrTwo
  <2>2. ASSUME NEW m \in Results PROVE Total(Append(closed, m)) = m
    <3>1. Append(closed, m) \in Seq(Results) /\ Len(Append(closed, m)) = 1
      BY <1>2, <1>3
    <3>2. Append(closed, m)[1] = m
      BY <1>2, <1>3
    <3> QED
      BY <3>1, <3>2, OneOrTwo
  <2> QED
    BY <1>1, <1>2, <1>3, <2>1, <2>2
<1>4. CASE Len(closed) = 1
  <2>1. Total(closed) = closed[1] /\ closed[1] \in Int /\ -Stop <= closed[1] /\ closed[1] <= Gain
    BY <1>4, OneOrTwo, ClosedResults, ResultBounds
  <2>2. ASSUME NEW m \in Results PROVE Total(Append(closed, m)) = closed[1] + m
    <3>1. Append(closed, m) \in Seq(Results) /\ Len(Append(closed, m)) = 2
      BY <1>2, <1>4
    <3>2. Append(closed, m)[1] = closed[1] /\ Append(closed, m)[2] = m
      BY <1>2, <1>4
    <3> QED
      BY <3>1, <3>2, OneOrTwo
  <2> QED
    BY <1>1, <1>2, <1>4, <2>1, <2>2
<1>5. CASE Len(closed) = 2
  <2>1. /\ Total(closed) = closed[1] + closed[2]
        /\ closed[1] \in Int /\ -Stop <= closed[1]
        /\ closed[2] \in Int /\ -Stop <= closed[2]
    BY <1>5, OneOrTwo, ClosedResults, ResultBounds
  <2> QED
    BY <1>1, <1>5, <2>1
<1> QED
  BY <1>3, <1>4, <1>5, ClosedResults

-----------------------------------------------------------------------------
LEMMA DayNumbers ==
  ASSUME TypeOK, TicketsFew
  PROVE  /\ today \in Nat /\ balance \in Int /\ past.dawn \in Int /\ past.restarts \in Nat
         /\ risk \in States /\ sidecar \in States
         /\ risk.day \in Int /\ risk.open \in Int /\ risk.pnl \in Int
         /\ sidecar.day \in Int /\ past.booked \in Int
         /\ LimitPct * risk.open \in Int /\ 2 * Stop * past.restarts \in Nat
         /\ Stop \in Nat \ {0} /\ Gain \in Nat
         /\ ticket.closed \in Seq(Results) /\ Len(ticket.closed) <= 2
         /\ Len(ticket.closed) \in Nat /\ Total(ticket.closed) \in Int
         /\ ticket.mark \in Int /\ -Stop <= ticket.mark /\ ticket.mark <= Gain
<1>1. /\ today \in Nat /\ balance \in Int /\ past.dawn \in Int /\ past.restarts \in Nat
      /\ risk \in States /\ sidecar \in States /\ past.booked \in Int
  BY DayAssumption DEF TypeOK, States
<1>2. /\ risk.day \in Int /\ risk.open \in Int /\ risk.pnl \in Int /\ sidecar.day \in Int
  BY <1>1 DEF States
<1>3. Stop \in Nat \ {0} /\ Gain \in Nat
  BY MoneyTyped
<1>4. LimitPct * risk.open \in Int
  BY <1>2, LimitOf
<1>5. 2 * Stop * past.restarts \in Nat
  <2>1. 2 * Stop \in Nat
    BY <1>3
  <2>2. \A a, b \in Nat : a * b \in Nat
    OBVIOUS
  <2> QED
    BY <1>1, <2>1, <2>2
<1>6. /\ ticket.closed \in Seq(Results) /\ Len(ticket.closed) \in Nat
      /\ Len(ticket.closed) <= 2
  <2>1. ticket.closed \in Seq(Results) /\ Len(ticket.closed) <= IF ticket.open THEN 1 ELSE 2
    BY DEF TicketsFew
  <2>2. Len(ticket.closed) \in Nat
    BY <2>1, LenProperties
  <2> QED
    BY <2>1, <2>2
<1>7. Total(ticket.closed) \in Int
  BY <1>6, TotalBounds
<1>8. ticket.mark \in Int /\ -Stop <= ticket.mark /\ ticket.mark <= Gain
  BY ResultBounds DEF TicketsFew
<1> QED
  BY <1>1, <1>2, <1>3, <1>4, <1>5, <1>6, <1>7, <1>8

LEMMA NoneClosed == /\ <<>> \in Seq(Results) /\ <<>> \in Seq(Int) /\ Len(<<>>) = 0
                    /\ Total(<<>>) = 0
BY EmptySeq, OneOrTwo

LEMMA DayInitHolds == DayInit => DayHeld
<1> SUFFICES ASSUME DayInit PROVE DayHeld
  OBVIOUS
<1>1. /\ today = 0 /\ balance = Opening /\ watch = Watch /\ risk = RiskState
      /\ sidecar = RiskState /\ killed = NoDay /\ order = FALSE
      /\ ticket = NoTicket /\ past = Past
  BY DEF DayInit
<1>2. /\ ticket \in [open: BOOLEAN, mark: Int, closed: Seq(Int)]
      /\ ticket.open = FALSE /\ ticket.mark = 0 /\ ticket.closed = <<>>
  BY <1>1, NoneClosed DEF NoTicket
<1>3. /\ past \in [dawn: Int, restarts: Nat, booked: Int, watched: BOOLEAN]
      /\ past.dawn = Opening /\ past.watched = FALSE
  BY <1>1, MoneyTyped DEF Past
<1>4. TypeOK
  <2>1. watch \in [day: Int, start: Int]
    BY <1>1 DEF Watch, NoDay
  <2>2. today \in 0..MaxDay /\ balance \in Int
    BY <1>1, DayAssumption
  <2> QED
    BY <1>1, <1>2, <1>3, <2>1, <2>2, RiskStateTyped DEF TypeOK, States
<1>5. TicketsFew
  BY <1>1, <1>2, <1>3, NoneClosed, MoneyTyped DEF TicketsFew
<1>6. Solvent
  BY <1>1, <1>2, <1>3, MoneyTyped DEF Solvent
<1>7. risk.day # today /\ SidecarFresh
  BY <1>1, RiskStateTyped DEF SidecarFresh, NoDay
<1>8. OneTicketOnly
  BY <1>1, <1>2, <1>3, MoneyTyped DEF OneTicketOnly
<1>9. Armed(risk)
  BY <1>1, RiskStateTyped DEF Armed
<1> QED
  BY <1>4, <1>5, <1>6, <1>7, <1>8, <1>9 DEF DayHeld, Accounted, DayPnlKept, LossHeld

LEMMA DayMovesKeeps ==
  ASSUME DayHeld, Moves
  PROVE  DayHeld'
<1>1. UNCHANGED <<today, balance, watch, risk, sidecar, killed, order, past>>
  BY DEF Moves
<1>2. PICK mark \in Marks : ticket' = [ticket EXCEPT !.mark = mark]
  BY DEF Moves
<1>3. ticket \in [open: BOOLEAN, mark: Int, closed: Seq(Int)] /\ mark \in Results /\ mark \in Int
  BY MoneyTyped DEF DayHeld, TypeOK
<1>4. /\ ticket' \in [open: BOOLEAN, mark: Int, closed: Seq(Int)]
      /\ ticket'.open = ticket.open /\ ticket'.mark = mark /\ ticket'.closed = ticket.closed
  BY <1>2, <1>3
<1>5. TypeOK'
  BY <1>1, <1>4 DEF DayHeld, TypeOK
<1> QED
  BY <1>1, <1>3, <1>4, <1>5
  DEF DayHeld, TicketsFew, Solvent, SidecarFresh, OneTicketOnly, Accounted, DayPnlKept, Armed,
      LossHeld, AtRisk

(* The ticket is gone, at a result that its stop and its target bound.     *)
LEMMA DayClosesKeeps ==
  ASSUME DayHeld, Closes
  PROVE  DayHeld'
<1> DEFINE m == ticket.mark
<1>1. /\ UNCHANGED <<today, watch, risk, sidecar, killed, order, past>> /\ ticket.open
      /\ ticket' = [open |-> FALSE, mark |-> 0, closed |-> Append(ticket.closed, m)]
      /\ balance' = balance + m
  BY DEF Closes
<1>2. /\ ticket.closed \in Seq(Results) /\ Len(ticket.closed) <= 1 /\ Len(ticket.closed) \in Nat
      /\ past.watched => Len(ticket.closed) <= 0
      /\ m \in Results /\ m \in Int /\ -Stop <= m /\ ~order /\ balance > 0
      /\ balance \in Int /\ Stop \in Nat \ {0} /\ past.dawn \in Int
  BY <1>1, DayNumbers, ResultBounds DEF DayHeld, TicketsFew, Solvent
<1>3. /\ Append(ticket.closed, m) \in Seq(Results) /\ Append(ticket.closed, m) \in Seq(Int)
      /\ Len(Append(ticket.closed, m)) = Len(ticket.closed) + 1
      /\ Total(Append(ticket.closed, m)) = Total(ticket.closed) + m
  <2>1. Len(ticket.closed) <= 2
    BY <1>2
  <2>2. ticket.closed \in Seq(Int)
    BY DEF DayHeld, TypeOK
  <2> QED
    BY <1>2, <2>1, <2>2, TotalBounds, AppendProperties
<1>4. ticket'.open = FALSE /\ ticket'.mark = 0 /\ ticket'.closed = Append(ticket.closed, m)
  BY <1>1
<1>5. TypeOK'
  <2>1. ticket' \in [open: BOOLEAN, mark: Int, closed: Seq(Int)]
    BY <1>1, <1>3
  <2>2. balance' \in Int
    BY <1>1, <1>2
  <2> QED
    BY <1>1, <2>1, <2>2 DEF DayHeld, TypeOK
<1>6. TicketsFew'
  BY <1>1, <1>2, <1>3, <1>4, MoneyTyped DEF TicketsFew
<1>7. Solvent'
  BY <1>1, <1>2, <1>4 DEF DayHeld, Solvent
<1>8. SidecarFresh' /\ Armed(risk)' /\ DayPnlKept'
  BY <1>1 DEF DayHeld, SidecarFresh, Armed, DayPnlKept
<1>9. OneTicketOnly'
  BY <1>1, <1>2, <1>4 DEF DayHeld, OneTicketOnly
<1>10. Accounted'
  <2>1. Total(ticket'.closed) = Total(ticket.closed) + m /\ Total(ticket.closed) \in Int
    BY <1>3, <1>4, DayNumbers DEF DayHeld
  <2>2. risk.open \in Int /\ risk.pnl \in Int
    BY DayNumbers DEF DayHeld
  <2> QED
    BY <1>1, <1>2, <2>1, <2>2 DEF DayHeld, Accounted
<1>11. LossHeld'
  <2>1. AtRisk = Stop /\ AtRisk' = 0
    BY <1>1, <1>2, <1>4 DEF AtRisk
  <2> DEFINE most == LimitPct * risk.open + 100 * (Gain + 2 * Stop + 2 * Stop * past.restarts)
  <2>2. risk.open \in Int /\ most \in Int
    <3>1. /\ LimitPct * risk.open \in Int /\ 2 * Stop * past.restarts \in Nat
          /\ Stop \in Nat /\ Gain \in Nat /\ risk.open \in Int
      BY DayNumbers DEF DayHeld
    <3> QED
      BY <3>1
  <2>3. risk.day = today => 100 * (risk.open - balance + Stop) < most
    BY <2>1 DEF DayHeld, LossHeld
  <2>4. (risk.day = today => 100 * (risk.open - balance') < most) => LossHeld'
    BY <1>1, <1>2, <2>1, <2>2 DEF LossHeld
  <2> HIDE DEF most
  <2> QED
    BY <1>1, <1>2, <2>2, <2>3, <2>4
<1> QED
  BY <1>5, <1>6, <1>7, <1>8, <1>9, <1>10, <1>11 DEF DayHeld

LEMMA MidnightKeeps ==
  ASSUME DayHeld, Midnight
  PROVE  DayHeld'
<1>1. /\ UNCHANGED <<balance, ticket, watch, risk, sidecar, killed, order>>
      /\ today < MaxDay /\ today' = today + 1
      /\ past' = [Past EXCEPT !.dawn = balance, !.watched = past.watched]
  BY DEF Midnight
<1>2. balance \in Int /\ past.watched \in BOOLEAN /\ today \in 0..MaxDay /\ MaxDay \in Nat
  BY DayAssumption DEF DayHeld, TypeOK
<1>3. /\ past' \in [dawn: Int, restarts: Nat, booked: Int, watched: BOOLEAN]
      /\ past'.dawn = balance /\ past'.watched = past.watched
  <2>1. Past \in [dawn: Int, restarts: Nat, booked: Int, watched: BOOLEAN]
    BY MoneyTyped DEF Past
  <2> QED
    BY <1>1, <1>2, <2>1
<1>4. TypeOK'
  BY <1>1, <1>2, <1>3 DEF DayHeld, TypeOK
<1>5. TicketsFew' /\ Solvent'
  BY <1>1, <1>3 DEF DayHeld, TicketsFew, Solvent
<1>6. risk.day # today' /\ sidecar.day # today' /\ SidecarFresh'
  <2>1. risk.day \in Int /\ sidecar.day \in Int /\ today \in Int
    BY DayNumbers DEF DayHeld
  <2>2. risk.day <= today /\ sidecar.day <= today
    BY DEF DayHeld, SidecarFresh
  <2>3. risk.day # today' /\ sidecar.day # today' /\ risk.day <= today' /\ sidecar.day <= today'
    BY <1>1, <2>1, <2>2
  <2> QED
    BY <1>1, <2>3 DEF SidecarFresh
<1>7. OneTicketOnly'
  BY <1>1, <1>2, <1>3, MoneyTyped DEF OneTicketOnly
<1> QED
  BY <1>1, <1>4, <1>5, <1>6, <1>7 DEF DayHeld, Accounted, DayPnlKept, Armed, LossHeld

(* What a monitor cycle does to the money: the closes that were read are   *)
(* reported, and the ticket may be closed, to be reported by the next one. *)
LEMMA CycleSteps ==
  ASSUME DayHeld, NEW bal \in Int, NEW equity, Cycle(bal, equity)
  PROVE  /\ TypeOK' /\ UNCHANGED <<today, order>>
         /\ past'.dawn = past.dawn /\ past'.restarts = past.restarts
         /\ past'.booked = IF risk.day # today THEN past.booked
                           ELSE past.booked + Total(ticket.closed)
         /\ past.watched => past'.watched
         /\ risk' = Reported(risk, ticket.closed)
         /\ sidecar' = IF ticket.closed = <<>> THEN sidecar ELSE risk'
         /\ ticket'.mark \in Results /\ ticket'.closed \in Seq(Results)
         /\ Len(ticket'.closed) <= IF ticket'.open THEN 0 ELSE 1
         /\ Total(ticket'.closed) \in Int /\ balance' = balance + Total(ticket'.closed)
         /\ \/ ticket'.open = ticket.open /\ balance' = balance
            \/ ticket.open /\ ~ticket'.open /\ balance' >= balance - Stop
<1> DEFINE first   == killed = NoDay /\ ~Implausible(bal, equity) /\ FirstOfDay
           breach  == killed = NoDay /\ Breach(bal, equity)
           flatten == breach /\ ticket.open
           m       == ticket.mark
           booked  == IF risk.day # today THEN past.booked
                      ELSE past.booked + Total(ticket.closed)
           watched == past.watched \/ equity = Equity
<1>1. /\ watch' = IF first THEN [day |-> today, start |-> bal] ELSE watch
      /\ risk' = Reported(risk, ticket.closed)
      /\ sidecar' = IF ticket.closed = <<>> THEN sidecar ELSE risk'
      /\ ticket' = IF flatten THEN [NoTicket EXCEPT !.closed = <<m>>]
                   ELSE [ticket EXCEPT !.closed = <<>>]
      /\ balance' = IF flatten THEN balance + m ELSE balance
      /\ killed' = IF breach THEN today ELSE killed
      /\ past' = [past EXCEPT !.watched = watched, !.booked = booked]
      /\ UNCHANGED <<today, order>>
  BY DEF Cycle
<1> HIDE DEF breach
<1>2. TypeOK /\ TicketsFew /\ Armed(risk)
  BY DEF DayHeld
<1>3. /\ m \in Results /\ m \in Int /\ -Stop <= m
      /\ ticket.closed \in Seq(Results) /\ Len(ticket.closed) <= 2
      /\ Total(ticket.closed) \in Int /\ risk \in States /\ balance \in Int
  BY <1>2, DayNumbers DEF TicketsFew
<1>4. /\ <<m>> \in Seq(Results) /\ <<m>> \in Seq(Int) /\ Len(<<m>>) = 1 /\ Total(<<m>>) = m
  <2>1. <<m>> \in Seq(Results) /\ <<m>> \in Seq(Int) /\ Len(<<m>>) = 1 /\ <<m>>[1] = m
    BY <1>3
  <2> QED
    BY <2>1, OneOrTwo
<1>5. /\ past' \in [dawn: Int, restarts: Nat, booked: Int, watched: BOOLEAN]
      /\ past'.dawn = past.dawn /\ past'.restarts = past.restarts
      /\ past'.booked = booked /\ past'.watched = watched
  <2>1. past \in [dawn: Int, restarts: Nat, booked: Int, watched: BOOLEAN]
    BY <1>2 DEF TypeOK
  <2>2. booked \in Int /\ watched \in BOOLEAN
    BY <1>3, <2>1
  <2> HIDE DEF booked, watched
  <2> QED
    BY <1>1, <2>1, <2>2
<1>6. risk' \in States
  BY <1>1, <1>2, <1>3, ReportSteps
<1>7. sidecar' \in States
  BY <1>1, <1>2, <1>6 DEF TypeOK, States
<1> DEFINE Settled ==
      /\ ticket' \in [open: BOOLEAN, mark: Int, closed: Seq(Int)] /\ balance' \in Int
      /\ ticket'.mark \in Results /\ ticket'.closed \in Seq(Results)
      /\ Len(ticket'.closed) <= IF ticket'.open THEN 0 ELSE 1
      /\ Total(ticket'.closed) \in Int /\ balance' = balance + Total(ticket'.closed)
      /\ \/ ticket'.open = ticket.open /\ balance' = balance
         \/ ticket.open /\ ~ticket'.open /\ balance' >= balance - Stop
<1>8. ASSUME flatten PROVE Settled
  <2>1. ticket' = [open |-> FALSE, mark |-> 0, closed |-> <<m>>] /\ balance' = balance + m
    BY <1>1, <1>8 DEF NoTicket
  <2>2. /\ ticket' \in [open: BOOLEAN, mark: Int, closed: Seq(Int)]
        /\ ticket'.open = FALSE /\ ticket'.mark = 0 /\ ticket'.closed = <<m>>
    BY <1>4, <2>1
  <2>3. balance' \in Int /\ balance' >= balance - Stop
    BY <1>3, <2>1, MoneyTyped
  <2> HIDE DEF m
  <2> QED
    BY <1>3, <1>4, <1>8, <2>1, <2>2, <2>3, MoneyTyped
<1>9. ASSUME ~flatten PROVE Settled
  <2>1. ticket' = [ticket EXCEPT !.closed = <<>>] /\ balance' = balance
    BY <1>1, <1>9
  <2>2. /\ ticket' \in [open: BOOLEAN, mark: Int, closed: Seq(Int)]
        /\ ticket'.open = ticket.open /\ ticket'.mark = m /\ ticket'.closed = <<>>
    BY <1>2, <2>1, NoneClosed DEF TypeOK
  <2> HIDE DEF m
  <2>3. Len(ticket'.closed) = 0 /\ Total(ticket'.closed) = 0 /\ ticket'.closed \in Seq(Results)
    BY <2>2, NoneClosed
  <2> QED
    BY <1>3, <2>1, <2>2, <2>3
<1>10. Settled
  BY <1>8, <1>9
<1>11. TypeOK'
  <2>1. watch' \in [day: Int, start: Int]
    <3>1. today \in Int /\ watch \in [day: Int, start: Int]
      BY <1>2, DayAssumption DEF TypeOK
    <3> QED
      BY <1>1, <3>1
  <2>2. killed' \in {NoDay} \cup 0..MaxDay
    BY <1>1, <1>2 DEF TypeOK
  <2> QED
    BY <1>1, <1>2, <1>5, <1>6, <1>7, <1>10, <2>1, <2>2 DEF TypeOK, States
<1> QED
  BY <1>1, <1>5, <1>10, <1>11

LEMMA CycleKeeps ==
  ASSUME DayHeld, NEW bal \in Int, NEW equity, Cycle(bal, equity)
  PROVE  DayHeld'
<1> DEFINE t == Total(ticket.closed)
           u == Total(ticket'.closed)
<1>1. /\ TypeOK' /\ UNCHANGED <<today, order>>
      /\ past'.dawn = past.dawn /\ past'.restarts = past.restarts
      /\ past'.booked = IF risk.day # today THEN past.booked ELSE past.booked + t
      /\ past.watched => past'.watched
      /\ risk' = Reported(risk, ticket.closed)
      /\ sidecar' = IF ticket.closed = <<>> THEN sidecar ELSE risk'
      /\ ticket'.mark \in Results /\ ticket'.closed \in Seq(Results)
      /\ Len(ticket'.closed) <= IF ticket'.open THEN 0 ELSE 1
      /\ u \in Int /\ balance' = balance + u
      /\ \/ ticket'.open = ticket.open /\ balance' = balance
         \/ ticket.open /\ ~ticket'.open /\ balance' >= balance - Stop
  BY CycleSteps
<1>2. /\ today \in Nat /\ balance \in Int /\ past.dawn \in Int
      /\ risk \in States /\ risk.open \in Int /\ risk.pnl \in Int
      /\ ticket.closed \in Seq(Results) /\ Len(ticket.closed) <= 2
      /\ Stop \in Nat \ {0} /\ t \in Int
  BY DayNumbers DEF DayHeld
<1>3. /\ risk'.day = risk.day /\ risk'.open = risk.open /\ risk'.pnl = risk.pnl + t
      /\ risk.halted => risk'.halted
      /\ Armed(risk')
      /\ ticket.closed = <<>> => risk' = risk
  BY <1>1, <1>2, ReportSteps DEF DayHeld
<1> HIDE DEF t, u
<1>4. Armed(risk)'
  BY <1>3 DEF Armed
<1>5. /\ order => ~ticket.open
      /\ order => past.watched
  BY DEF DayHeld, TicketsFew
<1>6. TicketsFew'
  BY <1>1, <1>5, MoneyTyped DEF TicketsFew
<1>7. Solvent'
  <2>1. /\ balance > -Stop /\ past.dawn > -Stop
        /\ ticket.open \/ order => balance > 0
    BY DEF DayHeld, Solvent
  <2>2. balance' \in Int
    BY <1>1 DEF TypeOK
  <2>3. CASE ticket'.open = ticket.open /\ balance' = balance
    BY <1>1, <2>1, <2>3 DEF Solvent
  <2>4. CASE ticket.open /\ ~ticket'.open /\ balance' >= balance - Stop
    BY <1>1, <1>2, <1>5, <2>1, <2>2, <2>4 DEF Solvent
  <2> QED
    BY <1>1, <2>3, <2>4
<1>8. SidecarFresh'
  <2>1. /\ risk.day <= today /\ sidecar.day <= today
        /\ sidecar.day = today => risk = sidecar
        /\ sidecar.day # today /\ risk.day = today => ~risk.halted
    BY DEF DayHeld, SidecarFresh
  <2>2. CASE ticket.closed = <<>>
    BY <1>1, <1>3, <2>1, <2>2 DEF SidecarFresh
  <2>3. CASE ticket.closed # <<>>
    BY <1>1, <1>3, <2>1, <2>3 DEF SidecarFresh
  <2> QED
    BY <2>2, <2>3
<1>9. OneTicketOnly'
  <2>1. sidecar'.day # today => sidecar.day # today
    BY <1>1, <1>3 DEF DayHeld, SidecarFresh
  <2>2. sidecar.day # today =>
          (past.dawn - balance)
            + (IF ticket.open \/ (order /\ risk.day # today) THEN Stop ELSE 0) <= Stop
    BY DEF DayHeld, OneTicketOnly
  <2>3. balance' \in Int
    BY <1>1 DEF TypeOK
  <2>4. CASE ticket'.open = ticket.open /\ balance' = balance
    BY <1>1, <1>3, <2>1, <2>2, <2>4 DEF OneTicketOnly
  <2>5. CASE ticket.open /\ ~ticket'.open /\ balance' >= balance - Stop
    BY <1>1, <1>2, <1>5, <2>1, <2>2, <2>3, <2>5 DEF OneTicketOnly
  <2> QED
    BY <1>1, <2>4, <2>5
<1>10. Accounted'
  <2> DEFINE most == Gain + 2 * Stop * past.restarts
  <2>1. most \in Int
    BY DayNumbers DEF DayHeld
  <2>2. risk.day = today =>
          past.dawn - risk.open <= Stop /\ risk.open + risk.pnl + t - balance <= most
    BY DEF DayHeld, Accounted, t
  <2>3. (risk.day = today =>
           past.dawn - risk.open <= Stop /\ risk.open + (risk.pnl + t) + u - (balance + u) <= most)
        => Accounted'
    BY <1>1, <1>3 DEF Accounted, u
  <2> HIDE DEF most
  <2> QED
    BY <1>1, <1>2, <2>1, <2>2, <2>3
<1>11. DayPnlKept'
  BY <1>1, <1>2, <1>3 DEF DayHeld, DayPnlKept
<1>12. LossHeld'
  <2> DEFINE most == LimitPct * risk.open + 100 * (Gain + 2 * Stop + 2 * Stop * past.restarts)
  <2>1. most \in Int
    <3>1. /\ LimitPct * risk.open \in Int /\ 2 * Stop * past.restarts \in Nat
          /\ Stop \in Nat /\ Gain \in Nat
      BY DayNumbers DEF DayHeld
    <3> QED
      BY <3>1
  <2>2. risk.day = today => 100 * (risk.open - balance + AtRisk) < most
    BY DEF DayHeld, LossHeld
  <2>3. (risk.day = today => 100 * (risk.open - balance' + AtRisk') < most) => LossHeld'
    BY <1>1, <1>3 DEF LossHeld
  <2>4. balance' \in Int
    BY <1>1 DEF TypeOK
  <2> HIDE DEF most
  <2>5. CASE ticket'.open = ticket.open /\ balance' = balance
    <3>1. AtRisk' = AtRisk
      BY <1>1, <2>5 DEF AtRisk
    <3> QED
      BY <2>2, <2>3, <2>5, <3>1
  <2>6. CASE ticket.open /\ ~ticket'.open /\ balance' >= balance - Stop
    <3>1. AtRisk = Stop /\ AtRisk' = 0
      BY <1>1, <1>5, <2>6 DEF AtRisk
    <3> QED
      BY <1>2, <2>1, <2>2, <2>3, <2>4, <2>6, <3>1
  <2> QED
    BY <1>1, <2>5, <2>6
<1> QED
  BY <1>1, <1>4, <1>6, <1>7, <1>8, <1>9, <1>10, <1>11, <1>12 DEF DayHeld

LEMMA RearmKeeps ==
  ASSUME DayHeld, Rearm \/ UNCHANGED dayVars
  PROVE  DayHeld'
<1>1. UNCHANGED <<today, balance, ticket, watch, risk, sidecar, order, past>>
  BY DEF Rearm, dayVars
<1>2. killed' \in {NoDay} \cup 0..MaxDay
  BY DEF Rearm, dayVars, DayHeld, TypeOK
<1>3. TypeOK'
  BY <1>1, <1>2 DEF DayHeld, TypeOK
<1> QED
  BY <1>1, <1>3
  DEF DayHeld, TicketsFew, Solvent, SidecarFresh, OneTicketOnly, Accounted, DayPnlKept, Armed,
      LossHeld, AtRisk

(* An order becomes a ticket, and the day is in the sidecar; or it is      *)
(* rejected.                                                               *)
LEMMA FillKeeps ==
  ASSUME DayHeld, Fill \/ Reject
  PROVE  DayHeld'
<1>1. /\ UNCHANGED <<today, balance, watch, risk, killed>> /\ order /\ order' = FALSE
      /\ \/ /\ ticket' = [ticket EXCEPT !.open = TRUE] /\ sidecar' = risk
            /\ past' = [past EXCEPT !.watched = FALSE]
         \/ UNCHANGED <<ticket, sidecar, past>>
  BY DEF Fill, Reject
<1>2. /\ ticket \in [open: BOOLEAN, mark: Int, closed: Seq(Int)]
      /\ past \in [dawn: Int, restarts: Nat, booked: Int, watched: BOOLEAN]
      /\ ~ticket.open /\ past.watched
      /\ Len(ticket.closed) <= 1
  BY <1>1 DEF DayHeld, TypeOK, TicketsFew
<1>3. /\ ticket' \in [open: BOOLEAN, mark: Int, closed: Seq(Int)]
      /\ ticket'.mark = ticket.mark /\ ticket'.closed = ticket.closed
      /\ past' \in [dawn: Int, restarts: Nat, booked: Int, watched: BOOLEAN]
      /\ past'.dawn = past.dawn /\ past'.restarts = past.restarts /\ past'.booked = past.booked
      /\ \/ ticket'.open = TRUE /\ past'.watched = FALSE /\ sidecar' = risk
         \/ ~ticket'.open /\ past'.watched = past.watched /\ sidecar' = sidecar
  BY <1>1, <1>2
<1>4. TypeOK'
  BY <1>1, <1>3 DEF DayHeld, TypeOK
<1>5. TicketsFew'
  BY <1>1, <1>2, <1>3 DEF DayHeld, TicketsFew
<1>6. Solvent'
  BY <1>1, <1>3 DEF DayHeld, Solvent
<1>7. SidecarFresh'
  BY <1>1, <1>3 DEF DayHeld, SidecarFresh
<1>8. OneTicketOnly'
  <2>1. sidecar'.day # today => sidecar.day # today
    BY <1>1, <1>3 DEF DayHeld, SidecarFresh
  <2>2. sidecar.day # today =>
          (past.dawn - balance)
            + (IF ticket.open \/ (order /\ risk.day # today) THEN Stop ELSE 0) <= Stop
    BY DEF DayHeld, OneTicketOnly
  <2>3. CASE ticket'.open = TRUE /\ sidecar' = risk
    BY <1>1, <1>3, <2>1, <2>2, <2>3 DEF OneTicketOnly
  <2>4. CASE ~ticket'.open
    <3>1. past.dawn \in Int /\ balance \in Int /\ Stop \in Nat
      BY DayNumbers DEF DayHeld
    <3>2. sidecar.day # today => past.dawn - balance <= Stop
      BY <2>2, <3>1
    <3>3. past'.dawn = past.dawn /\ balance' = balance /\ today' = today /\ order' = FALSE
      BY <1>1, <1>3
    <3> QED
      BY <2>1, <2>4, <3>1, <3>2, <3>3 DEF OneTicketOnly
  <2> QED
    BY <1>3, <2>3, <2>4
<1>9. Accounted' /\ DayPnlKept' /\ Armed(risk)'
  BY <1>1, <1>3 DEF DayHeld, Accounted, DayPnlKept, Armed
<1>10. LossHeld'
  <2> DEFINE most == LimitPct * risk.open + 100 * (Gain + 2 * Stop + 2 * Stop * past.restarts)
  <2>1. most \in Int /\ risk.open \in Int /\ balance \in Int /\ Stop \in Nat
    BY DayNumbers DEF DayHeld
  <2>2. risk.day = today => 100 * (risk.open - balance + AtRisk) < most
    BY DEF DayHeld, LossHeld
  <2>3. (risk.day = today => 100 * (risk.open - balance + AtRisk') < most) => LossHeld'
    BY <1>1, <1>3 DEF LossHeld
  <2>4. AtRisk = Stop /\ (AtRisk' = Stop \/ AtRisk' = 0)
    BY <1>1 DEF AtRisk
  <2> HIDE DEF most
  <2> QED
    BY <2>1, <2>2, <2>3, <2>4
<1> QED
  BY <1>4, <1>5, <1>6, <1>7, <1>8, <1>9, <1>10 DEF DayHeld

(* The first evaluation of the day finds its balance; one that passes has  *)
(* a limit it has not reached, so what the ticket may lose is still        *)
(* bounded.                                                                *)
LEMMA GateKeeps ==
  ASSUME DayHeld, Gate
  PROVE  DayHeld'
<1> DEFINE new == [RiskState EXCEPT !.day = today, !.open = balance]
           booked == IF risk.day = today THEN past.booked ELSE 0
<1>1. /\ UNCHANGED <<today, balance, ticket, watch, sidecar, killed>>
      /\ ~order /\ past.watched
      /\ risk' = IF risk.day = today THEN risk ELSE new
      /\ order' = (~ticket.open /\ ~risk'.halted /\ balance > 0)
      /\ past' = [past EXCEPT !.booked = booked]
  BY DEF Gate, OnNewDay
<1>2. /\ today \in Nat /\ balance \in Int /\ past.dawn \in Int /\ past.restarts \in Nat
      /\ risk \in States /\ risk.day \in Int /\ risk.open \in Int /\ risk.pnl \in Int
      /\ Stop \in Nat \ {0} /\ Gain \in Nat
      /\ ticket.closed \in Seq(Results) /\ Len(ticket.closed) <= 1
      /\ Total(ticket.closed) \in Int /\ -Stop <= Total(ticket.closed)
      /\ Total(ticket.closed) <= Gain
  <2>1. Len(ticket.closed) <= 1
    BY <1>1, DayNumbers DEF DayHeld, TicketsFew
  <2> QED
    BY <2>1, DayNumbers, TotalBounds DEF DayHeld
<1>3. /\ new \in States /\ new.day = today /\ new.open = balance /\ new.pnl = 0
      /\ new.halted = FALSE
  <2> DEFINE one == [RiskState EXCEPT !.day = today]
  <2>1. /\ one \in States /\ one.day = today /\ one.pnl = 0 /\ one.halted = FALSE
    BY <1>2, RiskStateTyped DEF States
  <2>2. new = [one EXCEPT !.open = balance]
    BY RiskStateTyped DEF States
  <2> HIDE DEF one, new
  <2> QED
    BY <1>2, <2>1, <2>2 DEF States
<1> HIDE DEF new
<1>4. /\ past' \in [dawn: Int, restarts: Nat, booked: Int, watched: BOOLEAN]
      /\ past'.dawn = past.dawn /\ past'.restarts = past.restarts
      /\ past'.watched = past.watched /\ past'.booked = booked
  <2>1. booked \in Int /\ past \in [dawn: Int, restarts: Nat, booked: Int, watched: BOOLEAN]
    BY DEF DayHeld, TypeOK
  <2> HIDE DEF booked
  <2> QED
    BY <1>1, <2>1
<1>5. TypeOK'
  <2>1. risk' \in States
    BY <1>1, <1>2, <1>3
  <2>2. order' \in BOOLEAN
    BY <1>1
  <2> QED
    BY <1>1, <1>4, <2>1, <2>2 DEF DayHeld, TypeOK, States
<1>6. TicketsFew' /\ Solvent'
  BY <1>1, <1>4 DEF DayHeld, TicketsFew, Solvent
<1>7. risk'.day = today
  BY <1>1, <1>3
<1>8. SidecarFresh'
  BY <1>1, <1>2, <1>3 DEF DayHeld, SidecarFresh
<1>9. risk.day # today => sidecar.day # today
  BY DEF DayHeld, SidecarFresh
<1>10. sidecar.day # today =>
          (past.dawn - balance)
            + (IF ticket.open \/ (order /\ risk.day # today) THEN Stop ELSE 0) <= Stop
  BY DEF DayHeld, OneTicketOnly
<1>11. OneTicketOnly'
  BY <1>1, <1>4, <1>7, <1>10 DEF OneTicketOnly
<1> DEFINE r == 2 * Stop * past.restarts
<1>12. r \in Nat
  BY DayNumbers DEF DayHeld
<1>13. Accounted' /\ risk'.open + risk'.pnl + Total(ticket.closed) - balance <= Gain + r
  <2>1. CASE risk.day = today
    BY <1>1, <1>4, <2>1 DEF DayHeld, Accounted
  <2>2. CASE risk.day # today
    <3>1. risk'.open = balance /\ risk'.pnl = 0
      BY <1>1, <1>3, <2>2
    <3>2. past.dawn - balance <= Stop
      BY <1>2, <1>9, <1>10, <2>2
    <3>3. risk'.open + risk'.pnl + Total(ticket.closed) - balance <= Gain + r
      BY <1>2, <1>12, <3>1
    <3> QED
      BY <1>1, <1>4, <3>1, <3>2, <3>3 DEF Accounted
  <2> QED
    BY <2>1, <2>2
<1>14. DayPnlKept'
  BY <1>1, <1>2, <1>3, <1>4 DEF DayHeld, DayPnlKept
<1>15. Armed(risk')
  <2>1. CASE risk.day = today
    BY <1>1, <2>1 DEF DayHeld
  <2>2. CASE risk.day # today
    BY <1>1, <1>2, <1>3, <2>2, LimitOf DEF Armed
  <2> QED
    BY <2>1, <2>2
<1>16. Armed(risk)'
  BY <1>15 DEF Armed
<1>17. risk'.open \in Int /\ risk'.pnl \in Int
  BY <1>1, <1>2, <1>3
<1> DEFINE limit == LimitPct * risk'.open
<1>18. /\ limit \in Int
       /\ risk'.open > 0 => 0 < limit
       /\ risk'.open <= 0 => 100 * risk'.open <= limit
  BY <1>17, LimitOf
<1>19. ~risk'.halted /\ risk'.open > 0 => -(100 * risk'.pnl) < limit
  BY <1>15 DEF Armed
<1>20. (100 * (risk'.open - balance + AtRisk') < limit + 100 * (Gain + 2 * Stop + r)) => LossHeld'
  BY <1>1, <1>4 DEF LossHeld
<1>21. 100 * (risk'.open - balance + AtRisk') < limit + 100 * (Gain + 2 * Stop + r)
  <2> HIDE DEF r, limit
  <2>1. CASE order'
    <3>1. AtRisk' = Stop /\ balance > 0 /\ ~risk'.halted
      BY <1>1, <2>1 DEF AtRisk
    <3>2. CASE risk'.open > 0
      <4>1. risk'.open - balance + Stop <= Gain + r + 2 * Stop - risk'.pnl
        <5> DEFINE t == Total(ticket.closed)
        <5>1. t \in Int /\ -Stop <= t /\ risk'.open + risk'.pnl + t - balance <= Gain + r
          BY <1>2, <1>13
        <5> HIDE DEF t
        <5> QED
          BY <1>2, <1>12, <1>17, <5>1
      <4>2. 100 * (risk'.open - balance + Stop)
              <= 100 * (Gain + r + 2 * Stop) - 100 * risk'.pnl
        BY <1>2, <1>12, <1>17, <4>1
      <4>3. -(100 * risk'.pnl) < limit
        BY <1>19, <3>1, <3>2
      <4>4. 100 * (risk'.open - balance + Stop) < limit + 100 * (Gain + 2 * Stop + r)
        <5> DEFINE a == 100 * (risk'.open - balance + Stop)
                   k == 100 * (Gain + r + 2 * Stop)
                   p == 100 * risk'.pnl
        <5>1. a \in Int /\ k \in Int /\ p \in Int /\ limit \in Int
          BY <1>2, <1>12, <1>17, <1>18
        <5>2. k = 100 * (Gain + 2 * Stop + r)
          BY <1>2, <1>12
        <5>3. a <= k - p /\ -p < limit
          BY <4>2, <4>3
        <5> HIDE DEF a, k, p
        <5>4. a < limit + k
          BY <5>1, <5>3
        <5> QED
          BY <5>2, <5>4 DEF a
      <4> QED
        BY <3>1, <4>4
    <3>3. CASE risk'.open <= 0
      BY <1>2, <1>12, <1>17, <1>18, <3>1, <3>3
    <3> QED
      BY <1>17, <3>2, <3>3
  <2>2. CASE ~order' /\ risk.day = today
    <3>1. risk' = risk /\ AtRisk' = AtRisk
      BY <1>1, <2>2 DEF AtRisk
    <3> QED
      BY <2>2, <3>1 DEF DayHeld, LossHeld, r, limit
  <2>3. CASE ~order' /\ risk.day # today
    <3>1. risk'.open = balance /\ AtRisk' = IF ticket.open THEN Stop ELSE 0
      BY <1>1, <1>3, <2>3 DEF AtRisk
    <3>2. balance > -Stop /\ (ticket.open => balance > 0)
      BY DEF DayHeld, Solvent
    <3>3. CASE ticket.open
      BY <1>2, <1>12, <1>18, <3>1, <3>2, <3>3
    <3>4. CASE ~ticket.open
      BY <1>2, <1>12, <1>18, <3>1, <3>2, <3>4
    <3> QED
      BY <3>3, <3>4
  <2> QED
    BY <2>1, <2>2, <2>3
<1> QED
  BY <1>5, <1>6, <1>8, <1>11, <1>13, <1>14, <1>16, <1>20, <1>21 DEF DayHeld

(* A restart forgets the closes nobody reported, two at most, and brings   *)
(* back the day state if it is of the day.                                 *)
LEMMA DayRestartKeeps ==
  ASSUME DayHeld, DayRestart
  PROVE  DayHeld'
<1> DEFINE booked == IF sidecar.day = today THEN past.booked ELSE 0
           t == Total(ticket.closed)
           r == 2 * Stop * past.restarts
<1>1. /\ UNCHANGED <<today, balance, sidecar, killed>>
      /\ watch' = Watch /\ order' = FALSE
      /\ risk' = IF sidecar.day = today THEN sidecar ELSE RiskState
      /\ ticket' = [ticket EXCEPT !.closed = <<>>]
      /\ past' = [past EXCEPT !.restarts = @ + 1, !.booked = booked]
  BY DEF DayRestart, RestoreDay
<1>2. /\ today \in Nat /\ balance \in Int /\ past.dawn \in Int /\ past.restarts \in Nat
      /\ risk \in States /\ sidecar \in States /\ risk.open \in Int /\ risk.pnl \in Int
      /\ Stop \in Nat \ {0} /\ Gain \in Nat /\ r \in Nat /\ t \in Int /\ -(2 * Stop) <= t
  BY DayNumbers, TotalBounds DEF DayHeld
<1>3. /\ ticket' \in [open: BOOLEAN, mark: Int, closed: Seq(Int)]
      /\ ticket'.open = ticket.open /\ ticket'.mark = ticket.mark /\ ticket'.closed = <<>>
  BY <1>1, NoneClosed DEF DayHeld, TypeOK
<1>4. /\ past' \in [dawn: Int, restarts: Nat, booked: Int, watched: BOOLEAN]
      /\ past'.dawn = past.dawn /\ past'.restarts = past.restarts + 1
      /\ past'.watched = past.watched /\ past'.booked = booked
  <2>1. /\ booked \in Int /\ past.restarts + 1 \in Nat
        /\ past \in [dawn: Int, restarts: Nat, booked: Int, watched: BOOLEAN]
    BY <1>2 DEF DayHeld, TypeOK
  <2> HIDE DEF booked
  <2> QED
    BY <1>1, <2>1
<1>5. TypeOK'
  <2>1. risk' \in States
    BY <1>1, <1>2, RiskStateTyped
  <2>2. watch' \in [day: Int, start: Int]
    BY <1>1 DEF Watch, NoDay
  <2> QED
    BY <1>1, <1>3, <1>4, <2>1, <2>2 DEF DayHeld, TypeOK, States
<1>6. TicketsFew'
  BY <1>1, <1>3, <1>4, NoneClosed DEF DayHeld, TicketsFew
<1>7. Solvent'
  BY <1>1, <1>3, <1>4 DEF DayHeld, Solvent
<1>8. /\ sidecar.day = today => risk' = risk /\ risk = sidecar
      /\ sidecar.day # today => risk' = RiskState /\ risk'.day # today
  BY <1>1, <1>2, RiskStateTyped DEF DayHeld, SidecarFresh, NoDay
<1>9. SidecarFresh'
  BY <1>1, <1>2, <1>8, RiskStateTyped DEF DayHeld, SidecarFresh, NoDay
<1>10. OneTicketOnly'
  <2>1. sidecar.day # today =>
          (past.dawn - balance)
            + (IF ticket.open \/ (order /\ risk.day # today) THEN Stop ELSE 0) <= Stop
    BY DEF DayHeld, OneTicketOnly
  <2>2. sidecar.day # today => (past.dawn - balance) + (IF ticket.open THEN Stop ELSE 0) <= Stop
    BY <1>2, <2>1
  <2> QED
    BY <1>1, <1>3, <1>4, <2>2 DEF OneTicketOnly
<1>11. 2 * Stop * past'.restarts = r + 2 * Stop
  BY <1>2, <1>4
<1>12. Accounted'
  <2>1. risk.day = today =>
          past.dawn - risk.open <= Stop /\ risk.open + risk.pnl + t - balance <= Gain + r
    BY DEF DayHeld, Accounted
  <2>2. (risk'.day = today =>
           past.dawn - risk'.open <= Stop /\ risk'.open + risk'.pnl + 0 - balance <= Gain + (r + 2 * Stop))
        => Accounted'
    BY <1>1, <1>3, <1>4, <1>11, NoneClosed DEF Accounted
  <2> HIDE DEF r, t
  <2> QED
    BY <1>2, <1>8, <2>1, <2>2
<1>13. DayPnlKept'
  BY <1>1, <1>4, <1>8 DEF DayHeld, DayPnlKept
<1>14. Armed(risk)'
  <2>1. Armed(RiskState)
    BY RiskStateTyped DEF Armed
  <2>2. Armed(risk')
    BY <1>8, <2>1 DEF DayHeld
  <2> QED
    BY <2>2 DEF Armed
<1>15. LossHeld'
  <2> DEFINE limit == LimitPct * risk.open
  <2>1. risk.day = today =>
          100 * (risk.open - balance + AtRisk) < limit + 100 * (Gain + 2 * Stop + r)
    BY DEF DayHeld, LossHeld
  <2>2. risk'.day = today => risk' = risk /\ risk.day = today
    BY <1>8
  <2>3. /\ AtRisk \in Int /\ AtRisk' \in Int /\ AtRisk' <= AtRisk
    BY <1>1, <1>2, <1>3 DEF AtRisk
  <2>4. limit \in Int
    BY DayNumbers DEF DayHeld
  <2>5. (risk.day = today =>
           100 * (risk.open - balance + AtRisk') < limit + 100 * (Gain + 2 * Stop + (r + 2 * Stop)))
        => LossHeld'
    BY <1>1, <1>11, <2>2 DEF LossHeld
  <2> HIDE DEF limit, r
  <2> QED
    BY <1>2, <2>1, <2>3, <2>4, <2>5
<1> QED
  BY <1>5, <1>6, <1>7, <1>9, <1>10, <1>12, <1>13, <1>14, <1>15 DEF DayHeld

LEMMA DayNextKeeps == DayHeld /\ [DayNext]_dayVars => DayHeld'
<1> SUFFICES ASSUME DayHeld, [DayNext]_dayVars PROVE DayHeld'
  OBVIOUS
<1>1. CASE Moves
  BY <1>1, DayMovesKeeps
<1>2. CASE Closes
  BY <1>2, DayClosesKeeps
<1>3. CASE Midnight
  BY <1>3, MidnightKeeps
<1>4. CASE MonitorCycle
  <2>1. balance \in Int
    BY DEF DayHeld, TypeOK
  <2> QED
    BY <1>4, <2>1, CycleKeeps DEF MonitorCycle
<1>5. CASE GlitchCycle
  <2>1. balance \in Int
    BY DEF DayHeld, TypeOK
  <2> QED
    BY <1>5, <2>1, CycleKeeps DEF GlitchCycle
<1>6. CASE Rearm \/ UNCHANGED dayVars
  BY <1>6, RearmKeeps
<1>7. CASE Gate
  BY <1>7, GateKeeps
<1>8. CASE Fill \/ Reject
  BY <1>8, FillKeeps
<1>9. CASE DayRestart
  BY <1>9, DayRestartKeeps
<1> QED
  BY <1>1, <1>2, <1>3, <1>4, <1>5, <1>6, <1>7, <1>8, <1>9 DEF DayNext

LEMMA DayStaysHeld == DaySpec => []DayHeld
BY DayInitHolds, DayNextKeeps, PTL DEF DaySpec

(* After the day's first evaluation the limit is one of the balance it     *)
(* found, a ticket below dawn at most; before it, the day has cost one     *)
(* ticket.                                                                 *)
LEMMA HeldBounds == DayHeld => DayBudget
<1> SUFFICES ASSUME DayHeld PROVE DayLossBounded
  BY DEF DayHeld, DayBudget
<1> DEFINE r == 2 * Stop * past.restarts
           L(x) == LimitPct * x
           d == past.dawn
           o == risk.open
<1>1. /\ d \in Int /\ balance \in Int /\ o \in Int /\ Stop \in Nat \ {0} /\ Gain \in Nat
      /\ r \in Nat
  BY DayNumbers DEF DayHeld
<1>2. L(d) \in Int /\ L(o) \in Int
  BY <1>1, LimitOf
<1>3. (100 * (d - balance) < L(d) + 100 * (3 * Stop + Gain + r)) => DayLossBounded
  <2>1. (d - balance) * 100 = 100 * (d - balance)
    BY <1>1
  <2> QED
    BY <2>1 DEF DayLossBounded
<1>4. CASE risk.day = today
  <2>1. d - o <= Stop
    BY <1>4 DEF DayHeld, Accounted
  <2>2. AtRisk \in Nat
    BY <1>1 DEF AtRisk
  <2>3. 100 * (o - balance + AtRisk) < L(o) + 100 * (Gain + 2 * Stop + r)
    BY <1>4 DEF DayHeld, LossHeld
  <2> DEFINE e == d - o
  <2>4. e \in Int /\ L(e) \in Int /\ L(d) - L(o) = L(e)
    <3>1. e \in Int
      BY <1>1
    <3>2. L(e) \in Int
      BY <3>1, LimitOf
    <3>3. L(d) - L(o) = L(e)
      <4> HIDE DEF d, o
      <4> QED
        BY <1>1, LimitOfSum
    <3> QED
      BY <3>1, <3>2, <3>3
  <2>5. 100 * e - L(e) <= 100 * Stop
    <3>1. CASE e > 0
      BY <1>1, <2>1, <2>4, <3>1, LimitOf
    <3>2. CASE e <= 0
      BY <1>1, <2>4, <3>2, LimitOf
    <3> QED
      BY <2>4, <3>1, <3>2
  <2>6. 100 * (d - balance) = 100 * e + 100 * (o - balance)
    BY <1>1
  <2> HIDE DEF e, L, r, d, o
  <2>7. 100 * (o - balance) < L(o) + 100 * (Gain + 2 * Stop + r)
    BY <1>1, <1>2, <2>2, <2>3
  <2>8. 100 * (d - balance) < L(d) + 100 * (3 * Stop + Gain + r)
    BY <1>1, <1>2, <2>4, <2>5, <2>6, <2>7
  <2> QED
    BY <1>3, <2>8
<1>5. CASE risk.day # today
  <2>1. d - balance <= Stop
    <3>1. sidecar.day # today
      BY <1>5 DEF DayHeld, SidecarFresh
    <3>2. d - balance + (IF ticket.open \/ (order /\ risk.day # today) THEN Stop ELSE 0) <= Stop
      BY <3>1 DEF DayHeld, OneTicketOnly
    <3> QED
      BY <1>1, <3>2
  <2>2. -(100 * Stop) < L(d)
    <3>1. d > -Stop
      BY DEF DayHeld, Solvent
    <3>2. d <= 0 => 100 * d <= L(d)
      BY <1>1, LimitOf
    <3>3. d > 0 => 0 < L(d)
      BY <1>1, LimitOf
    <3> HIDE DEF L, d
    <3> QED
      BY <1>1, <1>2, <3>1, <3>2, <3>3
  <2> HIDE DEF L, d, r
  <2>3. 100 * (d - balance) < L(d) + 100 * (3 * Stop + Gain + r)
    BY <1>1, <1>2, <2>1, <2>2
  <2> QED
    BY <1>3, <2>3
<1> QED
  BY <1>4, <1>5

(* A day costs what its limit, its tickets and its restarts let it.        *)
THEOREM DaysAreBounded == DaySpec => []DayBudget
BY DayStaysHeld, HeldBounds, PTL

LEMMA HaltedSteps ==
  DayHeld /\ [DayNext]_dayVars =>
    (risk.day = today /\ risk.halted /\ today' = today => risk'.halted /\ (order' => order))
<1> SUFFICES ASSUME DayHeld, [DayNext]_dayVars,
                    risk.day = today, risk.halted, today' = today
             PROVE  risk'.halted /\ (order' => order)
  OBVIOUS
<1>1. /\ risk \in States /\ Armed(risk)
      /\ ticket.closed \in Seq(Results) /\ Len(ticket.closed) <= 2
  BY DayNumbers DEF DayHeld
<1>2. CASE Moves \/ Closes \/ Midnight \/ Rearm \/ Fill \/ Reject \/ UNCHANGED dayVars
  BY <1>2 DEF Moves, Closes, Midnight, Rearm, Fill, Reject, dayVars
<1>3. CASE MonitorCycle \/ GlitchCycle
  <2>1. risk' = Reported(risk, ticket.closed) /\ order' = order
    BY <1>3 DEF MonitorCycle, GlitchCycle, Cycle
  <2> QED
    BY <1>1, <2>1, ReportSteps
<1>4. CASE Gate
  BY <1>4 DEF Gate, OnNewDay
<1>5. CASE DayRestart
  <2>1. risk' = RestoreDay(sidecar) /\ ~order'
    BY <1>5 DEF DayRestart
  <2>2. sidecar.day = today /\ risk = sidecar
    BY DEF DayHeld, SidecarFresh
  <2> QED
    BY <2>1, <2>2 DEF RestoreDay
<1> QED
  BY <1>2, <1>3, <1>4, <1>5 DEF DayNext

(* A halt lasts for the day, and no signal passes while it does.           *)
THEOREM HaltsLastTheDay == DaySpec => HaltedDayStands
<1>1. DayHeld /\ [DayNext]_dayVars =>
        [risk.day = today /\ risk.halted /\ today' = today => risk'.halted /\ (order' => order)]_dayVars
  BY HaltedSteps
<1> QED
  BY <1>1, DayStaysHeld, PTL DEF DaySpec, HaltedDayStands

-----------------------------------------------------------------------------
CeilingTyped ==
  /\ tickets \subseteq Owners
  /\ exposed \in [Owners -> Nat]
  /\ at \in [Symbols -> {"idle", "approved"}]
  /\ want \in [Symbols -> Trades \cup {NoTrade}]
  /\ fresh \in [Symbols -> BOOLEAN]

(* As long as nobody has taken risk since its sound read, an approved      *)
(* order still fits under the ceiling.                                     *)
RoomKept ==
  \A s \in Symbols :
    at[s] = "approved" /\ fresh[s] =>
      Cap <= 0 \/ OpenRisk(tickets) + SoftRisk(want[s]) <= Cap

CeilingHeld == CeilingTyped /\ RoomKept

LEMMA RiskIsTotal ==
  /\ \A S : OpenRisk(S) = SetTotal(exposed, S)
  /\ OpenRisk(tickets)' = SetTotal(exposed', tickets')
<1>1. \A S : OpenRisk(S) = SetTotal(exposed, S)
  BY DEF OpenRisk, SetTotal, MapThenSumSet, MapThenFoldSet
<1>2. OpenRisk(tickets)' = SetTotal(exposed', tickets')
  BY DEF OpenRisk, SetTotal, MapThenSumSet, MapThenFoldSet
<1> QED
  BY <1>1, <1>2

LEMMA OwnersFinite == \A S \in SUBSET Owners : IsFiniteSet(S)
BY CeilingAssumption, FS_AddElement, FS_Subset DEF Owners

LEMMA TradeRisk ==
  ASSUME NEW wish \in Trades \cup {NoTrade}
  PROVE  SoftRisk(wish) \in Nat /\ At(CatastropheDist(wish.dist), wish) \in Nat
<1>1. wish.dist \in Nat /\ wish.lot \in Nat
  BY CeilingAssumption DEF NoTrade
<1>2. CatastropheDist(wish.dist) \in Nat
  <2>1. (TwiceMult * wish.dist) \div 2 \in Nat /\ MinDist \in Nat
    <3>1. TwiceMult * wish.dist \in Nat
      BY <1>1, CeilingAssumption
    <3> QED
      BY <3>1, CeilingAssumption
  <2> QED
    BY <2>1, MaxOfTwo DEF CatastropheDist
<1> QED
  BY <1>1, <1>2 DEF SoftRisk, At

(* A ticket that risks nothing any more, or is gone, makes room.           *)
LEMMA RiskLifted ==
  ASSUME CeilingTyped, NEW o \in Owners, NEW S \in {tickets, tickets \cup {o}, tickets \ {o}},
         NEW e, e = [exposed EXCEPT ![o] = 0]
  PROVE  SetTotal(e, S) <= SetTotal(exposed, tickets)
<1> DEFINE R == tickets \ {o}
<1>1. IsFiniteSet(tickets) /\ IsFiniteSet(R) /\ tickets \subseteq Owners
  BY OwnersFinite DEF CeilingTyped
<1>2. /\ \A x \in Owners : e[x] \in Nat /\ exposed[x] \in Nat
      /\ \A x \in R : e[x] = exposed[x]
      /\ e[o] = 0
  BY <1>1 DEF CeilingTyped
<1>3. SetTotal(e, R) = SetTotal(exposed, R) /\ SetTotal(e, R) \in Nat
  <2> HIDE DEF R
  <2>1. \A x \in R : e[x] \in Nat /\ e[x] = exposed[x]
    BY <1>1, <1>2 DEF R
  <2>2. \A x \in R : e[x] \in Int
    BY <2>1
  <2> QED
    BY <1>1, <2>1, <2>2, TotalSame, TotalNatural
<1>4. SetTotal(e, R \cup {o}) = e[o] + SetTotal(e, R)
  <2> HIDE DEF R
  <2>1. o \notin R /\ e[o] \in Int /\ \A x \in R : e[x] \in Int
    BY <1>1, <1>2 DEF R
  <2> QED
    BY <1>1, <2>1, TotalAdds
<1>5. SetTotal(exposed, R) <= SetTotal(exposed, tickets)
  <2>1. CASE o \in tickets
    <3>1. SetTotal(exposed, tickets) = exposed[o] + SetTotal(exposed, R)
      BY <1>1, <1>2, <2>1, TotalRemoves
    <3> QED
      BY <1>2, <1>3, <3>1
  <2>2. CASE o \notin tickets
    <3>1. R = tickets
      BY <2>2
    <3> QED
      BY <1>3, <3>1
  <2> QED
    BY <2>1, <2>2
<1>6. S = R \/ S = R \cup {o}
  OBVIOUS
<1> HIDE DEF R
<1>7. SetTotal(exposed, tickets) \in Int
  BY <1>1, <1>2, TotalRemoves
<1> QED
  BY <1>2, <1>3, <1>4, <1>5, <1>6, <1>7

LEMMA RoomGrows ==
  ASSUME CeilingHeld, CeilingTyped',
         SetTotal(exposed', tickets') <= SetTotal(exposed, tickets),
         UNCHANGED want,
         \A s \in Symbols : at'[s] = "approved" /\ fresh'[s] => at[s] = "approved" /\ fresh[s]
  PROVE  CeilingHeld'
<1> SUFFICES ASSUME NEW s \in Symbols, at'[s] = "approved", fresh'[s], ~(Cap <= 0)
             PROVE  (OpenRisk(tickets) + SoftRisk(want[s]) <= Cap)'
  BY DEF CeilingHeld, RoomKept
<1>1. SetTotal(exposed, tickets) + SoftRisk(want[s]) <= Cap
  BY RiskIsTotal DEF CeilingHeld, RoomKept
<1>2. SetTotal(exposed, tickets) \in Int /\ SetTotal(exposed', tickets') \in Int
  <2>1. IsFiniteSet(tickets) /\ IsFiniteSet(tickets')
    BY OwnersFinite DEF CeilingHeld, CeilingTyped
  <2>2. (\A x \in tickets : exposed[x] \in Int) /\ (\A x \in tickets' : exposed'[x] \in Int)
    BY DEF CeilingHeld, CeilingTyped
  <2> QED
    BY <2>1, <2>2, TotalRemoves
<1>3. SoftRisk(want[s]) \in Nat /\ SoftRisk(want[s])' = SoftRisk(want[s])
  BY TradeRisk DEF CeilingHeld, CeilingTyped, SoftRisk, At
<1> QED
  BY <1>1, <1>2, <1>3, RiskIsTotal, CeilingAssumption

LEMMA CheckKeeps ==
  ASSUME CeilingHeld, NEW s \in Symbols, NEW shown \in SUBSET tickets, Check(s, shown)
  PROVE  CeilingHeld'
<1>1. PICK wish \in Trades : /\ Approved(shown, SoftRisk(wish))
                              /\ want' = [want EXCEPT ![s] = wish]
  BY DEF Check
<1>2. CeilingTyped'
  BY <1>1 DEF Check, CeilingHeld, CeilingTyped
<1>3. UNCHANGED <<tickets, exposed>> /\ OpenRisk(tickets)' = OpenRisk(tickets)
  BY RiskIsTotal DEF Check
<1>4. ASSUME NEW t \in Symbols, at'[t] = "approved", fresh'[t]
      PROVE  Cap <= 0 \/ OpenRisk(tickets) + SoftRisk(want'[t]) <= Cap
  <2>1. CASE t = s
    <3>1. shown = tickets /\ want'[t] = wish
      BY <1>1, <1>4, <2>1 DEF Check, CeilingHeld, CeilingTyped
    <3> QED
      BY <1>1, <3>1 DEF Approved
  <2>2. CASE t # s
    <3>1. at[t] = "approved" /\ fresh[t] /\ want'[t] = want[t]
      BY <1>1, <1>4, <2>2 DEF Check, CeilingHeld, CeilingTyped
    <3> QED
      BY <3>1 DEF CeilingHeld, RoomKept
  <2> QED
    BY <2>1, <2>2
<1>5. \A t \in Symbols : SoftRisk(want[t])' = SoftRisk(want'[t])
  BY DEF SoftRisk, At
<1> QED
  BY <1>2, <1>3, <1>4, <1>5 DEF CeilingHeld, RoomKept

LEMMA TakesKeeps ==
  ASSUME CeilingHeld, NEW o \in Owners, NEW counted \in Nat, Takes(o, counted),
         at' \in [Symbols -> {"idle", "approved"}],
         \A s \in Symbols : at'[s] = "approved" => at[s] = "approved",
         UNCHANGED want
  PROVE  CeilingHeld'
<1>1. CeilingTyped'
  BY DEF Takes, CeilingHeld, CeilingTyped
<1>2. CASE counted = 0
  <2>1. SetTotal(exposed', tickets') <= SetTotal(exposed, tickets)
    BY <1>2, RiskLifted DEF Takes, CeilingHeld
  <2>2. \A s \in Symbols : fresh'[s] => fresh[s]
    BY DEF Takes
  <2> QED
    BY <1>1, <2>1, <2>2, RoomGrows
<1>3. CASE counted # 0
  <2>1. \A s \in Symbols : ~fresh'[s]
    BY <1>3 DEF Takes
  <2> QED
    BY <1>1, <2>1 DEF CeilingHeld, RoomKept
<1> QED
  BY <1>2, <1>3

LEMMA LiftKeeps ==
  ASSUME CeilingHeld, NEW o \in Owners, BreakEven(o) \/ Close(o)
  PROVE  CeilingHeld'
<1>1. CeilingTyped'
  BY DEF BreakEven, Close, CeilingHeld, CeilingTyped
<1>2. /\ exposed' = [exposed EXCEPT ![o] = 0]
      /\ tickets' \in {tickets, tickets \ {o}}
      /\ UNCHANGED <<at, want, fresh>>
  BY DEF BreakEven, Close
<1>3. SetTotal(exposed', tickets') <= SetTotal(exposed, tickets)
  BY <1>2, RiskLifted DEF CeilingHeld
<1> QED
  BY <1>1, <1>2, <1>3, RoomGrows

LEMMA StepKeepsCeiling == CeilingHeld /\ [CeilingNext]_ceilingVars => CeilingHeld'
<1> SUFFICES ASSUME CeilingHeld, [CeilingNext]_ceilingVars PROVE CeilingHeld'
  OBVIOUS
<1>1. ASSUME NEW s \in Symbols, CheckSound(s) \/ CheckBlank(s)
      PROVE  CeilingHeld'
  BY <1>1, CheckKeeps DEF CheckSound, CheckBlank
<1>2. ASSUME NEW s \in Symbols, Place(s)
      PROVE  CeilingHeld'
  <2>1. s \in Owners /\ want[s] \in Trades \cup {NoTrade}
    BY DEF Owners, CeilingHeld, CeilingTyped
  <2>2. At(CatastropheDist(want[s].dist), want[s]) \in Nat
    BY <2>1, TradeRisk
  <2>3. /\ Takes(s, At(CatastropheDist(want[s].dist), want[s]))
        /\ at' = [at EXCEPT ![s] = "idle"]
        /\ UNCHANGED want
    BY <1>2 DEF Place
  <2>4. /\ at' \in [Symbols -> {"idle", "approved"}]
        /\ \A t \in Symbols : at'[t] = "approved" => at[t] = "approved"
    BY <2>3 DEF CeilingHeld, CeilingTyped
  <2> QED
    BY <2>1, <2>2, <2>3, <2>4, TakesKeeps
<1>3. ASSUME NEW s \in Symbols, OrderRejected(s)
      PROVE  CeilingHeld'
  <2>1. CeilingTyped' /\ \A t \in Symbols : at'[t] = "approved" => at[t] = "approved"
    BY <1>3 DEF OrderRejected, CeilingHeld, CeilingTyped
  <2>2. SetTotal(exposed, tickets) \in Int
    BY OwnersFinite, TotalRemoves DEF CeilingHeld, CeilingTyped
  <2> QED
    BY <1>3, <2>1, <2>2, RoomGrows DEF OrderRejected
<1>4. CASE OpenByHand
  <2>1. PICK counted \in {0} \cup {SoftRisk(wish) : wish \in Trades} : Takes(Manual, counted)
    BY <1>4 DEF OpenByHand
  <2>2. counted \in Nat /\ Manual \in Owners
    BY TradeRisk DEF Owners
  <2> QED
    BY <1>4, <2>1, <2>2, TakesKeeps DEF OpenByHand, CeilingHeld, CeilingTyped
<1>5. ASSUME NEW o \in Owners, BreakEven(o) \/ Close(o)
      PROVE  CeilingHeld'
  BY <1>5, LiftKeeps
<1>6. CASE UNCHANGED ceilingVars
  <2>1. CeilingTyped' /\ UNCHANGED <<tickets, exposed, at, want, fresh>>
    BY <1>6 DEF ceilingVars, CeilingHeld, CeilingTyped
  <2>2. SetTotal(exposed, tickets) \in Int
    BY OwnersFinite, TotalRemoves DEF CeilingHeld, CeilingTyped
  <2> QED
    BY <2>1, <2>2, RoomGrows
<1> QED
  BY <1>1, <1>2, <1>3, <1>4, <1>5, <1>6 DEF CeilingNext

(* With a ceiling in force, an order that nobody overtook since a sound    *)
(* read leaves the account inside it, for any number of processes, trades, *)
(* closes and breakeven moves (evaluate_portfolio_ceiling).                *)
THEOREM CeilingStands ==
  ASSUME Cap > 0
  PROVE  CeilingSpec => CeilingUnlessOvertaken
<1>1. CeilingInit => CeilingHeld
  <2> SUFFICES ASSUME CeilingInit PROVE CeilingHeld
    OBVIOUS
  <2> QED
    BY DEF CeilingInit, CeilingHeld, CeilingTyped, RoomKept
<1>2. CeilingHeld =>
        \A s \in Symbols :
          (at[s] = "approved" /\ s \in tickets' \ tickets /\ fresh[s]) =>
            OpenRisk(tickets) + SoftRisk(want[s]) <= Cap
  BY CeilingAssumption DEF CeilingHeld, RoomKept
<1> QED
  BY <1>1, <1>2, StepKeepsCeiling, PTL DEF CeilingSpec, CeilingUnlessOvertaken
=============================================================================
