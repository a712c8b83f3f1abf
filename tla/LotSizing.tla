------------------------------ MODULE LotSizing ------------------------------
(***************************************************************************)
(* The lot of an order: PositionSizer.calculate_lot as _route_signal calls *)
(* it, and the lot that RiskManager.evaluate computes with position_size   *)
(* only to see that it is not zero.  Money is in cents, a lot in steps of  *)
(* the broker, risk in hundredths of a percent of the balance; the code's  *)
(* rounding is a floor to a step, which \div is.  The epsilon of           *)
(* _floor_to_step makes a float meet the integer it stands for.            *)
(* A step moves one of the inputs of the computation.                      *)
(***************************************************************************)
EXTENDS Integers, FiniteSetsExt

CONSTANTS
  Balances, Stops, Risks, Margins,   \* inputs: cents, pips, basis points, cents
  PipStep,       \* cents a pip is worth on one lot step
  MarginStep,    \* cents of margin one lot step takes
  BufferPct,     \* PositionSizer.margin_buffer
  MinLot, MaxLot,
  MaxRisk,       \* PositionSizer.max_risk_pct
  HardRisk,      \* LiveConfig.max_trade_risk_pct
  Target, Floor, \* RiskConfig.pct_target and pct_floor
  Tiers          \* lot_hard_cap_under_300, _under_1000, lot_hard_cap

ASSUME SizingAssumption ==
  /\ {PipStep, MarginStep, MinLot, MaxLot, HardRisk} \subseteq Nat \ {0}
  /\ {BufferPct, MaxRisk, Target, Floor} \subseteq Nat
  /\ Balances \subseteq Nat /\ Margins \subseteq Nat /\ Risks \subseteq Nat
  /\ Stops \subseteq Nat \ {0}
  /\ MinLot <= MaxLot

VARIABLE trade   \* the inputs: balance, stop, risk and free margin

Inputs == [balance: Balances, stop: Stops, risk: Risks, free: Margins]

-----------------------------------------------------------------------------
Whole == 10000   \* basis points in the whole balance

(* Cents lost when the stop of a trade of that lot is hit.                 *)
Loss(lot, t) == lot * (t.stop * PipStep)

(* A lot's loss is within a risk: lot * stop * pip value <= balance * risk *)
Within(lot, t, risk) == Loss(lot, t) * Whole <= t.balance * risk

(* _floor_to_step of the lot that loses exactly a risk.                    *)
LotFor(t, risk) == (t.balance * risk) \div (Whole * (t.stop * PipStep))

(* Below the broker's minimum, the minimum when it is not too much more    *)
(* than was asked for, or within the band.                                 *)
SnapAllowed(t) ==
  Loss(MinLot, t) * Whole * 2 <= t.balance * t.risk * 3 \/ Within(MinLot, t, MaxRisk)

(* Slip: the minimum lot whatever it risks.                                *)
SnapAlways(t) ==
  IF LotFor(t, t.risk) >= MinLot THEN LotFor(t, t.risk) ELSE MinLot

Snapped(t) ==
  IF LotFor(t, t.risk) >= MinLot THEN LotFor(t, t.risk)
  ELSE IF SnapAllowed(t) THEN MinLot ELSE 0

MarginLot(t) == (t.free * BufferPct) \div (100 * MarginStep)

CappedByMargin(lot, t) ==
  IF lot <= MarginLot(t) THEN lot
  ELSE IF MarginLot(t) < MinLot THEN 0 ELSE MarginLot(t)

(* Slip: the ceiling is left to the conviction band.                       *)
Unclamped(lot, t) == lot

(* The oversize ceiling never goes below the minimum lot.                  *)
CappedByRisk(lot, t) ==
  IF lot <= MinLot \/ Within(lot, t, HardRisk) THEN lot
  ELSE Max({MinLot, LotFor(t, HardRisk)})

(* calculate_lot.                                                          *)
CalculateLot(t) ==
  IF t.balance = 0 THEN 0
  ELSE CappedByRisk(CappedByMargin(Min({Snapped(t), MaxLot}), t), t)

-----------------------------------------------------------------------------
(* sizing.position_size and its tiers of the balance.                      *)
HardCap(balance) ==
  CASE balance < 30000  -> Tiers[1]
    [] balance < 100000 -> Tiers[2]
    [] OTHER            -> Tiers[3]

PositionSize(t) ==
  LET lot == IF LotFor(t, Target) >= MinLot THEN LotFor(t, Target)
             ELSE IF Within(MinLot, t, Floor) THEN MinLot ELSE 0
      capped == Min({lot, HardCap(t.balance)})
  IN IF t.balance = 0 \/ capped < MinLot THEN 0 ELSE capped

(* The lot sent to the broker; 0 is no order.  evaluate's own lot is        *)
(* dropped.                                                                *)
OrderLot(t) == IF PositionSize(t) > 0 THEN CalculateLot(t) ELSE 0

-----------------------------------------------------------------------------
Init == trade \in Inputs

(* One input differs: another balance, stop, risk or free margin.          *)
Differs ==
  \/ \E b \in Balances : trade' = [trade EXCEPT !.balance = b]
  \/ \E s \in Stops    : trade' = [trade EXCEPT !.stop = s]
  \/ \E r \in Risks    : trade' = [trade EXCEPT !.risk = r]
  \/ \E f \in Margins  : trade' = [trade EXCEPT !.free = f]

Spec == Init /\ [][Differs]_trade

-----------------------------------------------------------------------------
(* Whatever rounding, snapping and clamping were applied, an order above    *)
(* the minimum lot risks no more than was asked for and than the ceiling,  *)
(* one of the minimum lot no more than half as much again or the band, and  *)
(* the account has the margin for it.                                      *)
OrderWithinBudget ==
  LET lot == OrderLot(trade)
  IN lot > 0 =>
       /\ lot \in MinLot..MaxLot
       /\ lot > MinLot => Within(lot, trade, trade.risk) /\ Within(lot, trade, HardRisk)
       /\ lot = MinLot => SnapAllowed(trade)
       /\ lot * MarginStep * 100 <= trade.free * BufferPct
=============================================================================
