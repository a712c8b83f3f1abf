----------------------------- MODULE PaperBroker -----------------------------
(***************************************************************************)
(* The simulated broker: a balance, the positions and the last price, in   *)
(* whole pips and volume steps worth one unit of money a pip.  Its bars    *)
(* are loaded once, so the price is the last close of whichever timeframe  *)
(* was asked for last.  It executes no stop and no target by itself.       *)
(***************************************************************************)
EXTENDS Integers, FiniteSetsExt

CONSTANTS
  Closes,     \* last closes of the timeframes
  Spread,     \* spread_pips
  Slippage,   \* slippage_pips
  Volumes,    \* lots ordered or closed
  Levels,     \* stops and targets asked for
  Initial,    \* initial_balance
  MaxTickets  \* bound: orders filled

ASSUME PaperAssumption ==
  /\ Volumes \subseteq Nat \ {0}
  /\ Closes \cup Levels \cup {Spread, Slippage, Initial} \subseteq Int

VARIABLES
  bid,        \* _last_prices, or NoPrice
  balance,    \* _balance
  positions,  \* _positions: what is open
  next        \* _next_ticket

paperVars == <<bid, balance, positions, next>>

NoPrice == 0

PaperInit ==
  /\ bid = NoPrice
  /\ balance = Initial
  /\ positions = {}
  /\ next = 1

-----------------------------------------------------------------------------
Ask == bid + Spread

(* A position is valued at the price it would close at.                    *)
ClosePrice(pos) == IF pos.long THEN bid ELSE Ask

Pips(pos) == IF pos.long THEN ClosePrice(pos) - pos.open ELSE pos.open - ClosePrice(pos)

Profit(pos, volume) == Pips(pos) * volume

Float == MapThenSumSet(LAMBDA pos : Profit(pos, pos.volume), positions)

Worth == balance + Float

(* get_latest_bars.                                                        *)
FetchBars(close) ==
  /\ bid' = close
  /\ UNCHANGED <<balance, positions, next>>

(* validate_sltp against the price of the order.                           *)
Valid(long, stop, target, price) ==
  IF long THEN stop < price /\ price < target ELSE target < price /\ price < stop

(* place_order: refused without a price or with a stop or a target on the  *)
(* wrong side; filled with a slippage either way.                          *)
PlaceOrder(long, volume, stop, target, slip) ==
  LET price == IF long THEN Ask ELSE bid
  IN /\ next <= MaxTickets
     /\ bid # NoPrice
     /\ Valid(long, stop, target, price)
     /\ positions' = positions \cup
          {[ticket |-> next, long |-> long, volume |-> volume, open |-> price + slip,
            stop |-> stop, target |-> target, profit |-> 0]}
     /\ next' = next + 1
     /\ UNCHANGED <<bid, balance>>

(* Slip: a partial close banks the profit of the whole position.           *)
RealisedWhole(pos, volume) == Profit(pos, pos.volume)

Realised(pos, volume) == Profit(pos, volume)

(* close_position, in whole or in part; what is left keeps the profit it   *)
(* showed last.                                                            *)
ClosePosition(pos, volume) ==
  LET closing == Min({volume, pos.volume})
      left    == [pos EXCEPT !.volume = @ - closing]
  IN /\ balance' = balance + Realised(pos, closing)
     /\ positions' = (positions \ {pos}) \cup (IF left.volume > 0 THEN {left} ELSE {})
     /\ UNCHANGED <<bid, next>>

(* modify_position takes any stop.                                         *)
ModifyPosition(pos, stop) ==
  /\ positions' = (positions \ {pos}) \cup {[pos EXCEPT !.stop = stop]}
  /\ UNCHANGED <<bid, balance, next>>

Shown(pos) == Profit(pos, pos.volume)

(* get_open_positions.                                                     *)
ReadPositions ==
  /\ positions' = {[pos EXCEPT !.profit = Shown(pos)] : pos \in positions}
  /\ UNCHANGED <<bid, balance, next>>

PaperNext ==
  \/ \E close \in Closes : FetchBars(close)
  \/ \E long \in BOOLEAN, volume \in Volumes, stop \in Levels, target \in Levels,
        slip \in {-Slippage, 0, Slippage} : PlaceOrder(long, volume, stop, target, slip)
  \/ \E pos \in positions, volume \in Volumes : ClosePosition(pos, volume)
  \/ \E pos \in positions, stop \in Levels : ModifyPosition(pos, stop)
  \/ ReadPositions

PaperSpec == PaperInit /\ [][PaperNext]_paperVars

-----------------------------------------------------------------------------
(* At one price the account is worth the same whatever is closed, in one   *)
(* piece or in parts, modified or read; a fill costs its spread and        *)
(* slippage and nothing else.                                              *)
BooksBalance ==
  [][bid' = bid =>
       LET filled == {pos \in positions' : pos.ticket = next /\ next' # next}
       IN Worth' = Worth + MapThenSumSet(LAMBDA pos : Profit(pos, pos.volume), filled)]_paperVars
=============================================================================
