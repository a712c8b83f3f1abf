--------------------------- MODULE PortfolioCeiling ---------------------------
(***************************************************************************)
(* The account-wide ceiling on open risk.  One process per symbol sizes a  *)
(* signal, reads every ticket the broker holds, compares and only then     *)
(* places its order: the broker is the only thing the processes share.     *)
(* Risk is a whole number of parts of the account balance.                 *)
(***************************************************************************)
EXTENDS Integers, FiniteSetsExt

CONSTANTS
  Symbols,     \* the processes, one per symbol
  Manual,      \* the owner of the ticket a human may open
  Trades,      \* freshly sized tickets: soft stop distance and lot
  TwiceMult,   \* SoftStopConfig.catastrophe_mult, doubled
  MinDist,     \* SoftStopConfig.min_catastrophe_pips
  Cap,         \* RiskConfig.portfolio_max_open_risk_pct
  MaxBlanks    \* bound: position reads that come back empty

ASSUME CeilingAssumption ==
  /\ IsFiniteSet(Symbols)
  /\ \A trade \in Trades : trade.dist \in Nat /\ trade.lot \in Nat
  /\ {TwiceMult, MinDist, Cap} \subseteq Nat

VARIABLES
  tickets,   \* owners whose ticket is open
  exposed,   \* what portfolio_open_risk_pct counts for each owner's ticket
  at,        \* where each process is in _route_signal
  want,      \* the trade each process has sized
  fresh,     \* history: nobody has taken risk since the process read the tickets
  blanks     \* bound: spent

ceilingVars == <<tickets, exposed, at, want, fresh, blanks>>

Owners == Symbols \cup {Manual}

NoTrade == [dist |-> 0, lot |-> 0]

(* The money a trade risks when its stop is dist away.                     *)
At(dist, trade) == dist * trade.lot

SoftRisk(trade) == At(trade.dist, trade)

CeilingInit ==
  /\ tickets = {}
  /\ exposed = [o \in Owners |-> 0]
  /\ at = [s \in Symbols |-> "idle"]
  /\ want = [s \in Symbols |-> NoTrade]
  /\ fresh = [s \in Symbols |-> FALSE]
  /\ blanks = 0

-----------------------------------------------------------------------------
(* portfolio_open_risk_pct over the tickets a read returned.               *)
OpenRisk(seen) == MapThenSumSet(LAMBDA o : exposed[o], seen)

(* Slip: the ticket about to be opened is left out of the comparison.      *)
ApprovedWithoutNew(seen, add) == Cap <= 0 \/ OpenRisk(seen) <= Cap

(* evaluate_portfolio_ceiling.                                             *)
Approved(seen, add) == Cap <= 0 \/ OpenRisk(seen) + add <= Cap

(* The rest of _route_signal: one position per symbol, a size, and the     *)
(* ceiling on the tickets the read shows.                                  *)
Check(s, seen) ==
  /\ at[s] = "idle"
  /\ s \notin tickets
  /\ \E trade \in Trades :
       /\ Approved(seen, SoftRisk(trade))
       /\ want' = [want EXCEPT ![s] = trade]
  /\ at' = [at EXCEPT ![s] = "approved"]
  /\ fresh' = [fresh EXCEPT ![s] = seen = tickets]
  /\ UNCHANGED <<tickets, exposed>>

CheckSound(s) == Check(s, tickets) /\ UNCHANGED blanks

(* The terminal answers None, which get_open_positions turns into an empty *)
(* list.                                                                   *)
CheckBlank(s) ==
  /\ blanks < MaxBlanks
  /\ blanks' = blanks + 1
  /\ Check(s, {})

(* The broker's stop of the new ticket is not the soft stop it was sized   *)
(* on: soft_stop.catastrophe_stop.                                         *)
CatastropheDist(dist) == Max({(TwiceMult * dist) \div 2, MinDist})

Takes(o, counted) ==
  /\ tickets' = tickets \cup {o}
  /\ exposed' = [exposed EXCEPT ![o] = counted]
  /\ fresh' = [s \in Symbols |-> fresh[s] /\ counted = 0]

Place(s) ==
  /\ at[s] = "approved"
  /\ Takes(s, At(CatastropheDist(want[s].dist), want[s]))
  /\ at' = [at EXCEPT ![s] = "idle"]
  /\ UNCHANGED <<want, blanks>>

OrderRejected(s) ==
  /\ at[s] = "approved"
  /\ at' = [at EXCEPT ![s] = "idle"]
  /\ UNCHANGED <<tickets, exposed, want, fresh, blanks>>

-----------------------------------------------------------------------------
(* A human opens a ticket; without a stop it counts as no risk at all.     *)
OpenByHand ==
  /\ Manual \notin tickets
  /\ \E counted \in {0} \cup {SoftRisk(trade) : trade \in Trades} : Takes(Manual, counted)
  /\ UNCHANGED <<at, want, blanks>>

(* The stop goes to the entry, from where nothing is at risk.              *)
BreakEven(o) ==
  /\ exposed[o] > 0
  /\ exposed' = [exposed EXCEPT ![o] = 0]
  /\ UNCHANGED <<tickets, at, want, fresh, blanks>>

Close(o) ==
  /\ o \in tickets
  /\ tickets' = tickets \ {o}
  /\ exposed' = [exposed EXCEPT ![o] = 0]
  /\ UNCHANGED <<at, want, fresh, blanks>>

CeilingNext ==
  \/ \E s \in Symbols : CheckSound(s) \/ CheckBlank(s) \/ Place(s) \/ OrderRejected(s)
  \/ OpenByHand
  \/ \E o \in Owners : BreakEven(o) \/ Close(o)

CeilingSpec == CeilingInit /\ [][CeilingNext]_ceilingVars

-----------------------------------------------------------------------------
(* An order that no other ticket has overtaken since a sound read leaves   *)
(* the account inside the ceiling, its own risk taken at the soft stop:    *)
(* closes and breakeven moves in between only make room.                   *)
CeilingUnlessOvertaken ==
  [][\A s \in Symbols :
       (at[s] = "approved" /\ s \in tickets' \ tickets /\ fresh[s]) =>
         OpenRisk(tickets) + SoftRisk(want[s]) <= Cap]_ceilingVars
=============================================================================
