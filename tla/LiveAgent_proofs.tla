-------------------------- MODULE LiveAgent_proofs --------------------------
(***************************************************************************)
(* Proof that a process whose position reads are sound holds one position  *)
(* of its own at a time, whatever the interleaving of its coroutines, that *)
(* all of the process's state keeps its type, sound reads or not, and that *)
(* the guard counts each close once through empty reads and reopenings.    *)
(***************************************************************************)
EXTENDS LiveAgent, FiniteSetTheorems, TLAPS

UsedSoundly == [blips: {0}, faults: Nat, crashes: Nat]

(* The inductive invariant.  The last conjunct carries the position check  *)
(* over the awaits between it and the fill; the one before it keeps a      *)
(* ticket of the process's own from being opened a second time.            *)
IInv ==
  /\ status \in [Tickets -> {"free", "open", "closed"}]
  /\ own \in SUBSET Tickets
  /\ ~blip
  /\ used \in UsedSoundly
  /\ sig \in Signals
  /\ \A t, u \in own : status[t] = "open" /\ status[u] = "open" => t = u
  /\ \A t \in own : status[t] # "free"
  /\ sig.pc = "order" => \A t \in own : status[t] # "open"

LEMMA InitHolds == Init => IInv
BY DEF Init, IInv, UsedSoundly, Signals, SignalPlaces, Idle

(* What the monitor, the broker and the operator can do to the account is  *)
(* to close tickets.                                                       *)
ClosesAtMost ==
  \/ status' = status
  \/ \E t \in Tickets : status' = [status EXCEPT ![t] = "closed"]

LEMMA FaultSound == IInv /\ Fault => used' \in UsedSoundly
BY DEF IInv, Fault, UsedSoundly

LEMMA MonitorClosesAtMost ==
  ASSUME IInv, MonitorStep
  PROVE  ClosesAtMost /\ UNCHANGED <<own, blip, sig>> /\ used' \in UsedSoundly
<1> USE DEF ClosesAtMost, broker
<1>1. CASE MonitorStart \/ EmergencyRead \/ EmergencyDone \/ Read
  BY <1>1 DEF MonitorStart, EmergencyRead, EmergencyDone, Read, IInv
<1>2. ASSUME NEW t \in Tickets, EmergencyClose(t)
      PROVE  ClosesAtMost /\ UNCHANGED <<own, blip, sig, used>>
  BY <1>2 DEF EmergencyClose, ClosedAtBroker
<1>3. ASSUME NEW t \in Tickets, EmergencyCloseRefused(t)
      PROVE  UNCHANGED <<status, own, blip, sig>> /\ Fault
  BY <1>3 DEF EmergencyCloseRefused
<1>4. CASE AccountUnreadable
  BY <1>4, FaultSound DEF AccountUnreadable
<1>5. CASE AccountRead \/ DailyLimit \/ DailyLimitDone \/ Observe
  BY <1>5 DEF AccountRead, DailyLimit, DailyLimitDone, Observe, IInv
<1>6. ASSUME NEW t \in Tickets, HandleClose(t) \/ CloseResolved(t)
      PROVE  UNCHANGED <<status, own, blip, sig, used>>
  BY <1>6 DEF HandleClose, CloseResolved
<1>7. ASSUME NEW t \in Tickets, SoftStop(t)
      PROVE  ClosesAtMost /\ UNCHANGED <<own, blip, sig, used>>
  BY <1>7 DEF SoftStop, ClosedAtBroker
<1>8. CASE ClosesDone \/ ManageDone
  BY <1>8 DEF ClosesDone, ManageDone, IInv
<1> QED
  BY <1>1, <1>2, <1>3, <1>4, <1>5, <1>6, <1>7, <1>8, FaultSound DEF MonitorStep, IInv

(* Such a step keeps the invariant while the signal coroutine stands still *)
(* or gives up.                                                            *)
LEMMA ClosingKeeps ==
  ASSUME IInv, ClosesAtMost, UNCHANGED <<own, blip>>, used' \in UsedSoundly,
         sig' \in Signals, sig'.pc = "order" => sig.pc = "order"
  PROVE  IInv'
<1>1. CASE status' = status
  BY <1>1 DEF IInv
<1>2. ASSUME NEW t \in Tickets, status' = [status EXCEPT ![t] = "closed"]
      PROVE  IInv'
  <2>1. status' \in [Tickets -> {"free", "open", "closed"}]
    BY <1>2 DEF IInv
  <2>2. \A u \in own : status'[u] = status[u] \/ status'[u] = "closed"
    BY <1>2 DEF IInv
  <2> QED
    BY <2>1, <2>2 DEF IInv
<1> QED
  BY <1>1, <1>2 DEF ClosesAtMost

LEMMA SignalKeeps ==
  ASSUME IInv, SignalStep
  PROVE  IInv'
<1> USE DEF broker, Step
<1>1. sig.pc \in SignalPlaces /\ DOMAIN sig = {"pc", "ticket"}
  BY DEF IInv, Signals
<1>2. \A place \in SignalPlaces : [sig EXCEPT !.pc = place] \in Signals
  BY DEF IInv, Signals
<1>3. CASE Iterate \/ NewBar \/ NoNewBar \/ NoSignal \/ PreTradeCheck \/ Rejected
  <2>1. /\ sig' \in Signals
        /\ sig'.pc # "order"
        /\ UNCHANGED <<status, own, blip, used>>
    BY <1>2, <1>3 DEF Iterate, NewBar, NoNewBar, NoSignal, PreTradeCheck, Rejected,
                      Onward, Signals, SignalPlaces, IInv
  <2> QED
    BY <2>1, ClosingKeeps DEF ClosesAtMost, IInv
<1>4. CASE Evaluate
  <2>1. \A t \in own : status[t] # "open"
    BY <1>4 DEF Evaluate, Visible, Open, IInv
  <2>2. sig' \in Signals /\ UNCHANGED <<status, own, blip, used>>
    BY <1>2, <1>4 DEF Evaluate, SignalPlaces
  <2> QED
    BY <2>1, <2>2 DEF IInv
<1>5. ASSUME NEW t \in Tickets, Filled(t)
      PROVE  IInv'
  <2>1. /\ sig.pc = "order"
        /\ status[t] = "free"
        /\ status' = [status EXCEPT ![t] = "open"]
        /\ own' = own \cup {t}
        /\ sig' = [pc |-> "filled", ticket |-> {t}]
        /\ UNCHANGED <<blip, used>>
    BY <1>5 DEF Filled, At
  <2>2. sig' \in Signals /\ sig'.pc # "order"
    BY <2>1 DEF Signals, SignalPlaces
  <2>3. /\ status' \in [Tickets -> {"free", "open", "closed"}]
        /\ own' \in SUBSET Tickets
        /\ \A u \in own' : u # t => status'[u] = status[u] /\ u \in own
        /\ status'[t] = "open"
    BY <2>1 DEF IInv
  <2>4. \A u \in own' : status'[u] = "open" => u = t
    BY <2>1, <2>3 DEF IInv
  <2> QED
    BY <2>1, <2>2, <2>3, <2>4 DEF IInv
<1>6. ASSUME NEW t \in Tickets, RegisterEntry(t)
      PROVE  IInv'
  <2>1. sig' \in Signals /\ sig'.pc # "order" /\ UNCHANGED <<status, own, blip, used>>
    BY <1>6 DEF RegisterEntry, Onward, Signals, SignalPlaces
  <2> QED
    BY <2>1, ClosingKeeps DEF ClosesAtMost, IInv
<1> QED
  BY <1>3, <1>4, <1>5, <1>6 DEF SignalStep

LEMMA NextHolds ==
  ASSUME MaxBlips = 0, IInv, [Next]_vars
  PROVE  IInv'
<1> USE DEF broker
<1>1. CASE MonitorStep
  BY <1>1, MonitorClosesAtMost, ClosingKeeps DEF IInv
<1>2. CASE SignalStep
  BY <1>2, SignalKeeps
<1>3. ASSUME NEW t \in Tickets, BrokerCloses(t)
      PROVE  IInv'
  <2>1. ClosesAtMost /\ UNCHANGED <<own, blip, sig, used>>
    BY <1>3 DEF BrokerCloses, ClosedAtBroker, ClosesAtMost
  <2> QED
    BY <2>1, ClosingKeeps DEF IInv
<1>4. ASSUME NEW t \in Tickets, OutsiderOpens(t)
      PROVE  IInv'
  <2>1. /\ status[t] = "free"
        /\ status' = [status EXCEPT ![t] = "open"]
        /\ UNCHANGED <<own, blip, sig, used>>
    BY <1>4 DEF OutsiderOpens
  <2>2. status' \in [Tickets -> {"free", "open", "closed"}]
    BY <2>1 DEF IInv
  <2>3. \A u \in own : status'[u] = status[u]
    BY <2>1 DEF IInv
  <2> QED
    BY <2>1, <2>2, <2>3 DEF IInv
<1>5. ~BlipStarts /\ ~BlipEnds
  BY DEF BlipStarts, BlipEnds, IInv, UsedSoundly
<1>6. CASE OperatorToggles \/ CooldownOver
  <2>1. UNCHANGED <<status, own, blip, sig, used>>
    BY <1>6 DEF OperatorToggles, CooldownOver
  <2> QED
    BY <2>1, ClosingKeeps DEF ClosesAtMost, IInv
<1>7. CASE Crash
  <2>1. UNCHANGED <<status, own, blip>> /\ used' \in UsedSoundly
    BY <1>7 DEF Crash, IInv, UsedSoundly
  <2>2. sig' \in Signals /\ sig'.pc # "order"
    BY <1>7 DEF Crash, Idle, Signals, SignalPlaces
  <2> QED
    BY <2>1, <2>2, ClosingKeeps DEF ClosesAtMost
<1>8. CASE Start
  <2>1. UNCHANGED <<status, own, blip, sig, used>>
    BY <1>8 DEF Start
  <2> QED
    BY <2>1, ClosingKeeps DEF ClosesAtMost, IInv
<1>9. CASE UNCHANGED vars
  BY <1>9, ClosingKeeps DEF vars, ClosesAtMost, IInv
<1> QED
  BY <1>1, <1>2, <1>3, <1>4, <1>5, <1>6, <1>7, <1>8, <1>9 DEF Next, Environment

LEMMA HoldsOne == IInv => OnePosition
<1> SUFFICES ASSUME IInv PROVE OnePosition
  OBVIOUS
<1> DEFINE S == own \cap Open
<1>1. \A t, u \in S : t = u
  BY DEF IInv, Open
<1>2. CASE S = {}
  BY <1>2, FS_EmptySet DEF OnePosition
<1>3. CASE S # {}
  <2>1. PICK t \in S : TRUE
    BY <1>3
  <2>2. S = {t}
    BY <1>1, <2>1
  <2>3. Cardinality({t}) = 1
    BY FS_Singleton
  <2> QED
    BY <2>2, <2>3 DEF OnePosition
<1> QED
  BY <1>2, <1>3

(* Where position reads are sound, the process never holds two positions   *)
(* of its own, for any set of tickets, any number of crashes and faults,   *)
(* with halts and outsiders (RiskManager.evaluate's max_open_positions).   *)
THEOREM OnePositionAtATime ==
  ASSUME MaxBlips = 0
  PROVE  Spec => []OnePosition
<1>1. IInv /\ [Next]_vars => IInv'
  BY NextHolds
<1> QED
  BY <1>1, InitHolds, HoldsOne, PTL DEF Spec

-----------------------------------------------------------------------------
(* Type correctness, one lemma per part of the system.                     *)
Accounts == [Tickets -> {"free", "open", "closed"}]
Bounds == [blips: Nat, faults: Nat, crashes: Nat]

LEMMA SnapshotTyped ==
  ASSUME NEW m \in Memories, NEW g \in Guards
  PROVE  Snapshot(m, g) \in Disks
BY DEF Memories, Snapshot, Disks

LEMMA CountedTyped ==
  ASSUME NEW g \in Guards, NEW t \in Tickets
  PROVE  Counted(g, t) \in Guards
BY DEF Guards, Counted

LEMMA RevertedTyped ==
  ASSUME NEW g \in Guards, NEW T
  PROVE  Reverted(g, T) \in Guards
<1>1. \A t \in Tickets : g.credit[t] - (IF t \in T THEN 1 ELSE 0) \in Int
  BY DEF Guards
<1> QED
  BY <1>1 DEF Guards, Reverted

LEMMA FaultTyped ==
  ASSUME used \in Bounds, Fault
  PROVE  used' \in Bounds
BY DEF Bounds, Fault

LEMMA CloseTyped ==
  ASSUME status \in Accounts, NEW t \in Tickets, ClosedAtBroker(t)
  PROVE  status' \in Accounts
BY DEF Accounts, ClosedAtBroker

LEMMA VisibleTyped == Visible \subseteq Tickets
BY DEF Visible, Open

LEMMA AtRestTyped == AtRest \in Monitors
BY DEF AtRest, Monitors, MonitorPlaces, MonitorAwaits

LEMMA SweepTyped ==
  ASSUME TypeOK, Sweep
  PROVE  mem' \in Memories /\ guard' \in Guards /\ disk' \in Disks /\ mon' \in Monitors
<1>1. PICK old : old \subseteq mem.recent /\
        LET recent == mem.recent \ old
        IN /\ mem' = Swept(recent)
           /\ guard' = Reverted(guard, Reopened(recent) \ mem.blank)
           /\ disk' = IF Reopened(recent) \cup Adopted(recent) = {} THEN disk
                      ELSE Snapshot(mem', guard')
           /\ mon' = [mon EXCEPT !.todo = mem.known \ mon.seen, !.pc = "closes"]
  BY DEF Sweep
<1> DEFINE recent == mem.recent \ old
<1>2. mem' \in Memories
  <2>1. /\ recent \subseteq Tickets
        /\ mon.seen \subseteq Tickets
        /\ Strangers \subseteq Tickets
        /\ Waiting(recent) \subseteq Tickets
        /\ Adopted(recent) \subseteq Tickets
        /\ Reopened(recent) \subseteq Tickets
    BY <1>1 DEF TypeOK, Memories, Monitors, Strangers, Waiting, Adopted, Reopened
  <2> QED
    BY <1>1, <2>1 DEF TypeOK, Memories, Swept
<1>3. guard' \in Guards
  BY <1>1, RevertedTyped DEF TypeOK
<1>4. disk' \in Disks
  BY <1>1, <1>2, <1>3, SnapshotTyped DEF TypeOK
<1>5. mon' \in Monitors
  BY <1>1 DEF TypeOK, Monitors, Memories, MonitorPlaces
<1> QED
  BY <1>2, <1>3, <1>4, <1>5

LEMMA ReportTyped ==
  ASSUME TypeOK, NEW t \in Tickets, NEW m \in Memories, Report(t, m)
  PROVE  guard' \in Guards /\ disk' \in Disks
BY CountedTyped, SnapshotTyped DEF TypeOK, Report

LEMMA MonitorTyped ==
  ASSUME TypeOK, MonitorStep
  PROVE  TypeOK'
<1> USE DEF TypeOK, broker
<1> USE DEF Accounts, Bounds
<1>1. CASE MonitorStart
  BY <1>1 DEF MonitorStart, AtRest, Monitors, MonitorPlaces, MonitorAwaits, Memories
<1>2. CASE EmergencyRead \/ EmergencyDone \/ Read \/ DailyLimit
  BY <1>2, VisibleTyped DEF EmergencyRead, EmergencyDone, Read, DailyLimit, Goto,
                            Monitors, MonitorPlaces, MonitorAwaits
<1>3. ASSUME NEW t \in Tickets, EmergencyClose(t)
      PROVE  TypeOK'
  <2>1. status' \in Accounts
    BY <1>3, CloseTyped DEF EmergencyClose
  <2>2. mon' \in Monitors
    BY <1>3 DEF EmergencyClose, Monitors
  <2> QED
    BY <1>3, <2>1, <2>2 DEF EmergencyClose
<1>4. ASSUME NEW t \in Tickets, EmergencyCloseRefused(t)
      PROVE  TypeOK'
  <2>1. mon' \in Monitors
    BY <1>4 DEF EmergencyCloseRefused, Monitors
  <2> QED
    BY <1>4, <2>1, FaultTyped DEF EmergencyCloseRefused
<1>5. CASE AccountUnreadable
  <2>1. mon' \in Monitors
    BY <1>5 DEF AccountUnreadable, Goto, Monitors, MonitorPlaces, MonitorAwaits
  <2> QED
    BY <1>5, <2>1, FaultTyped DEF AccountUnreadable
<1>6. CASE AccountRead \/ DailyLimitDone
  BY <1>6, SweepTyped DEF AccountRead, DailyLimitDone
<1>7. CASE Observe
  BY <1>7 DEF Observe, Memories, Monitors, MonitorPlaces
<1>8. ASSUME NEW t \in Tickets, HandleClose(t)
      PROVE  TypeOK'
  <2>1. mem' \in Memories
    BY <1>8 DEF HandleClose, Memories
  <2>2. mon' \in Monitors
    <3>1. \/ mon' = [mon EXCEPT !.todo = @ \ {t}]
          \/ mon' = [mon EXCEPT !.pc = "history", !.ticket = {t}]
      BY <1>8 DEF HandleClose
    <3>2. [mon EXCEPT !.todo = @ \ {t}] \in Monitors
      BY DEF Monitors
    <3>3. [mon EXCEPT !.pc = "history", !.ticket = {t}] \in Monitors
      BY DEF Monitors, MonitorPlaces, MonitorAwaits
    <3> QED
      BY <3>1, <3>2, <3>3
  <2>3. guard' \in Guards /\ disk' \in Disks
    BY <1>8, <2>1, ReportTyped DEF HandleClose
  <2> QED
    BY <1>8, <2>1, <2>2, <2>3 DEF HandleClose
<1>9. ASSUME NEW t \in Tickets, CloseResolved(t)
      PROVE  TypeOK'
  <2>1. mon' \in Monitors
    <3>1. \/ mon' = AtRest
          \/ mon' = [mon EXCEPT !.todo = @ \ {t}, !.ticket = {}, !.pc = "closes"]
      BY <1>9 DEF CloseResolved
    <3>2. [mon EXCEPT !.todo = @ \ {t}, !.ticket = {}, !.pc = "closes"] \in Monitors
      BY DEF Monitors, MonitorPlaces
    <3> QED
      BY <3>1, <3>2, AtRestTyped
  <2>2. guard' \in Guards /\ disk' \in Disks
    BY <1>9, ReportTyped DEF CloseResolved
  <2> QED
    BY <1>9, <2>1, <2>2 DEF CloseResolved
<1>10. CASE ClosesDone
  BY <1>10, AtRestTyped DEF ClosesDone, Memories, Monitors, MonitorPlaces, MonitorAwaits
<1>11. ASSUME NEW t \in Tickets, SoftStop(t)
       PROVE  TypeOK'
  <2>1. status' \in Accounts
    BY <1>11, CloseTyped DEF SoftStop
  <2>2. mem' \in Memories /\ mon' \in Monitors
    BY <1>11 DEF SoftStop, Memories, Monitors
  <2> QED
    BY <1>11, <2>1, <2>2 DEF SoftStop
<1>12. CASE ManageDone
  BY <1>12, AtRestTyped DEF ManageDone
<1> QED
  BY <1>1, <1>2, <1>3, <1>4, <1>5, <1>6, <1>7, <1>8, <1>9, <1>10, <1>11, <1>12
  DEF MonitorStep

LEMMA SignalTyped ==
  ASSUME TypeOK, SignalStep
  PROVE  TypeOK'
<1> USE DEF TypeOK, broker
<1>1. CASE Iterate \/ NoNewBar \/ NoSignal \/ PreTradeCheck \/ Evaluate \/ Rejected
  BY <1>1 DEF Iterate, NoNewBar, NoSignal, PreTradeCheck, Evaluate, Rejected,
              Step, Onward, Signals, SignalPlaces
<1>2. CASE NewBar
  BY <1>2, SnapshotTyped DEF NewBar, Step, Signals, SignalPlaces
<1>3. ASSUME NEW t \in Tickets, Filled(t)
      PROVE  TypeOK'
  BY <1>3 DEF Filled, Signals, SignalPlaces
<1>4. ASSUME NEW t \in Tickets, RegisterEntry(t)
      PROVE  TypeOK'
  <2>1. mem' \in Memories
    BY <1>4 DEF RegisterEntry, Memories
  <2>2. sig' \in Signals
    BY <1>4 DEF RegisterEntry, Onward, Signals, SignalPlaces
  <2> QED
    BY <1>4, <2>1, <2>2, SnapshotTyped DEF RegisterEntry
<1> QED
  BY <1>1, <1>2, <1>3, <1>4 DEF SignalStep

LEMMA FreshTyped == FreshMemory \in Memories /\ FreshGuard \in Guards
BY DEF FreshMemory, Memories, FreshGuard, Guards

LEMMA LifeTyped ==
  ASSUME TypeOK, Environment \/ Crash \/ Start
  PROVE  TypeOK'
<1> USE DEF TypeOK, broker
<1>1. ASSUME NEW t \in Tickets, BrokerCloses(t) \/ OutsiderOpens(t)
      PROVE  TypeOK'
  BY <1>1 DEF BrokerCloses, OutsiderOpens, ClosedAtBroker
<1>2. CASE BlipStarts \/ BlipEnds
  <2>1. UNCHANGED <<status, own, kill, mem, guard, disk, mon, sig>> /\ blip' \in BOOLEAN
    BY <1>2 DEF BlipStarts, BlipEnds
  <2>2. used' \in Bounds
    BY <1>2 DEF BlipStarts, BlipEnds, Bounds
  <2> QED
    BY <2>1, <2>2 DEF Bounds
<1>3. CASE OperatorToggles
  BY <1>3 DEF OperatorToggles
<1>4. CASE CooldownOver
  BY <1>4 DEF CooldownOver, Guards, Disks
<1>5. CASE Crash
  <2>1. mon' \in Monitors
    BY <1>5, AtRestTyped DEF Crash, Monitors, MonitorPlaces
  <2>2. sig' \in Signals
    BY <1>5 DEF Crash, Idle, Signals, SignalPlaces
  <2> QED
    BY <1>5, <2>1, <2>2, FreshTyped DEF Crash
<1>6. CASE Start
  <2>1. mem' \in Memories /\ guard' \in Guards
    BY <1>6, FreshTyped DEF Start, Memories, Disks
  <2> QED
    BY <1>6, <2>1, AtRestTyped DEF Start
<1> QED
  BY <1>1, <1>2, <1>3, <1>4, <1>5, <1>6 DEF Environment

LEMMA InitTyped == Init => TypeOK
<1> SUFFICES ASSUME Init PROVE TypeOK
  OBVIOUS
<1>1. disk \in Disks
  BY FreshTyped, SnapshotTyped DEF Init
<1>2. sig \in Signals
  BY DEF Init, Idle, Signals, SignalPlaces
<1> QED
  BY <1>1, <1>2, FreshTyped, AtRestTyped DEF Init, TypeOK

(* The broker's account, the monitor's dictionaries, the guard, both       *)
(* coroutines and the sidecar keep their types, whatever blips, faults and *)
(* restarts there are.                                                     *)
THEOREM TypeCorrect == Spec => []TypeOK
<1>1. TypeOK /\ [Next]_vars => TypeOK'
  <2>1. TypeOK /\ UNCHANGED vars => TypeOK'
    BY DEF TypeOK, vars
  <2> QED
    BY <2>1, MonitorTyped, SignalTyped, LifeTyped DEF Next
<1> QED
  BY <1>1, InitTyped, PTL DEF Spec

-----------------------------------------------------------------------------
(* The closes the guard has counted.  While there are no halts and no      *)
(* restarts a cycle that resolves closes finishes, so that no ticket's     *)
(* record loses its prices.                                                *)
Closing == mon.pc \in {"closes", "history"}

Trading ==
  /\ ~kill /\ ~mon.halted
  /\ mon.pc \in {"start", "read", "account", "closes", "history", "manage"}
  /\ mem.restored = {} /\ mem.blank = {}

(* One close at a time waits for its history, one order for its entry.     *)
OneAsked ==
  /\ mon.pc # "history" => mon.ticket = {}
  /\ mon.ticket \subseteq mem.recent
  /\ \A t, u \in mon.ticket : t = u
  /\ sig.pc # "filled" => sig.ticket = {}

(* A close is counted as long as it is on record, once its history is      *)
(* known: a reopening takes record and count away together.                *)
Credited ==
  \A t \in Tickets : guard.credit[t] = IF t \in mem.recent \ mon.ticket THEN 1 ELSE 0

(* What a cycle takes to be closed is not on record yet, and it has been   *)
(* seen, so that its excursion names prices.                               *)
ClosesNew ==
  IF Closing
  THEN /\ (mon.todo \ mon.ticket) \cap mem.recent = {}
       /\ mon.seen \cap (mem.recent \cup mon.todo) = {}
       /\ (mon.todo \ mon.ticket) \cup mon.seen \subseteq mem.exc
  ELSE mem.known \cap mem.recent = {} /\ mem.known \subseteq mem.exc

(* A ticket with a context, or about to get one by its registration, whose *)
(* close is on record is really closed and will not be read open again.    *)
GoneForGood ==
  \A t \in (mem.ctx \cup sig.ticket) \cap mem.recent : status[t] = "closed" /\ t \notin mon.seen

FreeUnknown ==
  \A t \in mem.recent \cup mem.known \cup mon.seen \cup mon.todo : status[t] # "free"

(* A ticket that is filled and not registered yet is not seen before a     *)
(* blip ends, and is missing from a later read only if it is closed.       *)
FillSeen ==
  /\ blip => sig.ticket \cap (mem.known \cup mon.seen) = {}
  /\ mon.pc = "account" => \A t \in (sig.ticket \cap mem.known) \ mon.seen : status[t] = "closed"
  /\ Closing => \A t \in sig.ticket \cap mon.todo : status[t] = "closed"

LedgerHeld ==
  /\ TypeOK /\ Trading /\ OneAsked /\ Credited
  /\ ClosesNew /\ GoneForGood /\ FreeUnknown /\ FillSeen

(* The steps that only move the account or the signal loop.                *)
LEMMA AccountKeepsLedger ==
  ASSUME LedgerHeld, ~Halts, ~FillBlips, Environment
  PROVE  LedgerHeld'
<1> USE DEF LedgerHeld, TypeOK, Closing, Trading, OneAsked, Credited, ClosesNew,
            GoneForGood, FreeUnknown, FillSeen, broker
<1>1. TypeOK'
  BY LifeTyped
<1>2. ASSUME NEW t \in Tickets, BrokerCloses(t) \/ OutsiderOpens(t)
      PROVE  LedgerHeld'
  <2>1. /\ UNCHANGED <<own, blip, kill, mem, guard, disk, mon, sig, used>>
        /\ \A u \in Tickets : \/ status'[u] = status[u]
                              \/ status'[u] = "closed"
                              \/ status[u] = "free" /\ status'[u] = "open"
    BY <1>2 DEF BrokerCloses, OutsiderOpens, ClosedAtBroker
  <2> QED
    BY <1>1, <2>1 DEF Memories, Monitors, Signals
<1>3. CASE BlipStarts
  BY <1>1, <1>3 DEF BlipStarts
<1>4. CASE BlipEnds
  BY <1>1, <1>4 DEF BlipEnds
<1>5. CASE CooldownOver
  <2>1. UNCHANGED <<status, own, blip, kill, mem, mon, sig>> /\ guard'.credit = guard.credit
    BY <1>5 DEF CooldownOver, Guards
  <2> QED
    BY <1>1, <2>1
<1> QED
  BY <1>2, <1>3, <1>4, <1>5 DEF Environment, OperatorToggles

LEMMA SignalKeepsLedger ==
  ASSUME LedgerHeld, SignalStep
  PROVE  LedgerHeld'
<1> USE DEF LedgerHeld, Closing, Trading, OneAsked, Credited, ClosesNew,
            GoneForGood, FreeUnknown, FillSeen, broker
<1>1. TypeOK'
  BY SignalTyped
<1>2. CASE Iterate \/ NewBar \/ NoNewBar \/ NoSignal \/ PreTradeCheck \/ Evaluate \/ Rejected
  <2>1. UNCHANGED <<status, blip, kill, mem, guard, mon>>
    BY <1>2 DEF Iterate, NewBar, NoNewBar, NoSignal, PreTradeCheck, Evaluate, Rejected
  <2>2. sig'.pc # "filled" /\ sig'.ticket = {}
    BY <1>2 DEF Iterate, NewBar, NoNewBar, NoSignal, PreTradeCheck, Evaluate, Rejected,
                At, Step, Onward, Signals, TypeOK
  <2> QED
    BY <1>1, <2>1, <2>2
<1>3. ASSUME NEW t \in Tickets, Filled(t)
      PROVE  LedgerHeld'
  <2>1. /\ UNCHANGED <<blip, kill, mem, guard, mon>>
        /\ sig' = [pc |-> "filled", ticket |-> {t}]
        /\ status[t] = "free" /\ status'[t] = "open"
        /\ \A u \in Tickets : u # t => status'[u] = status[u]
    BY <1>3 DEF Filled, TypeOK
  <2>2. t \notin mem.recent \cup mem.known \cup mon.seen \cup mon.todo
    BY <2>1
  <2>3. sig.ticket = {}
    BY <1>3 DEF Filled, At
  <2> QED
    BY <1>1, <2>1, <2>2, <2>3 DEF TypeOK, Memories, Monitors
<1>4. ASSUME NEW t \in Tickets, RegisterEntry(t)
      PROVE  LedgerHeld'
  <2>1. /\ UNCHANGED <<status, blip, kill, guard, mon>>
        /\ t \in sig.ticket
        /\ mem' = [mem EXCEPT !.ctx = @ \cup {t}, !.exc = @ \cup {t}]
        /\ sig'.pc # "filled" /\ sig'.ticket = {}
    BY <1>4 DEF RegisterEntry, Onward
  <2>2. /\ mem'.ctx = mem.ctx \cup {t} /\ mem'.exc = mem.exc \cup {t}
        /\ mem'.recent = mem.recent /\ mem'.known = mem.known
        /\ mem'.restored = mem.restored /\ mem'.blank = mem.blank
    BY <2>1 DEF TypeOK, Memories
  <2> QED
    BY <1>1, <2>1, <2>2
<1> QED
  BY <1>2, <1>3, <1>4 DEF SignalStep

(* A cycle up to the account read.                                         *)
LEMMA ReadKeepsLedger ==
  ASSUME LedgerHeld, MonitorStart \/ Read \/ AccountUnreadable
  PROVE  LedgerHeld'
<1> USE DEF LedgerHeld, Closing, Trading, OneAsked, Credited, ClosesNew,
            GoneForGood, FreeUnknown, FillSeen, broker
<1>1. TypeOK'
  BY MonitorTyped DEF MonitorStep
<1>2. CASE MonitorStart
  <2>1. /\ UNCHANGED <<status, blip, kill, guard, sig>>
        /\ mon'.pc = "read" /\ mon'.seen = {} /\ mon'.todo = {}
        /\ mon'.ticket = {} /\ ~mon'.halted /\ mon.ticket = {}
    BY <1>2 DEF MonitorStart, AtRest
  <2>2. /\ mem'.ctx = mem.ctx /\ mem'.exc = mem.exc
        /\ mem'.recent = mem.recent /\ mem'.known = mem.known
        /\ mem'.restored = mem.restored /\ mem'.blank = mem.blank
    BY <1>2 DEF MonitorStart, TypeOK, Memories
  <2>3. mon.pc = "start"
    BY <1>2 DEF MonitorStart
  <2> QED
    BY <1>1, <2>1, <2>2, <2>3
<1>3. CASE Read
  <2>1. /\ UNCHANGED <<status, blip, kill, mem, guard, sig>>
        /\ mon.pc = "read" /\ mon'.pc = "account" /\ mon'.seen = Visible
        /\ mon'.todo = mon.todo /\ mon'.ticket = mon.ticket /\ ~mon'.halted
    BY <1>3 DEF Read, TypeOK, Monitors
  <2>2. \A t \in Visible : status[t] = "open" /\ ~blip
    BY DEF Visible, Open
  <2>3. \A t \in Tickets \ Visible : blip \/ status[t] # "open"
    BY DEF Visible, Open
  <2>4. \A t \in Tickets : status[t] \in {"free", "open", "closed"}
    BY DEF TypeOK
  <2>5. mem.known \subseteq Tickets /\ sig.ticket \subseteq Tickets
    BY DEF TypeOK, Memories, Signals
  <2>6. \A t \in (sig.ticket \cap mem.known) \ Visible : status[t] = "closed"
    BY <2>3, <2>4, <2>5
  <2> QED
    BY <1>1, <2>1, <2>2, <2>6
<1>4. CASE AccountUnreadable
  <2>1. /\ UNCHANGED <<status, blip, kill, mem, guard, sig>>
        /\ mon.pc = "account" /\ mon'.pc = "start" /\ mon'.seen = mon.seen
        /\ mon'.todo = mon.todo /\ mon'.ticket = mon.ticket /\ ~mon'.halted
    BY <1>4 DEF AccountUnreadable, Goto, TypeOK, Monitors
  <2> QED
    BY <1>1, <2>1
<1> QED
  BY <1>2, <1>3, <1>4

(* The sweep takes the record of a ticket that is read open again off the  *)
(* books, and its count with it.                                           *)
LEMMA SweepKeepsLedger ==
  ASSUME LedgerHeld, ~LongBlips, AccountRead
  PROVE  LedgerHeld'
<1> DEFINE back == Strangers \cap mem.recent
<1>1. TypeOK'
  BY MonitorTyped DEF MonitorStep, LedgerHeld
<1>2. /\ mem' = Swept(mem.recent)
      /\ guard' = Reverted(guard, back \ mem.blank)
      /\ mon' = [mon EXCEPT !.todo = mem.known \ mon.seen, !.pc = "closes"]
  BY DEF AccountRead, Sweep, Reopened
<1>3. /\ UNCHANGED <<status, blip, kill, sig>> /\ mon.pc = "account"
      /\ mem.restored = {} /\ mem.blank = {} /\ mon.ticket = {} /\ ~mon.halted /\ ~kill
  BY DEF AccountRead, broker, LedgerHeld, Trading, OneAsked
<1>4. /\ mem'.ctx = mem.ctx \cup back \cup Adopted(mem.recent)
      /\ mem'.exc = mem.exc \cup mon.seen
      /\ mem'.recent = mem.recent \ back
      /\ mem'.known = mem.known
      /\ mem'.restored = {} /\ mem'.blank = {}
  <2>1. Stale = {}
    BY <1>3 DEF Stale
  <2>2. Reopened(mem.recent) = back
    BY DEF Reopened
  <2>3. mem \in Memories
    BY DEF LedgerHeld, TypeOK
  <2>4. /\ mem'.ctx = (mem.ctx \ Stale) \cup Reopened(mem.recent) \cup Adopted(mem.recent)
        /\ mem'.exc = (mem.exc \cup mon.seen) \ Stale
        /\ mem'.recent = mem.recent \ Reopened(mem.recent)
        /\ mem'.known = mem.known
        /\ mem'.restored = {}
        /\ mem'.blank = mem.blank \ (mem.recent \ mem.recent)
    BY <1>2, <2>3 DEF Swept, Memories
  <2> QED
    BY <1>3, <2>1, <2>2, <2>4
<1>5. Adopted(mem.recent) \cap mem.recent = {}
  BY DEF Adopted
<1>6. /\ mon'.seen = mon.seen /\ mon'.todo = mem.known \ mon.seen
      /\ mon'.pc = "closes" /\ mon'.ticket = {} /\ ~mon'.halted
  BY <1>2, <1>3 DEF LedgerHeld, TypeOK, Monitors
<1>7. \A t \in Tickets : guard'.credit[t] = IF t \in mem.recent \ back THEN 1 ELSE 0
  <2>1. \A t \in Tickets : guard.credit[t] = IF t \in mem.recent THEN 1 ELSE 0
    BY <1>3 DEF LedgerHeld, Credited
  <2>2. back \ mem.blank = back
    BY <1>3
  <2>3. CASE back = {}
    BY <1>2, <2>1, <2>2, <2>3 DEF Reverted
  <2>4. CASE back # {}
    <3>1. \A t \in Tickets : guard'.credit[t] = guard.credit[t] - (IF t \in back THEN 1 ELSE 0)
      BY <1>2, <2>2, <2>4 DEF Reverted
    <3>2. back \subseteq mem.recent
      OBVIOUS
    <3> QED
      BY <2>1, <3>1, <3>2
  <2> QED
    BY <2>3, <2>4
<1>8. Strangers = mon.seen \ mem.ctx
  BY DEF Strangers
<1>9. mon.seen \cap mem.ctx \cap mem.recent = {}
  BY DEF LedgerHeld, GoneForGood
<1>10. mon.seen \cap (mem.recent \ back) = {}
  BY <1>8, <1>9
<1>11. Trading' /\ OneAsked' /\ Credited'
  BY <1>3, <1>4, <1>6, <1>7 DEF LedgerHeld, Trading, OneAsked, Credited
<1>12. ClosesNew'
  BY <1>3, <1>4, <1>6, <1>10 DEF LedgerHeld, Closing, ClosesNew
<1>13. GoneForGood'
  BY <1>3, <1>4, <1>5, <1>6 DEF LedgerHeld, GoneForGood
<1>14. FreeUnknown' /\ FillSeen'
  BY <1>3, <1>4, <1>6 DEF LedgerHeld, Closing, FreeUnknown, FillSeen
<1> QED
  BY <1>1, <1>11, <1>12, <1>13, <1>14 DEF LedgerHeld

(* A close is put on record, and counted now or after its history.         *)
LEMMA CloseKeepsLedger ==
  ASSUME LedgerHeld, NEW t \in Tickets, HandleClose(t)
  PROVE  LedgerHeld'
<1>1. TypeOK'
  BY MonitorTyped DEF MonitorStep, LedgerHeld
<1>2. /\ UNCHANGED <<status, blip, kill, sig>>
      /\ mon.pc = "closes" /\ t \in mon.todo
      /\ mon.ticket = {} /\ ~mon.halted /\ ~kill
  BY DEF HandleClose, broker, LedgerHeld, OneAsked, Trading
<1>3. t \notin mem.recent /\ t \notin mon.seen /\ t \in mem.exc
  BY <1>2 DEF LedgerHeld, ClosesNew, Closing
<1>4. /\ mem'.ctx = mem.ctx \ {t} /\ mem'.exc = mem.exc \ {t}
      /\ mem'.recent = mem.recent \cup {t} /\ mem'.known = mem.known
      /\ mem'.restored = {} /\ mem'.blank = {}
  <2>1. mem \in Memories /\ mem.restored = {} /\ mem.blank = {}
    BY DEF LedgerHeld, TypeOK, Trading
  <2> QED
    BY <1>3, <2>1 DEF HandleClose, Memories
<1>5. mon'.seen = mon.seen /\ ~mon'.halted
  <2>1. \/ mon' = [mon EXCEPT !.todo = @ \ {t}]
        \/ mon' = [mon EXCEPT !.pc = "history", !.ticket = {t}]
    BY DEF HandleClose
  <2>2. mon \in Monitors
    BY DEF LedgerHeld, TypeOK
  <2> QED
    BY <1>2, <2>1, <2>2 DEF Monitors
<1>6. \/ /\ mon'.pc = "closes" /\ mon'.todo = mon.todo \ {t} /\ mon'.ticket = {}
         /\ guard' = Counted(guard, t)
      \/ /\ mon'.pc = "history" /\ mon'.todo = mon.todo /\ mon'.ticket = {t}
         /\ guard' = guard
  BY <1>2 DEF HandleClose, Report, LedgerHeld, TypeOK, Monitors
<1>7. Credited'
  <2>1. guard.credit[t] = 0
    BY <1>3 DEF LedgerHeld, Credited
  <2>2. CASE guard' = Counted(guard, t) /\ mon'.ticket = {}
    <3>1. \A u \in Tickets : guard'.credit[u] = IF u = t THEN 1 ELSE guard.credit[u]
      BY <2>1, <2>2 DEF Counted, LedgerHeld, TypeOK, Guards
    <3> QED
      BY <1>2, <1>4, <2>2, <3>1 DEF LedgerHeld, Credited
  <2>3. CASE guard' = guard /\ mon'.ticket = {t}
    BY <1>2, <1>3, <1>4, <2>3 DEF LedgerHeld, Credited
  <2> QED
    BY <1>6, <2>2, <2>3
<1>8. Trading' /\ OneAsked'
  BY <1>2, <1>4, <1>5, <1>6 DEF LedgerHeld, Trading, OneAsked
<1>9. ClosesNew'
  BY <1>2, <1>3, <1>4, <1>5, <1>6 DEF LedgerHeld, Closing, ClosesNew
<1>10. GoneForGood'
  BY <1>2, <1>3, <1>4, <1>5 DEF LedgerHeld, GoneForGood, FillSeen, Closing
<1>11. FreeUnknown' /\ FillSeen'
  BY <1>2, <1>4, <1>5, <1>6 DEF LedgerHeld, Closing, FreeUnknown, FillSeen
<1> QED
  BY <1>1, <1>7, <1>8, <1>9, <1>10, <1>11 DEF LedgerHeld

LEMMA HistoryKeepsLedger ==
  ASSUME LedgerHeld, NEW t \in Tickets, CloseResolved(t)
  PROVE  LedgerHeld'
<1>1. TypeOK'
  BY MonitorTyped DEF MonitorStep, LedgerHeld
<1>2. /\ UNCHANGED <<status, blip, kill, sig, mem>>
      /\ mon.pc = "history" /\ mon.ticket = {t} /\ t \in mem.recent
      /\ ~mon.halted /\ ~kill /\ mem.blank = {}
  BY DEF CloseResolved, broker, LedgerHeld, OneAsked, Trading
<1>3. /\ guard' = Counted(guard, t)
      /\ mon'.pc = "closes" /\ mon'.todo = mon.todo \ {t} /\ mon'.ticket = {}
      /\ mon'.seen = mon.seen /\ ~mon'.halted
  <2>1. mon \in Monitors
    BY DEF LedgerHeld, TypeOK
  <2> QED
    BY <1>2, <2>1 DEF CloseResolved, Report, Monitors
<1>4. Credited'
  <2>1. guard.credit[t] = 0
    BY <1>2 DEF LedgerHeld, Credited
  <2>2. \A u \in Tickets : guard'.credit[u] = IF u = t THEN 1 ELSE guard.credit[u]
    BY <1>3, <2>1 DEF Counted, LedgerHeld, TypeOK, Guards
  <2> QED
    BY <1>2, <1>3, <2>2 DEF LedgerHeld, Credited
<1>5. Trading' /\ OneAsked' /\ ClosesNew'
  BY <1>2, <1>3 DEF LedgerHeld, Trading, OneAsked, ClosesNew, Closing
<1>6. GoneForGood' /\ FreeUnknown' /\ FillSeen'
  BY <1>2, <1>3 DEF LedgerHeld, GoneForGood, FreeUnknown, FillSeen, Closing
<1> QED
  BY <1>1, <1>4, <1>5, <1>6 DEF LedgerHeld

(* The end of a cycle.                                                     *)
LEMMA EndKeepsLedger ==
  ASSUME LedgerHeld, ClosesDone \/ ManageDone \/ \E t \in Tickets : SoftStop(t)
  PROVE  LedgerHeld'
<1> USE DEF LedgerHeld, Closing, Trading, OneAsked, Credited, ClosesNew,
            GoneForGood, FreeUnknown, FillSeen, broker
<1>1. TypeOK'
  BY MonitorTyped DEF MonitorStep, LedgerHeld
<1>2. CASE ClosesDone
  <2>1. /\ UNCHANGED <<status, blip, kill, guard, sig>>
        /\ mon.pc = "closes" /\ mon.ticket = {}
        /\ mon'.pc = "manage" /\ mon'.seen = mon.seen /\ mon'.todo = {}
        /\ mon'.ticket = {} /\ ~mon'.halted
    BY <1>2 DEF ClosesDone, TypeOK, Monitors
  <2>2. /\ mem'.ctx = mem.ctx /\ mem'.exc = mem.exc
        /\ mem'.recent = mem.recent /\ mem'.known = mon.seen
        /\ mem'.restored = mem.restored /\ mem'.blank = mem.blank
    BY <1>2 DEF ClosesDone, TypeOK, Memories
  <2> QED
    BY <1>1, <2>1, <2>2
<1>3. CASE ManageDone
  <2>1. /\ UNCHANGED <<status, blip, kill, mem, guard, sig>>
        /\ mon.pc = "manage" /\ mon.ticket = {} /\ mon' = AtRest
    BY <1>3 DEF ManageDone
  <2> QED
    BY <1>1, <2>1 DEF AtRest
<1>4. ASSUME NEW t \in Tickets, SoftStop(t)
      PROVE  LedgerHeld'
  <2>1. /\ UNCHANGED <<blip, kill, guard, sig>>
        /\ mon.pc = "manage" /\ mon'.pc = "manage" /\ mon'.seen = mon.seen \ {t}
        /\ mon'.todo = mon.todo /\ mon'.ticket = mon.ticket /\ ~mon'.halted
    BY <1>4 DEF SoftStop, TypeOK, Monitors
  <2>2. /\ mem'.ctx = mem.ctx /\ mem'.exc = mem.exc
        /\ mem'.recent = mem.recent /\ mem'.known = mem.known
        /\ mem'.restored = mem.restored /\ mem'.blank = mem.blank
    BY <1>4 DEF SoftStop, TypeOK, Memories
  <2>3. \A u \in Tickets : status'[u] = status[u] \/ status'[u] = "closed"
    BY <1>4 DEF SoftStop, ClosedAtBroker, TypeOK
  <2>4. /\ mem.recent \subseteq Tickets /\ mem.known \subseteq Tickets
        /\ mon.seen \subseteq Tickets /\ mon.todo \subseteq Tickets
    BY DEF TypeOK, Memories, Monitors
  <2> QED
    BY <1>1, <2>1, <2>2, <2>3, <2>4
<1> QED
  BY <1>2, <1>3, <1>4

LEMMA StepKeepsLedger ==
  ASSUME MaxCrashes = 0, ~Halts, ~LongBlips, ~FillBlips, LedgerHeld, [Next]_vars
  PROVE  LedgerHeld'
<1>1. CASE UNCHANGED vars
  BY <1>1 DEF vars, LedgerHeld, TypeOK, Trading, OneAsked, Credited, ClosesNew, Closing,
              GoneForGood, FreeUnknown, FillSeen
<1>2. CASE MonitorStep
  <2>1. mon.pc \notin {"emergency_read", "emergency_close", "observe_read", "observe_account"}
    BY DEF LedgerHeld, Trading
  <2>2. CASE MonitorStart \/ Read \/ AccountUnreadable
    BY <2>2, ReadKeepsLedger
  <2> QED
    BY <1>2, <2>1, <2>2, SweepKeepsLedger, CloseKeepsLedger, HistoryKeepsLedger, EndKeepsLedger
    DEF MonitorStep, EmergencyRead, EmergencyClose, EmergencyCloseRefused, EmergencyDone,
        DailyLimit, DailyLimitDone, Observe
<1>3. ~Crash /\ ~Start
  <2>1. used.crashes \in Nat /\ mon.pc # "down"
    BY DEF LedgerHeld, TypeOK, Trading
  <2> QED
    BY <2>1 DEF Crash, Start
<1> QED
  BY <1>1, <1>2, <1>3, SignalKeepsLedger, AccountKeepsLedger DEF Next

(* Where no halt stops the sweeps, no restart loses the memory and a blip  *)
(* neither outlasts the records nor hides a fill, the guard counts a close *)
(* once and a ticket that is tracked again not at all, for any tickets,    *)
(* blips, faults and outsiders (_on_trade_closed, _on_trade_reopened).     *)
THEOREM EveryCloseCountedOnce ==
  ASSUME MaxCrashes = 0, ~Halts, ~LongBlips, ~FillBlips
  PROVE  Spec => []CountedOnce
<1>1. Init => LedgerHeld
  <2> SUFFICES ASSUME Init PROVE LedgerHeld
    OBVIOUS
  <2>1. TypeOK
    BY InitTyped
  <2> QED
    BY <2>1 DEF Init, LedgerHeld, Trading, OneAsked, Credited, ClosesNew, Closing,
                GoneForGood, FreeUnknown, FillSeen, FreshMemory, FreshGuard, AtRest, Idle
<1>2. LedgerHeld /\ [Next]_vars => LedgerHeld'
  BY StepKeepsLedger
<1>3. LedgerHeld => CountedOnce
  BY DEF LedgerHeld, Credited, GoneForGood, CountedOnce, Open
<1> QED
  BY <1>1, <1>2, <1>3, PTL DEF Spec
=============================================================================
