------------------------ MODULE GuardSession_proofs ------------------------
(***************************************************************************)
(* The guard's own consistency holds for every limit, cooldown, day length *)
(* and pattern of phantom closes.                                          *)
(***************************************************************************)
EXTENDS GuardSession, TLAPS

(* A record is sound when its streak, size, halt and reason agree.         *)
Sound(g) == BreakerTripped(g) /\ SizeMatches(g) /\ ReasonMatches(g)

SoundGuards == {g \in Guards : Sound(g)}

(* The inductive invariant: types, and both records sound.                 *)
IInv ==
  /\ guard \in SoundGuards
  /\ saved \in SoundGuards
  /\ now \in Nat
  /\ blip \in BOOLEAN
  /\ ticket \in [Tickets -> Slots]
  /\ truth \in Truths

LEMMA DayType == ASSUME NEW n \in Nat PROVE Day(n) \in Nat
BY GuardAssumption DEF Day

LEMMA FreshSound == FreshGuard \in SoundGuards
BY GuardAssumption
   DEF FreshGuard, SoundGuards, Guards, HaltReasons, NoDay, NoCooldown, Sound,
       BreakerTripped, SizeMatches, ReasonMatches

LEMMA RollDaySound ==
  ASSUME NEW g \in SoundGuards, NEW n \in Nat
  PROVE  RollDay(g, n) \in SoundGuards
<1> DEFINE d == Day(n)
<1>1. d \in Nat
  BY DayType
<1> HIDE DEF d
<1>2. ASSUME NEW h \in SoundGuards PROVE [h EXCEPT !.day = d] \in SoundGuards
  BY <1>1, <1>2
     DEF SoundGuards, Guards, Sound, BreakerTripped, SizeMatches, ReasonMatches
<1>3. RollDay(g, n) = [(IF g.day \in {NoDay, d} THEN g ELSE FreshGuard)
                         EXCEPT !.day = d]
  BY DEF RollDay, d
<1> QED
  BY <1>2, <1>3, FreshSound

LEMMA RegisterSound ==
  ASSUME NEW g \in SoundGuards, NEW o \in Outcomes,
         NEW d \in Directions \cup {NoDirection}, NEW n \in Nat
  PROVE  RegisterClose(g, o, d, n) \in SoundGuards
<1> DEFINE r == RollDay(g, n)
<1>1. r \in SoundGuards
  BY RollDaySound
<1> HIDE DEF r
<1>2. CASE o \in Losses
  <2> DEFINE w == RegisterLoss(r, o, d, n)
  <2>1. w \in SoundGuards
    <3>1. /\ DOMAIN w = DOMAIN r
          /\ w = [f \in DOMAIN r |-> w[f]]
          /\ w.day = r.day
          /\ w.consecutive_losses = r.consecutive_losses + 1
          /\ w.size = "reduced"
          /\ w.cooldown_until = n + CooldownSlots
          /\ w.last_loss_direction = d
      BY <1>1 DEF RegisterLoss, SoundGuards, Guards
    <3>2. w.session_halted = (\/ r.session_halted
                              \/ o = "catastrophe"
                              \/ w.consecutive_losses >= MaxConsecutiveLosses)
      BY <1>1, <3>1 DEF RegisterLoss, SoundGuards, Guards
    <3>3. w.halt_reason = IF w.consecutive_losses >= MaxConsecutiveLosses
                            THEN "consecutive"
                          ELSE IF o = "catastrophe" THEN "stop_out"
                          ELSE r.halt_reason
      BY <1>1, <3>1 DEF RegisterLoss, SoundGuards, Guards
    <3>4. w.session_halted \in BOOLEAN /\ w.halt_reason \in HaltReasons
      BY <1>1, <3>2, <3>3 DEF SoundGuards, Guards, HaltReasons
    <3>5. w \in Guards
      BY <1>1, <3>1, <3>4, GuardAssumption DEF SoundGuards, Guards
    <3> HIDE DEF w
    <3>6. BreakerTripped(w)
      BY <3>2, Zenon DEF BreakerTripped
    <3>7. SizeMatches(w)
      <4>1. r.consecutive_losses \in Nat
        BY <1>1 DEF SoundGuards, Guards
      <4> QED
        BY <3>1, <4>1 DEF SizeMatches
    <3>8. ReasonMatches(w)
      BY <1>1, <3>2, <3>3 DEF SoundGuards, Sound, ReasonMatches
    <3> QED
      BY <3>5, <3>6, <3>7, <3>8 DEF SoundGuards, Sound
  <2> QED
    BY <1>2, <2>1 DEF RegisterClose, r
<1>3. CASE o = "win"
  <2> DEFINE w == [r EXCEPT !.consecutive_losses = 0, !.size = "full"]
  <2>1. w \in SoundGuards
    <3>1. w \in Guards
      BY <1>1 DEF SoundGuards, Guards
    <3>2. /\ w.consecutive_losses = 0
          /\ w.size = "full"
          /\ w.session_halted = r.session_halted
          /\ w.halt_reason = r.halt_reason
      BY <1>1 DEF SoundGuards, Guards
    <3> HIDE DEF w
    <3>3. Sound(w)
      BY <1>1, <3>2, GuardAssumption
         DEF SoundGuards, Sound, BreakerTripped, SizeMatches, ReasonMatches
    <3> QED
      BY <3>1, <3>3 DEF SoundGuards
  <2> QED
    BY <1>3, <2>1 DEF RegisterClose, Losses, r
<1>4. CASE o = "scratch"
  BY <1>1, <1>4 DEF RegisterClose, Losses, r
<1> QED
  BY <1>2, <1>3, <1>4 DEF Outcomes

LEMMA RevertSound ==
  ASSUME NEW g \in SoundGuards, NEW o \in Outcomes,
         NEW d \in Directions \cup {NoDirection}, NEW n \in Nat
  PROVE  RevertClose(g, o, d, n) \in SoundGuards
<1> DEFINE r == RollDay(g, n)
<1>1. r \in SoundGuards
  BY RollDaySound
<1> HIDE DEF r
<1>2. RevertLoss(r, d) \in SoundGuards
  <2> DEFINE w == RevertLoss(r, d)
             lifted == /\ r.session_halted
                       /\ r.halt_reason = "consecutive"
                       /\ w.consecutive_losses < MaxConsecutiveLosses
  <2>1. /\ r.consecutive_losses \in Nat
        /\ r.session_halted \in BOOLEAN
        /\ r.size \in {"full", "reduced"}
        /\ Sound(r)
    BY <1>1 DEF SoundGuards, Guards
  <2>2. /\ w = [f \in DOMAIN r |-> w[f]]
        /\ w.day = r.day
        /\ w.consecutive_losses = IF r.consecutive_losses > 0
                                    THEN r.consecutive_losses - 1 ELSE 0
        /\ w.size = IF w.consecutive_losses = 0 THEN "full" ELSE r.size
        /\ w.cooldown_until = NoCooldown
        /\ w.last_loss_direction \in Directions \cup {NoDirection}
    BY <1>1 DEF RevertLoss, SoundGuards, Guards
  <2>3. w.session_halted = (r.session_halted /\ ~lifted)
    BY <1>1, <2>2 DEF RevertLoss, SoundGuards, Guards
  <2>4. w.halt_reason = IF lifted THEN "none" ELSE r.halt_reason
    BY <1>1, <2>2 DEF RevertLoss, SoundGuards, Guards
  <2>5. w \in Guards
    <3>1. w.session_halted \in BOOLEAN /\ w.halt_reason \in HaltReasons
      BY <1>1, <2>3, <2>4 DEF SoundGuards, Guards, HaltReasons
    <3> QED
      BY <1>1, <2>1, <2>2, <3>1 DEF SoundGuards, Guards, NoCooldown
  <2> HIDE DEF w
  <2>6. BreakerTripped(w)
    <3>1. SUFFICES ASSUME w.consecutive_losses >= MaxConsecutiveLosses
                   PROVE  w.session_halted
      BY DEF BreakerTripped
    <3>2. r.consecutive_losses >= MaxConsecutiveLosses
      BY <2>1, <2>2, <3>1, GuardAssumption
    <3>3. ~(w.consecutive_losses < MaxConsecutiveLosses)
      BY <2>1, <2>2, <3>1, GuardAssumption
    <3> QED
      BY <2>1, <2>3, <3>2, <3>3 DEF Sound, BreakerTripped
  <2>7. SizeMatches(w)
    BY <2>1, <2>2 DEF Sound, SizeMatches
  <2>8. ReasonMatches(w)
    BY <2>1, <2>3, <2>4 DEF Sound, ReasonMatches
  <2> QED
    BY <2>5, <2>6, <2>7, <2>8 DEF SoundGuards, Sound, w
<1> QED
  BY <1>1, <1>2 DEF RevertClose, r

-----------------------------------------------------------------------------
LEMMA RestoreSound ==
  ASSUME NEW g \in SoundGuards, NEW n \in Nat
  PROVE  RestoreGuard(g, n) \in SoundGuards
BY FreshSound DEF RestoreGuard

LEMMA InitSound == Init => IInv
<1> SUFFICES ASSUME Init PROVE IInv
  OBVIOUS
<1>1. ticket \in [Tickets -> Slots] /\ truth \in Truths
  BY DEF Init, Free, Slots, Outcomes, NothingLost, Truths
<1> QED
  BY <1>1, FreshSound DEF Init, IInv

LEMMA TicketMarked ==
  ASSUME NEW f \in [Tickets -> Slots], NEW t \in Tickets,
         NEW st \in {"none", "open", "lost"}, NEW o \in Outcomes
  PROVE  [f EXCEPT ![t].status = st, ![t].outcome = o] \in [Tickets -> Slots]
<1> DEFINE s == [f[t] EXCEPT !.status = st, !.outcome = o]
<1>1. f[t] \in Slots
  OBVIOUS
<1>2. s \in Slots
  BY <1>1 DEF Slots
<1>3. [f EXCEPT ![t].status = st, ![t].outcome = o] = [f EXCEPT ![t] = s]
  BY <1>1 DEF Slots
<1> HIDE DEF s
<1> QED
  BY <1>2, <1>3

LEMMA NextSound == IInv /\ [Next]_vars => IInv'
<1> SUFFICES ASSUME IInv, [Next]_vars PROVE IInv'
  OBVIOUS
<1>1. RollDay(guard, now) \in SoundGuards
  BY RollDaySound DEF IInv
<1>2. Free \in Slots
  BY DEF Free, Slots, Outcomes
<1>3. ASSUME NEW t \in Tickets
      PROVE  /\ ticket[t] \in Slots
             /\ ticket[t].direction \in Directions \cup {NoDirection}
             /\ ticket[t].outcome \in Outcomes
  BY DEF IInv, Slots
<1>4. ASSUME NEW t \in Tickets, NEW d \in Directions, NEW s \in BOOLEAN,
             Enter(t, d, s)
      PROVE  IInv'
  <2>1. ticket' \in [Tickets -> Slots]
    BY <1>2, <1>4 DEF Enter, IInv, Slots, Free
  <2> QED
    BY <1>1, <1>4, <2>1 DEF Enter, IInv
<1>5. CASE Refuse
  BY <1>1, <1>5 DEF Refuse, IInv
<1>6. ASSUME NEW t \in Tickets, NEW d \in Directions \cup {NoDirection},
             Adopt(t, d)
      PROVE  IInv'
  <2>1. ticket' \in [Tickets -> Slots]
    BY <1>2, <1>6 DEF Adopt, IInv, Slots, Free
  <2> QED
    BY <1>6, <2>1 DEF Adopt, IInv
<1>7. ASSUME NEW t \in Tickets, NEW o \in Outcomes, Close(t, o)
      PROVE  IInv'
  <2>1. guard' \in SoundGuards
    BY <1>3, <1>7, RegisterSound DEF Close, Report, IInv
  <2>2. truth' \in Truths
    <3>1. HappenedToday(o, ticket[t].direction) \in Truths
      BY <1>3, GuardAssumption DEF HappenedToday, IInv, Truths
    <3> QED
      BY <1>7, <3>1 DEF Close
  <2>3. ticket' \in [Tickets -> Slots]
    BY <1>2, <1>7 DEF Close, IInv
  <2> QED
    BY <1>7, <2>1, <2>2, <2>3 DEF Close, Report, IInv
<1>8. ASSUME NEW t \in Tickets, NEW o \in Phantoms, Vanish(t, o)
      PROVE  IInv'
  <2>1. o \in Outcomes
    BY SessionAssumption
  <2>2. guard' \in SoundGuards
    BY <1>3, <1>8, <2>1, RegisterSound DEF Vanish, Report, IInv
  <2>3. ticket' \in [Tickets -> Slots]
    BY <1>8, <2>1, TicketMarked DEF Vanish, IInv
  <2>4. truth' \in Truths
    BY <1>8 DEF Vanish, IInv, Truths
  <2> QED
    BY <1>8, <2>2, <2>3, <2>4 DEF Vanish, Report, IInv
<1>9. ASSUME NEW t \in Tickets, Reopen(t)
      PROVE  IInv'
  <2>1. guard' \in SoundGuards
    BY <1>3, <1>9, RevertSound DEF Reopen, IInv
  <2>2. ticket' \in [Tickets -> Slots]
    BY <1>9, TicketMarked DEF Reopen, IInv, Outcomes
  <2> QED
    BY <1>9, <2>1, <2>2 DEF Reopen, IInv
<1>10. ASSUME NEW t \in Tickets, Lapse(t) \/ CloseUnheard(t)
       PROVE  IInv'
  <2>1. CASE Lapse(t)
    BY <2>1, TicketMarked DEF Lapse, IInv, Outcomes
  <2>2. CASE CloseUnheard(t)
    BY <1>2, <2>2 DEF CloseUnheard, IInv
  <2> QED
    BY <1>10, <2>1, <2>2
<1>11. CASE Blip
  BY <1>11 DEF Blip, IInv
<1>12. ASSUME NEW gone \in SUBSET Tickets, Restart(gone)
       PROVE  IInv'
  <2>1. ticket' \in [Tickets -> Slots]
    BY <1>2, <1>12 DEF Restart, IInv
  <2> QED
    BY <1>12, <2>1, RestoreSound DEF Restart, IInv
<1>13. CASE Tick
  <2>1. NothingLost(truth.phantom) \in Truths
    BY DEF NothingLost, Truths, IInv
  <2> QED
    BY <1>13, <2>1 DEF Tick, IInv
<1>14. CASE UNCHANGED vars
  BY <1>14 DEF vars, IInv
<1> QED
  BY <1>4, <1>5, <1>6, <1>7, <1>8, <1>9, <1>10, <1>11, <1>12, <1>13, <1>14
     DEF Next

THEOREM Inductive == Spec => []IInv
BY InitSound, NextSound, PTL DEF Spec

(* Every reachable state is well typed.                                    *)
THEOREM TypeCorrect == Spec => []TypeOK
<1>1. IInv => TypeOK
  BY DEF IInv, TypeOK, SoundGuards
<1> QED
  BY <1>1, Inductive, PTL

LEMMA CurrentSound == IInv => Sound(Current) /\ Sound(saved)
BY RollDaySound DEF IInv, Current, SoundGuards

(* No sequence of closes, phantom closes, reverts, rollovers and restarts  *)
(* leaves the guard over its consecutive-loss limit with the session open. *)
THEOREM BreakerAlwaysHolds == Spec => []BreakerHolds
<1>1. IInv => BreakerHolds
  BY CurrentSound DEF BreakerHolds, Sound
<1> QED
  BY <1>1, Inductive, PTL

(* ... nor sizes a trade in full while a loss streak stands.               *)
THEOREM SizeAlwaysFollowsStreak == Spec => []SizeFollowsStreak
<1>1. IInv => SizeFollowsStreak
  BY CurrentSound DEF SizeFollowsStreak, Sound
<1> QED
  BY <1>1, Inductive, PTL

-----------------------------------------------------------------------------
(* Until a phantom close is reported, the guard forgets nothing of the     *)
(* day: a record that carries today's date knows of every loss, and *)
(* one that does not has nothing to know.                                  *)
Knows(g) ==
  IF g.day = Day(now)
    THEN /\ truth.losses <= g.consecutive_losses
         /\ truth.stopOut => g.session_halted
         /\ truth.until <= g.cooldown_until
         /\ truth.until > 0 => g.last_loss_direction = truth.direction
    ELSE truth = NothingLost(FALSE)

Remembers ==
  ~truth.phantom =>
    /\ Knows(guard)
    /\ Knows(saved)
    /\ \A t \in Tickets : /\ ticket[t].status # "lost"
                          /\ ticket[t].status = "none" => ticket[t] = Free

LEMMA RollKnows ==
  ASSUME IInv, NEW g \in SoundGuards, Knows(g)
  PROVE  Knows(RollDay(g, now)) /\ RollDay(g, now).day = Day(now)
<1> DEFINE d == Day(now)
           h == IF g.day \in {NoDay, d} THEN g ELSE FreshGuard
<1>1. d \in Nat
  BY DayType DEF IInv
<1>2. h \in SoundGuards /\ truth \in Truths
  BY FreshSound DEF IInv
<1>3. RollDay(g, now) = [h EXCEPT !.day = d]
  BY DEF RollDay
<1>4. CASE g.day = d
  <2>1. RollDay(g, now) = [g EXCEPT !.day = g.day]
    BY <1>3, <1>4
  <2>2. RollDay(g, now).day = d /\ RollDay(g, now) = g
    BY <2>1, <1>4 DEF SoundGuards, Guards
  <2> QED
    BY <2>2
<1>5. CASE g.day # d
  <2>1. truth = NothingLost(FALSE)
    BY <1>5 DEF Knows
  <2> HIDE DEF h
  <2>2. /\ RollDay(g, now).day = d
        /\ RollDay(g, now).consecutive_losses \in Nat
        /\ RollDay(g, now).cooldown_until \in Nat
    BY <1>1, <1>2, <1>3 DEF SoundGuards, Guards
  <2> QED
    BY <2>1, <2>2 DEF Knows, NothingLost
<1> QED
  BY <1>4, <1>5

LEMMA RestoreKnows ==
  ASSUME IInv, Knows(saved)
  PROVE  Knows(RestoreGuard(saved, now))
<1>1. CASE saved.day = Day(now)
  BY <1>1 DEF RestoreGuard
<1>2. CASE saved.day # Day(now)
  <2>1. truth = NothingLost(FALSE) /\ RestoreGuard(saved, now) = FreshGuard
    BY <1>2 DEF Knows, RestoreGuard
  <2> QED
    BY <2>1 DEF Knows, NothingLost, FreshGuard, NoCooldown
<1> QED
  BY <1>1, <1>2

LEMMA CloseKnows ==
  ASSUME IInv, Remembers, ~truth.phantom,
         NEW t \in Tickets, NEW o \in Outcomes, Close(t, o)
  PROVE  Knows(guard)'
<1> DEFINE r == RollDay(guard, now)
           dir == ticket[t].direction
<1>1. r \in SoundGuards /\ Knows(r) /\ r.day = Day(now)
  BY RollDaySound, RollKnows DEF IInv, Remembers
<1>2. guard' = RegisterClose(guard, o, dir, now) /\ now' = now
  BY DEF Close, Report
<1>3. truth' = HappenedToday(o, dir)
  BY DEF Close
<1>4. dir \in Directions \cup {NoDirection} /\ truth \in Truths /\ now \in Nat
  BY DEF IInv, Slots
<1> HIDE DEF r, dir
<1>5. CASE o \in Losses
  <2>1. guard' = RegisterLoss(r, o, dir, now)
    BY <1>2, <1>5 DEF RegisterClose, r
  <2>2. /\ guard'.day = r.day
        /\ guard'.consecutive_losses = r.consecutive_losses + 1
        /\ guard'.cooldown_until = now + CooldownSlots
        /\ guard'.last_loss_direction = dir
        /\ guard'.session_halted = (\/ r.session_halted
                                    \/ o = "catastrophe"
                                    \/ r.consecutive_losses + 1 >= MaxConsecutiveLosses)
    BY <1>1, <2>1 DEF RegisterLoss, SoundGuards, Guards
  <2>3. /\ truth'.losses = truth.losses + 1
        /\ truth'.stopOut = (truth.stopOut \/ o = "catastrophe")
        /\ truth'.until = now + CooldownSlots
        /\ truth'.direction = dir
    BY <1>3, <1>5 DEF HappenedToday
  <2>4. truth.losses \in Nat /\ r.consecutive_losses \in Nat
    BY <1>1, <1>4 DEF Truths, SoundGuards, Guards
  <2>5. truth'.losses <= guard'.consecutive_losses
    BY <1>1, <2>2, <2>3, <2>4 DEF Knows
  <2>6. truth'.stopOut => guard'.session_halted
    BY <1>1, <2>2, <2>3 DEF Knows
  <2>7. truth'.until <= guard'.cooldown_until
    BY <1>4, <2>2, <2>3, GuardAssumption
  <2> QED
    BY <1>1, <1>2, <2>2, <2>3, <2>5, <2>6, <2>7 DEF Knows
<1>6. CASE o = "win"
  <2>1. guard' = [r EXCEPT !.consecutive_losses = 0, !.size = "full"]
    BY <1>2, <1>6 DEF RegisterClose, Losses, r
  <2>2. /\ guard'.day = r.day
        /\ guard'.consecutive_losses = 0
        /\ guard'.cooldown_until = r.cooldown_until
        /\ guard'.last_loss_direction = r.last_loss_direction
        /\ guard'.session_halted = r.session_halted
    BY <1>1, <2>1 DEF SoundGuards, Guards
  <2>3. truth' = [truth EXCEPT !.losses = 0]
    BY <1>3, <1>6 DEF HappenedToday, Losses
  <2>4. /\ truth'.losses = 0
        /\ truth'.stopOut = truth.stopOut
        /\ truth'.until = truth.until
        /\ truth'.direction = truth.direction
    BY <1>4, <2>3 DEF Truths
  <2> QED
    BY <1>1, <1>2, <2>2, <2>4 DEF Knows
<1>7. CASE o = "scratch"
  <2>1. guard' = r /\ truth' = truth
    BY <1>2, <1>3, <1>7 DEF RegisterClose, HappenedToday, Losses, r
  <2> QED
    BY <1>1, <1>2, <2>1 DEF Knows
<1> QED
  BY <1>5, <1>6, <1>7 DEF Outcomes

LEMMA InitRemembers == Init => Remembers
BY DEF Init, Remembers, Knows, FreshGuard, NothingLost, NoCooldown, Free

(* Nothing makes the history of a phantom close go away.                   *)
LEMMA PhantomRemembered ==
  ASSUME IInv, [Next]_vars, truth.phantom
  PROVE  truth'.phantom
<1>1. truth \in Truths
  BY DEF IInv
<1>2. ASSUME NEW t \in Tickets, NEW o \in Outcomes, Close(t, o)
      PROVE  truth'.phantom
  BY <1>1, <1>2 DEF Close, HappenedToday, Truths
<1>3. ASSUME NEW t \in Tickets, NEW o \in Phantoms, Vanish(t, o)
      PROVE  truth'.phantom
  BY <1>1, <1>3 DEF Vanish, Truths
<1>4. CASE Tick
  BY <1>4 DEF Tick, NothingLost
<1> QED
  BY <1>2, <1>3, <1>4
     DEF Next, vars, Enter, Refuse, Adopt, Reopen, Lapse, CloseUnheard, Blip, Restart

LEMMA NextRemembers ==
  ASSUME IInv, Remembers, [Next]_vars
  PROVE  Remembers'
<1> SUFFICES ASSUME ~truth'.phantom PROVE Remembers'
  BY DEF Remembers
<1>0. ~truth.phantom
  BY PhantomRemembered
<1> USE <1>0
<1>1. /\ Knows(RollDay(guard, now))
      /\ RollDay(guard, now).day = Day(now)
  BY RollKnows DEF IInv, Remembers
<1>2. Free.status = "none" /\ Free \in Slots
  BY DEF Free, Slots, Outcomes
<1>3. ticket \in [Tickets -> Slots]
  BY DEF IInv
<1>4. ASSUME NEW t \in Tickets, NEW d \in Directions, NEW s \in BOOLEAN,
             Enter(t, d, s)
      PROVE  Remembers'
  <2>1. \A u \in Tickets : \/ ticket'[u] = ticket[u]
                           \/ ticket'[u].status = "open"
    BY <1>3, <1>4 DEF Enter, Free
  <2> QED
    BY <1>1, <1>4, <2>1 DEF Enter, Remembers, Knows
<1>5. CASE Refuse
  BY <1>1, <1>5 DEF Refuse, Remembers, Knows
<1>6. ASSUME NEW t \in Tickets, NEW d \in Directions \cup {NoDirection},
             Adopt(t, d)
      PROVE  Remembers'
  <2>1. \A u \in Tickets : \/ ticket'[u] = ticket[u]
                           \/ ticket'[u].status = "open"
    BY <1>3, <1>6 DEF Adopt, Free
  <2> QED
    BY <1>6, <2>1 DEF Adopt, Remembers, Knows
<1>7. ASSUME NEW t \in Tickets, NEW o \in Outcomes, Close(t, o)
      PROVE  Remembers'
  <2>1. Knows(guard)'
    BY <1>7, CloseKnows
  <2>2. \A u \in Tickets : ticket'[u] = ticket[u] \/ ticket'[u] = Free
    BY <1>3, <1>7 DEF Close
  <2> QED
    BY <1>2, <1>7, <2>1, <2>2 DEF Close, Report, Remembers, Knows
<1>8. ASSUME NEW t \in Tickets, Reopen(t) \/ Lapse(t) \/ CloseUnheard(t)
      PROVE  FALSE
  BY <1>8 DEF Reopen, Lapse, CloseUnheard, Remembers
<1>9. ASSUME NEW gone \in SUBSET Tickets, Restart(gone)
      PROVE  Remembers'
  <2>1. \A u \in Tickets : ticket'[u] = ticket[u] \/ ticket'[u] = Free
    BY <1>9 DEF Restart
  <2>2. Knows(guard)'
    BY <1>9, RestoreKnows DEF Restart, Remembers, Knows
  <2> QED
    BY <1>2, <1>9, <2>1, <2>2 DEF Restart, Remembers, Knows
<1>10. CASE Tick
  <2>1. truth.phantom = FALSE
    BY DEF IInv, Truths
  <2>2. Day(now') = Day(now) => truth' = truth
    BY <1>10 DEF Tick
  <2>3. Day(now') # Day(now) => truth' = NothingLost(FALSE)
    BY <1>10, <2>1 DEF Tick
  <2>4. ASSUME NEW g \in SoundGuards, Knows(g), UNCHANGED g
        PROVE  Knows(g)'
    <3>1. g.consecutive_losses \in Nat /\ g.cooldown_until \in Nat
      BY DEF SoundGuards, Guards
    <3>2. CASE Day(now') = Day(now)
      BY <2>2, <2>4, <3>2 DEF Knows
    <3>3. CASE Day(now') # Day(now)
      BY <2>3, <2>4, <3>1, <3>3 DEF Knows, NothingLost
    <3> QED
      BY <3>2, <3>3
  <2> QED
    BY <1>10, <2>4 DEF Tick, Remembers, IInv
<1>11. CASE UNCHANGED vars
  BY <1>11 DEF vars, Remembers, Knows
<1>12. ASSUME NEW t \in Tickets, NEW o \in Phantoms, Vanish(t, o)
       PROVE  FALSE
  BY <1>12 DEF Vanish, IInv, Truths
<1>13. CASE Blip
  BY <1>13 DEF Blip, Remembers, Knows
<1> QED
  BY <1>4, <1>5, <1>6, <1>7, <1>8, <1>9, <1>10, <1>11, <1>12, <1>13 DEF Next

LEMMA AlwaysRemembers == Spec => []Remembers
<1>1. IInv /\ Remembers /\ [Next]_vars => Remembers'
  BY NextRemembers
<1> QED
  BY <1>1, InitRemembers, Inductive, PTL DEF Spec

LEMMA CurrentKnows ==
  ASSUME IInv, Remembers, ~truth.phantom
  PROVE  Knows(Current) /\ Current.day = Day(now)
BY RollKnows DEF IInv, Remembers, Current

(* Until a phantom close, every real loss of the day since the last win is *)
(* in the streak the breaker counts, restarts and rollovers included.      *)
THEOREM LossesAlwaysCounted == Spec => []LossesCounted
<1>1. IInv /\ Remembers => LossesCounted
  BY CurrentKnows DEF Knows, LossesCounted
<1> QED
  BY <1>1, Inductive, AlwaysRemembers, PTL

(* Until a phantom close, a catastrophic loss halts the session for the    *)
(* day.                                                                    *)
THEOREM StopOutAlwaysHalts == Spec => []StopOutHalts
<1>1. IInv /\ Remembers => StopOutHalts
  BY CurrentKnows DEF Knows, StopOutHalts
<1> QED
  BY <1>1, Inductive, AlwaysRemembers, PTL

(* Until a phantom close, no entry is admitted inside the cooldown of the  *)
(* last real loss, a strong one against its direction excepted.            *)
THEOREM NeverRevenge == Spec => NoRevengeEntry
<1>1. ASSUME IInv, Remembers, [Next]_vars, NEW t \in Tickets, Admitted(t),
             now < truth.until, ~truth.phantom
      PROVE  ticket'[t].entry = "strong" /\ ticket'[t].direction # truth.direction
  <2>1. ticket \in [Tickets -> Slots] /\ ticket[t] = Free /\ now \in Nat
    BY <1>1 DEF IInv, Remembers, Admitted
  <2>2. ticket'[t] # ticket[t]
    BY <1>1, <2>1 DEF Admitted, Free
  <2>3. ASSUME NEW u \in Tickets, NEW d \in Directions, NEW s \in BOOLEAN,
               Enter(u, d, s)
        PROVE  ticket'[t].entry = "strong" /\ ticket'[t].direction # truth.direction
    <3>1. u = t
      BY <2>1, <2>2, <2>3 DEF Enter
    <3>2. EntryAllowed(Current, s, d, now)
      BY <2>3 DEF Enter, Current
    <3>3. truth.until \in Nat /\ Current \in SoundGuards
      BY <1>1, RollDaySound DEF IInv, Truths, Current
    <3>7. Knows(Current) /\ Current.day = Day(now)
      BY <1>1, CurrentKnows
    <3>4. /\ truth.until <= Current.cooldown_until
          /\ Current.last_loss_direction = truth.direction
      BY <1>1, <2>1, <3>3, <3>7 DEF Knows
    <3>5. now < Current.cooldown_until
      BY <1>1, <2>1, <3>3, <3>4 DEF SoundGuards, Guards
    <3>6. s /\ d # truth.direction
      BY <3>2, <3>4, <3>5 DEF EntryAllowed, InCooldown, IsFlip
    <3> QED
      BY <2>1, <2>3, <3>1, <3>6 DEF Enter, Free
  <2>4. ASSUME NEW u \in Tickets, NEW d \in Directions \cup {NoDirection},
               Adopt(u, d)
        PROVE  FALSE
    <3>1. ticket'[t].entry = "outside"
      BY <2>1, <2>2, <2>4 DEF Adopt, Free
    <3> QED
      BY <1>1, <3>1 DEF Admitted
  <2>5. ASSUME NEW u \in Tickets, NEW o \in Outcomes, Close(u, o)
        PROVE  FALSE
    BY <2>1, <2>2, <2>5 DEF Close
  <2>6. ASSUME NEW u \in Tickets, Reopen(u) \/ Lapse(u) \/ CloseUnheard(u)
        PROVE  FALSE
    BY <1>1, <2>6 DEF Reopen, Lapse, CloseUnheard, Remembers
  <2>7. ASSUME NEW gone \in SUBSET Tickets, Restart(gone)
        PROVE  FALSE
    BY <2>1, <2>2, <2>7 DEF Restart
  <2>8. ASSUME NEW u \in Tickets, NEW o \in Phantoms, Vanish(u, o)
        PROVE  FALSE
    <3>1. u = t
      BY <2>1, <2>2, <2>8 DEF Vanish
    <3> QED
      BY <1>1, <2>8, <3>1 DEF Vanish, Admitted
  <2> QED
    BY <1>1, <2>2, <2>3, <2>4, <2>5, <2>6, <2>7, <2>8
       DEF Next, vars, Refuse, Blip, Tick
<1>2. IInv /\ Remembers /\ [Next]_vars =>
        [\A t \in Tickets :
           Admitted(t) /\ now < truth.until /\ ~truth.phantom =>
             /\ ticket'[t].entry = "strong"
             /\ ticket'[t].direction # truth.direction]_vars
  BY <1>1
<1> QED
  BY <1>2, Inductive, AlwaysRemembers, PTL DEF Spec, NoRevengeEntry
=============================================================================
