--------------------------- MODULE Records_proofs ---------------------------
(***************************************************************************)
(* What the system keeps and shows: the sidecar is an atomic store, the    *)
(* news black out, a trade is scored once, the vault loses no event        *)
(* without an excuse and passes no verdict the future would take back, the *)
(* external alarm is true and the paper account's books balance.  For all  *)
(* sets of states, events, signals, touches, prices and resolvers, and all *)
(* intervals and periods.                                                  *)
(***************************************************************************)
EXTENDS StateStore, NewsCalendar, PaperBroker, Backtest, EvidenceVault, Watchdog,
        SetSums_proofs, NaturalsInduction

-----------------------------------------------------------------------------
(* What is about to be moved over the file is the state handed over last.  *)
TmpGiven == pc = "replace" => tmp = data

DataGiven == pc \in {"open", "write", "replace"} => given = {data}

SaveInv == TmpGiven /\ DataGiven

LEMMA SaveInvHolds == Spec => []SaveInv
<1>1. Init => SaveInv
  BY DEF Init, SaveInv, TmpGiven, DataGiven
<1>2. SaveInv /\ [Next]_vars => SaveInv'
  <2> SUFFICES ASSUME SaveInv, [Next]_vars PROVE SaveInv'
    OBVIOUS
  <2> USE DEF SaveInv, TmpGiven, DataGiven
  <2>1. CASE Begin
    BY <2>1 DEF Begin
  <2>2. CASE Open
    BY <2>2 DEF Open
  <2>3. CASE Write
    BY <2>3 DEF Write, WrittenAside
  <2>4. CASE Replace
    BY <2>4 DEF Replace
  <2>5. CASE Swallowed
    BY <2>5 DEF Swallowed
  <2>6. CASE Dies
    BY <2>6 DEF Dies
  <2>7. CASE Start
    BY <2>7 DEF Start
  <2>8. CASE UNCHANGED vars
    BY <2>8 DEF vars
  <2> QED
    BY <2>1, <2>2, <2>3, <2>4, <2>5, <2>6, <2>7, <2>8 DEF Next
<1> QED
  BY <1>1, <1>2, PTL DEF Spec

(* Whatever the states are and however often writes fail and the process   *)
(* dies, the file changes only to the whole of the state that was handed   *)
(* to save last: StateStore.save is an atomic store.                       *)
THEOREM StoreIsAtomic == Spec => ImplementsRegister
<1>1. Init => Register!Init
  BY DEF Init, Register!Init
<1>2. SaveInv /\ [Next]_vars => [Register!Next]_<<file, given>>
  <2> SUFFICES ASSUME SaveInv, [Next]_vars PROVE [Register!Next]_<<file, given>>
    OBVIOUS
  <2> USE DEF Register!Next
  <2>1. CASE Begin
    BY <2>1 DEF Begin, Register!Hand
  <2>2. CASE Replace
    <3>1. file' \in given
      BY <2>2 DEF Replace, SaveInv, TmpGiven, DataGiven
    <3> QED
      BY <3>1, <2>2 DEF Replace, Register!Store
  <2>3. CASE Start
    BY <2>3 DEF Start, Register!Restart
  <2>4. CASE Open \/ Write \/ Swallowed \/ Dies
    BY <2>4 DEF Open, Write, WrittenAside, Swallowed, Dies
  <2>5. CASE UNCHANGED vars
    BY <2>5 DEF vars
  <2> QED
    BY <2>1, <2>2, <2>3, <2>4, <2>5 DEF Next
<1> QED
  BY <1>1, <1>2, SaveInvHolds, PTL DEF Spec, ImplementsRegister, Register!Spec

-----------------------------------------------------------------------------
(* The news: what a fetch found last is what the cache holds.              *)
NewsHeld ==
  /\ now \in Int /\ feed \subseteq Announcements
  /\ known = cache.events /\ cache.events \subseteq Announcements

LEMMA NewsStaysHeld == NewsSpec => []NewsHeld
<1>1. NewsInit => NewsHeld
  BY DEF NewsInit, NewsHeld, Missing
<1>2. NewsHeld /\ [NewsNext]_newsVars => NewsHeld'
  <2> SUFFICES ASSUME NewsHeld, [NewsNext]_newsVars PROVE NewsHeld'
    OBVIOUS
  <2>1. CASE FeedChanges \/ TimePasses \/ UNCHANGED newsVars
    BY <2>1 DEF NewsHeld, FeedChanges, TimePasses, newsVars
  <2>2. CASE Fetch
    BY <2>2 DEF NewsHeld, Fetch, Written
  <2>3. CASE FetchCut
    BY <2>3 DEF NewsHeld, FetchCut, Missing
  <2> QED
    BY <2>1, <2>2, <2>3 DEF NewsNext
<1> QED
  BY <1>1, <1>2, PTL DEF NewsSpec

(* An event whose window opens later cannot begin before the next blackout *)
(* that is shown, which is the first to begin.                             *)
LEMMA NewsBound == NewsHeld => BlackoutStands
<1> SUFFICES ASSUME NewsHeld PROVE BlackoutStands
  OBVIOUS
<1> DEFINE soon == Upcoming(now, cache.events)
           times == {e.time : e \in soon}
<1>1. BeforeMin \in Nat /\ AfterMin \in Nat /\ Horizon \in Nat /\ now \in Int
  BY NewsAssumption DEF NewsHeld
<1>2. ASSUME NEW e \in cache.events, Matches(e) PROVE e.time \in Nat
  BY <1>2, NewsAssumption DEF NewsHeld, Matches
<1>3. ASSUME NEW e \in known, Matches(e), Around(e, now)
      PROVE  IsBlackout(now, cache.events)
  BY <1>3 DEF NewsHeld, IsBlackout
<1>4. ASSUME soon # {}, NEW t \in now..NextBlackout(now, cache.events) - BeforeMin - 1,
             IsBlackout(t, cache.events)
      PROVE  \E e \in cache.events : Matches(e) /\ Around(e, t) /\ e.time - BeforeMin < now
  <2>1. PICK e \in cache.events : Matches(e) /\ Around(e, t)
    BY <1>4 DEF IsBlackout
  <2>2. times \subseteq Nat /\ times # {}
    BY <1>2, <1>4 DEF Upcoming
  <2> DEFINE first == Min(times)
  <2>3. first \in times /\ \A n \in times : first <= n
    BY <2>2, LeastOf
  <2>4. first \in Nat /\ first <= now + Horizon
    BY <2>2, <2>3 DEF Upcoming
  <2>5. e.time \in Nat /\ e.time - BeforeMin <= t
    BY <1>1, <1>2, <2>1 DEF Around
  <2>6. t \in Int /\ t <= first - BeforeMin - 1
    BY <1>1, <1>4, <2>4 DEF NextBlackout
  <2>7. CASE e.time - BeforeMin >= now
    <3>1. e.time <= first - 1
      BY <1>1, <2>4, <2>5, <2>6
    <3>2. e \in soon
      BY <1>1, <2>1, <2>4, <2>5, <2>7, <3>1 DEF Upcoming
    <3>3. first <= e.time
      BY <2>3, <3>2
    <3> QED
      BY <2>4, <2>5, <3>1, <3>3
  <2> QED
    BY <1>1, <2>1, <2>5, <2>7
<1> QED
  BY <1>3, <1>4 DEF BlackoutStands

(* What was fetched blacks out until other events are fetched, and the     *)
(* next blackout shown is the first, whatever the feed does.               *)
THEOREM NewsStand == NewsSpec => []BlackoutStands
BY NewsStaysHeld, NewsBound, PTL

-----------------------------------------------------------------------------
(* The backtest.  Within a run every trade ends before the next begins and *)
(* before the bar that is next; of earlier chunks only trades entered in   *)
(* them are kept.                                                          *)
Follows(t) == t.entry \in Nat /\ t.exit \in Nat /\ t.entry - 1 \in signals /\ t.entry <= t.exit

Apart(t, u) == t.exit < u.entry \/ u.exit < t.entry

OpenHeld ==
  open # Flat => open - 1 \in signals /\ open <= bar /\ open <= LastBar(chunk)

RanHeld ==
  /\ \A t \in ran : Follows(t) /\ t.exit < bar /\ (open # Flat => t.exit < open)
  /\ \A t, u \in ran : t # u => Apart(t, u)

OutHeld ==
  /\ \A t \in out : Follows(t) /\ t.of < chunk /\ t.entry < chunk
  /\ \A t, u \in out : t # u => t.entry # u.entry /\ (t.of = u.of => Apart(t, u))

TestHeld ==
  /\ chunk \in Nat /\ bar \in Nat /\ open \in Nat /\ \A t \in out : t.of \in Nat
  /\ OpenHeld /\ RanHeld /\ OutHeld

LEMMA SliceEnds ==
  ASSUME NEW c \in Nat
  PROVE  /\ SegEnd(c) \in Int /\ SegEnd(c) <= c + Chunk - 1
         /\ LastBar(c) \in Int /\ LastBar(c) <= N
         /\ FirstBar(c) \in Nat
         /\ Chunk \in Nat \ {0} /\ N \in Nat
<1>1. N \in Nat /\ Chunk \in Nat \ {0} /\ Lead \in Nat /\ Trail \in Nat
  BY TestAssumption
<1>2. ASSUME NEW a \in Int, NEW b \in Int
      PROVE  /\ Min({a, b}) = IF a <= b THEN a ELSE b
             /\ Max({a, b}) = IF a >= b THEN a ELSE b
  BY DEF Min, Max
<1>3. SegEnd(c) \in Int /\ SegEnd(c) <= c + Chunk - 1
  BY <1>1, <1>2 DEF SegEnd
<1>4. LastBar(c) \in Int /\ LastBar(c) <= N
  BY <1>1, <1>2, <1>3 DEF LastBar
<1>5. FirstBar(c) \in Nat
  <2> DEFINE from == c - Lead
  <2>1. from \in Int /\ 1 \in Int
    BY <1>1
  <2> HIDE DEF from
  <2>2. Max({1, from}) = IF 1 >= from THEN 1 ELSE from
    BY <1>2, <2>1
  <2>3. FirstBar(c) = Max({1, from})
    BY DEF FirstBar, from
  <2> QED
    BY <2>1, <2>2, <2>3
<1> QED
  BY <1>1, <1>3, <1>4, <1>5

(* A bar ends the open trade or opens one, after all that ended.           *)
LEMMA BarKeeps ==
  ASSUME TestHeld, Bar
  PROVE  TestHeld'
<1> DEFINE exits == open # Flat /\ hits[bar] # {}
           enters == (open = Flat \/ exits) /\ bar \in chunk..LastBar(chunk) - 1 /\ bar \in signals
           done == [entry |-> open, exit |-> bar, why |-> Exit(hits[bar])]
<1>1. /\ bar <= LastBar(chunk) /\ bar' = bar + 1
      /\ UNCHANGED <<signals, chunk, out>>
      /\ ran' = IF exits THEN ran \cup {done} ELSE ran
      /\ open' = IF enters THEN bar + 1 ELSE IF exits THEN Flat ELSE open
  BY DEF Bar
<1>2. /\ chunk \in Nat /\ bar \in Nat /\ open \in Nat /\ LastBar(chunk) \in Int
      /\ Flat = 0
  BY SliceEnds DEF TestHeld, Flat
<1>3. /\ done.entry = open /\ done.exit = bar
  OBVIOUS
<1>4. enters => bar \in signals /\ bar + 1 <= LastBar(chunk)
  BY <1>2
<1> HIDE DEF done, enters
<1>5. bar' \in Nat /\ open' \in Nat /\ chunk' \in Nat
  BY <1>1, <1>2
<1>6. OpenHeld'
  <2>1. CASE enters
    <3>1. open' = bar' /\ open' - 1 = bar
      BY <1>1, <1>2, <2>1
    <3> QED
      BY <1>1, <1>2, <1>4, <2>1, <3>1 DEF OpenHeld, LastBar, SegEnd
  <2>2. CASE ~enters
    <3>1. open' = open \/ open' = Flat
      BY <1>1, <2>2
    <3> QED
      BY <1>1, <1>2, <3>1 DEF TestHeld, OpenHeld, LastBar, SegEnd
  <2> QED
    BY <2>1, <2>2
<1>7. exits => Follows(done) /\ done.exit < bar + 1
  BY <1>2, <1>3 DEF TestHeld, OpenHeld, Follows
<1>8. ASSUME NEW t \in ran
      PROVE  Follows(t) /\ t.exit < bar /\ (open # Flat => t.exit < open) /\ t.exit \in Nat
  BY DEF TestHeld, RanHeld, Follows
<1>9. ASSUME NEW t \in ran'
      PROVE  Follows(t)' /\ t.exit < bar' /\ (open' # Flat => t.exit < open')
  <2>1. CASE t \in ran
    <3>1. Follows(t) /\ t.exit < bar /\ (open # Flat => t.exit < open) /\ t.exit \in Nat
      BY <1>8, <2>1
    <3>2. open' = bar + 1 \/ open' = open \/ open' = Flat
      BY <1>1
    <3> QED
      BY <1>1, <1>2, <3>1, <3>2 DEF Follows
  <2>2. CASE t = done /\ exits
    <3>1. open' = bar + 1 \/ open' = Flat
      BY <1>1, <2>2
    <3> QED
      BY <1>1, <1>2, <1>3, <1>7, <2>2, <3>1 DEF Follows
  <2> QED
    BY <1>1, <2>1, <2>2
<1>10. ASSUME NEW t \in ran', NEW u \in ran', t # u PROVE Apart(t, u)
  <2>1. \A v \in ran : exits => v.exit < done.entry
    BY <1>3, <1>8
  <2>2. \A v, w \in ran : v # w => Apart(v, w)
    BY DEF TestHeld, RanHeld
  <2> QED
    BY <1>1, <1>10, <2>1, <2>2 DEF Apart
<1>11. RanHeld'
  BY <1>9, <1>10 DEF RanHeld, Apart
<1>12. OutHeld' /\ \A t \in out' : t.of \in Nat
  BY <1>1 DEF TestHeld, OutHeld, Follows, Apart
<1> QED
  BY <1>5, <1>6, <1>11, <1>12 DEF TestHeld

(* What is kept of a chunk was entered in it, after all that is kept of    *)
(* the chunks before.                                                      *)
LEMMA NextChunkKeeps ==
  ASSUME TestHeld, NextChunk
  PROVE  TestHeld'
<1> DEFINE last == [entry |-> open, exit |-> LastBar(chunk), why |-> "end_of_data"]
           Out(t) == [entry |-> t.entry, exit |-> t.exit, why |-> t.why, of |-> chunk]
           kept == Kept(Finished, chunk)
<1>1. /\ out' = out \cup {Out(t) : t \in kept}
      /\ chunk' = chunk + Chunk /\ bar' = FirstBar(chunk + Chunk)
      /\ open' = Flat /\ ran' = {} /\ UNCHANGED signals
  BY DEF NextChunk
<1>2. /\ chunk \in Nat /\ bar \in Nat /\ open \in Nat /\ LastBar(chunk) \in Int
      /\ SegEnd(chunk) \in Int /\ SegEnd(chunk) <= chunk + Chunk - 1
      /\ Chunk \in Nat \ {0}
  BY SliceEnds DEF TestHeld
<1>3. last.entry = open /\ last.exit = LastBar(chunk)
  OBVIOUS
<1>4. Finished = IF open = Flat THEN ran ELSE ran \cup {last}
  BY DEF Finished
<1>5. chunk' \in Nat /\ bar' \in Nat /\ open' \in Nat
  <2>1. chunk + Chunk \in Nat
    BY <1>2
  <2> QED
    BY <1>1, <2>1, SliceEnds DEF Flat
<1> HIDE DEF last
<1>6. ASSUME NEW t \in Finished PROVE Follows(t)
  <2>1. open # Flat => Follows(last)
    BY <1>2, <1>3 DEF TestHeld, OpenHeld, Follows
  <2> QED
    BY <1>4, <2>1 DEF TestHeld, RanHeld
<1>7. ASSUME NEW t \in Finished, NEW u \in Finished, t # u PROVE Apart(t, u)
  <2>1. \A v \in ran : open # Flat => v.exit < last.entry
    BY <1>3 DEF TestHeld, RanHeld
  <2>2. \A v, w \in ran : v # w => Apart(v, w)
    BY DEF TestHeld, RanHeld
  <2> QED
    BY <1>4, <1>7, <2>1, <2>2 DEF Apart
<1>8. ASSUME NEW t \in kept
      PROVE  t \in Finished /\ chunk <= t.entry /\ t.entry < chunk + Chunk /\ t.entry \in Nat
  <2>1. t \in Finished /\ t.entry \in chunk..SegEnd(chunk)
    BY <1>8 DEF Kept
  <2>2. t.entry \in Nat
    BY <1>6, <2>1 DEF Follows
  <2> QED
    BY <1>2, <2>1, <2>2
<1>9. ASSUME NEW x \in out'
      PROVE  \/ x \in out
             \/ \E t \in kept : x = Out(t)
  BY <1>1
<1>10. ASSUME NEW x \in out
       PROVE  /\ Follows(x) /\ x.of \in Nat /\ x.of < chunk /\ x.entry < chunk /\ x.entry \in Nat
  BY DEF TestHeld, OutHeld, Follows
<1>11. ASSUME NEW t \in kept
       PROVE  /\ Follows(Out(t)) /\ Out(t).of = chunk
              /\ Out(t).entry = t.entry /\ Out(t).exit = t.exit
              /\ chunk <= Out(t).entry /\ Out(t).entry < chunk + Chunk
  <2>1. Follows(t)
    BY <1>6, <1>8
  <2> QED
    BY <1>8, <2>1 DEF Follows
<1> HIDE DEF kept
<1>12. ASSUME NEW x \in out'
       PROVE  Follows(x)' /\ x.of < chunk' /\ x.entry < chunk' /\ x.of \in Nat
  <2>1. CASE x \in out
    <3>1. Follows(x) /\ x.of \in Nat /\ x.of < chunk /\ x.entry < chunk /\ x.entry \in Nat
      BY <1>10, <2>1
    <3> QED
      BY <1>1, <1>2, <3>1 DEF Follows
  <2>2. ASSUME NEW t \in kept, x = Out(t)
        PROVE  Follows(x)' /\ x.of < chunk' /\ x.entry < chunk' /\ x.of \in Nat
    <3>1. Follows(x) /\ x.of = chunk /\ x.entry < chunk + Chunk
      BY <1>11, <2>2
    <3> QED
      BY <1>1, <1>2, <3>1 DEF Follows
  <2> QED
    BY <1>9, <2>1, <2>2
<1>13. ASSUME NEW x \in out', NEW y \in out', x # y
       PROVE  x.entry # y.entry /\ (x.of = y.of => Apart(x, y))
  <2>1. CASE x \in out /\ y \in out
    BY <1>13, <2>1 DEF TestHeld, OutHeld
  <2>2. ASSUME NEW t \in kept, x = Out(t), y \in out
        PROVE  x.entry # y.entry /\ x.of # y.of
    <3>1. x.of = chunk /\ chunk <= x.entry /\ x.entry \in Nat
      BY <1>8, <1>11, <2>2
    <3>2. y.of < chunk /\ y.entry < chunk /\ y.of \in Nat /\ y.entry \in Nat
      BY <1>10, <2>2
    <3> QED
      BY <1>2, <3>1, <3>2
  <2>3. ASSUME NEW t \in kept, y = Out(t), x \in out
        PROVE  x.entry # y.entry /\ x.of # y.of
    <3>1. y.of = chunk /\ chunk <= y.entry /\ y.entry \in Nat
      BY <1>8, <1>11, <2>3
    <3>2. x.of < chunk /\ x.entry < chunk /\ x.of \in Nat /\ x.entry \in Nat
      BY <1>10, <2>3
    <3> QED
      BY <1>2, <3>1, <3>2
  <2>4. ASSUME NEW t \in kept, NEW u \in kept, x = Out(t), y = Out(u)
        PROVE  x.entry # y.entry /\ Apart(x, y)
    <3>1. t # u
      BY <1>13, <2>4
    <3>2. Apart(t, u) /\ Follows(t) /\ Follows(u)
      BY <1>6, <1>7, <1>8, <3>1
    <3>3. t.entry # u.entry
      BY <3>2 DEF Apart, Follows
    <3>4. x.entry = t.entry /\ x.exit = t.exit /\ y.entry = u.entry /\ y.exit = u.exit
      BY <1>11, <2>4
    <3> QED
      BY <3>2, <3>3, <3>4 DEF Apart
  <2> QED
    BY <1>9, <2>1, <2>2, <2>3, <2>4
<1>14. OutHeld' /\ \A t \in out' : t.of \in Nat
  BY <1>12, <1>13 DEF OutHeld, Apart
<1>15. OpenHeld' /\ RanHeld'
  BY <1>1 DEF OpenHeld, RanHeld
<1> QED
  BY <1>5, <1>14, <1>15 DEF TestHeld

LEMMA TestStaysHeld == TestSpec => []TestHeld
<1>1. TestInit => TestHeld
  <2> SUFFICES ASSUME TestInit PROVE TestHeld
    OBVIOUS
  <2>1. /\ chunk = StartIndex /\ bar = FirstBar(StartIndex)
        /\ open = Flat /\ ran = {} /\ out = {}
    BY DEF TestInit
  <2>2. StartIndex \in Nat
    BY TestAssumption DEF StartIndex
  <2> QED
    BY <2>1, <2>2, SliceEnds DEF TestHeld, OpenHeld, RanHeld, OutHeld, Flat
<1>2. TestHeld /\ [TestNext]_testVars => TestHeld'
  <2> SUFFICES ASSUME TestHeld, [TestNext]_testVars PROVE TestHeld'
    OBVIOUS
  <2>1. CASE UNCHANGED testVars
    BY <2>1 DEF TestHeld, OpenHeld, RanHeld, OutHeld, Follows, Apart, LastBar, SegEnd, testVars
  <2> QED
    BY <2>1, BarKeeps, NextChunkKeeps DEF TestNext
<1> QED
  BY <1>1, <1>2, PTL DEF TestSpec

(* The scorecard counts no trade twice across the seams of the chunks, for *)
(* all signals, chunks, warmups and tails.                                 *)
THEOREM TradesScoredOnce == TestSpec => []ScoredOnce
<1>1. TestHeld => ScoredOnce
  BY DEF TestHeld, OutHeld, Follows, Apart, ScoredOnce
<1> QED
  BY <1>1, TestStaysHeld, PTL

-----------------------------------------------------------------------------
(* The vault.                                                              *)
Outcomes == {Unresolved, "win", "loss", "unreadable"}
Lines == [bar: Bars, outcome: Outcomes, torn: BOOLEAN]
Jobs == [on: BOOLEAN, events: SUBSET Lines, horizon: 0..MaxBars, lines: SUBSET Bars]

VaultTyped ==
  /\ path \in [Bars -> BarTouches]
  /\ clock \in Bars /\ cached \in 0..clock
  /\ events_file \subseteq Lines
  /\ resolver \in [Resolvers -> Jobs]
  /\ tally \in [appended: SUBSET Bars, torn: SUBSET Bars, passed: SUBSET Bars, tears: Nat]

Excused == tally.torn \cup tally.passed

(* What is in the file, or was when a resolver read it, has been appended. *)
Known ==
  /\ BarsOf(events_file) \subseteq tally.appended
  /\ \A r \in Resolvers :
       resolver[r].lines \cup BarsOf(resolver[r].events) \subseteq tally.appended

(* A resolver at work holds every event it found whose loss would have no  *)
(* excuse, and nothing that cannot be read.                                *)
LoadedWhole ==
  \A r \in Resolvers : resolver[r].on =>
    /\ \A l \in resolver[r].events : Readable(l)
    /\ \A b \in resolver[r].lines \cap (tally.appended \ Excused) :
         \E l \in resolver[r].events : l.bar = b

Sound(l) ==
  LET stop == FirstTouch(l.bar, {"stop", "both"})
      target == FirstTouch(l.bar, {"target", "both"})
  IN /\ l.outcome = "loss" => stop <= target /\ stop <= MaxBars
     /\ l.outcome = "win" => target < stop

SoundHeld ==
  /\ \A l \in events_file : Sound(l)
  /\ \A r \in Resolvers : \A l \in resolver[r].events : Sound(l)

VaultHeld == VaultTyped /\ Known /\ LossesExplained /\ LoadedWhole /\ SoundHeld

(* What the cached bars decide, the bars that follow do not change.        *)
LEMMA ScoreSound ==
  ASSUME path \in [Bars -> BarTouches], NEW b \in Bars, NEW h \in 0..MaxBars
  PROVE  LET stop == FirstTouch(b, {"stop", "both"})
             target == FirstTouch(b, {"target", "both"})
         IN /\ Score(b, h) \in {Unresolved, "win", "loss"}
            /\ Score(b, h) = "loss" => stop <= target /\ stop <= MaxBars
            /\ Score(b, h) = "win" => target < stop
<1> DEFINE fwd == Forward(b, h)
           hit(S) == {j \in b + 1..MaxBars : path[j] \in S}
           stops == hit({"stop", "both"})
           targets == hit({"target", "both"})
           first == Min(fwd)
           stop == FirstTouch(b, {"stop", "both"})
           target == FirstTouch(b, {"target", "both"})
<1>1. MaxBars \in Nat /\ b \in Nat /\ h \in Nat /\ h <= MaxBars /\ b >= 1
  BY VaultAssumption DEF Bars
<1>2. fwd \in SUBSET Nat /\ stops \in SUBSET Nat /\ targets \in SUBSET Nat
  BY <1>1 DEF Forward
<1>3. /\ stop = IF stops = {} THEN MaxBars + 1 ELSE Min(stops)
      /\ target = IF targets = {} THEN MaxBars + 1 ELSE Min(targets)
  BY DEF FirstTouch
<1>4. CASE fwd = {}
  <2>1. Score(b, h) = Unresolved
    BY <1>4 DEF Score
  <2> QED
    BY <2>1 DEF Unresolved
<1>5. CASE fwd # {}
  <2>1. first \in fwd /\ \A j \in fwd : first <= j
    BY <1>2, <1>5, LeastOf
  <2>2. first \in Nat /\ first \in b + 1..h /\ first \in Bars /\ path[first] # "none"
    BY <1>1, <2>1 DEF Forward, Bars
  <2>3. path[first] \in {"stop", "target", "both"}
    BY <2>2, VaultAssumption
  <2>4. Score(b, h) = IF path[first] = "target" THEN "win" ELSE "loss"
    BY <1>5 DEF Score
  <2>5. ASSUME NEW j \in stops \cup targets PROVE j \in Nat /\ j <= MaxBars /\ first <= j
    <3>1. j \in b + 1..MaxBars /\ path[j] # "none"
      OBVIOUS
    <3>2. CASE j \in b + 1..h
      <4>1. j \in fwd
        BY <3>1, <3>2 DEF Forward
      <4> QED
        BY <1>1, <2>1, <3>1, <4>1
    <3>3. CASE ~(j \in b + 1..h)
      BY <1>1, <2>2, <3>1, <3>3
    <3> QED
      BY <3>2, <3>3
  <2> HIDE DEF stops, targets, stop, target, fwd, first
  <2>6. /\ stops # {} => Min(stops) \in stops /\ \A j \in stops : Min(stops) <= j
        /\ targets # {} => Min(targets) \in targets /\ \A j \in targets : Min(targets) <= j
    BY <1>2, LeastOf
  <2>7. /\ stop \in Nat /\ first <= stop /\ stop <= MaxBars + 1
        /\ target \in Nat /\ first <= target /\ target <= MaxBars + 1
    <3>1. first <= MaxBars + 1 /\ MaxBars + 1 \in Nat
      BY <1>1, <2>2
    <3>2. stop \in Nat /\ first <= stop /\ stop <= MaxBars + 1
      <4>1. CASE stops = {}
        BY <1>1, <1>3, <3>1, <4>1
      <4>2. CASE stops # {}
        <5>1. stop \in stops
          BY <1>3, <2>6, <4>2
        <5>2. stop \in Nat /\ stop <= MaxBars /\ first <= stop
          BY <2>5, <5>1
        <5> QED
          BY <1>1, <5>2
      <4> QED
        BY <4>1, <4>2
    <3>3. target \in Nat /\ first <= target /\ target <= MaxBars + 1
      <4>1. CASE targets = {}
        BY <1>1, <1>3, <3>1, <4>1
      <4>2. CASE targets # {}
        <5>1. target \in targets
          BY <1>3, <2>6, <4>2
        <5>2. target \in Nat /\ target <= MaxBars /\ first <= target
          BY <2>5, <5>1
        <5> QED
          BY <1>1, <5>2
      <4> QED
        BY <4>1, <4>2
    <3> QED
      BY <3>2, <3>3
  <2>8. ASSUME path[first] = "target"
        PROVE  target < stop
    <3>1. first \in targets
      BY <1>1, <2>2, <2>8 DEF targets
    <3>2. target <= first
      BY <1>3, <2>6, <3>1
    <3>3. stop # first
      <4>1. first \notin stops
        BY <2>8 DEF stops
      <4>2. CASE stops = {}
        BY <1>1, <1>3, <2>2, <4>2
      <4>3. CASE stops # {}
        BY <1>3, <2>6, <4>1, <4>3
      <4> QED
        BY <4>2, <4>3
    <3> QED
      BY <2>2, <2>7, <3>2, <3>3
  <2>9. ASSUME path[first] # "target"
        PROVE  stop <= target /\ stop <= MaxBars
    <3>1. first \in stops
      BY <1>1, <2>2, <2>3, <2>9 DEF stops
    <3>2. stop <= first
      BY <1>3, <2>6, <3>1
    <3> QED
      BY <1>1, <2>2, <2>7, <3>2
  <2> QED
    BY <2>4, <2>8, <2>9 DEF stop, target
<1> QED
  BY <1>4, <1>5

(* What an append leaves: lines that cannot be read stay so, and all that  *)
(* could be read stays.                                                    *)
LEMMA AppendSteps ==
  ASSUME NEW lines \in SUBSET Lines, NEW l \in Lines, l.outcome = Unresolved
  PROVE  /\ AppendLine(lines, l) \in SUBSET Lines
         /\ BarsOf(AppendLine(lines, l)) \subseteq BarsOf(lines) \cup {l.bar}
         /\ \A m \in lines : Readable(m) => m \in AppendLine(lines, l)
         /\ Halves(lines) = {} => l \in AppendLine(lines, l)
         /\ \A m \in AppendLine(lines, l) :
              m \in lines \/ m.outcome \in {Unresolved, "unreadable"}
<1>1. CASE Halves(lines) = {}
  BY <1>1 DEF AppendLine, BarsOf
<1>2. CASE Halves(lines) # {}
  <2> DEFINE Joined(m) == [m EXCEPT !.torn = l.torn, !.outcome = "unreadable"]
  <2>1. ASSUME NEW m \in Lines
        PROVE  /\ Joined(m) \in Lines /\ Joined(m).bar = m.bar
               /\ Joined(m).outcome = "unreadable"
    <3> DEFINE one == [m EXCEPT !.torn = l.torn]
    <3>1. one \in Lines /\ one.bar = m.bar
      BY DEF Lines
    <3>2. Joined(m) = [one EXCEPT !.outcome = "unreadable"] /\ "unreadable" \in Outcomes
      BY DEF Outcomes, Lines
    <3> HIDE DEF one, Joined
    <3> QED
      BY <3>1, <3>2 DEF Lines
  <2>2. AppendLine(lines, l) = (lines \ Halves(lines)) \cup {Joined(m) : m \in Halves(lines)}
    BY <1>2 DEF AppendLine
  <2> HIDE DEF Joined
  <2>3. Halves(lines) \subseteq lines
    BY DEF Halves
  <2> QED
    BY <1>2, <2>1, <2>2, <2>3 DEF BarsOf, Halves, Readable
<1> QED
  BY <1>1, <1>2

-----------------------------------------------------------------------------
LEMMA VaultInitHolds == VaultInit => VaultHeld
<1> SUFFICES ASSUME VaultInit PROVE VaultHeld
  OBVIOUS
<1>1. VaultTyped
  <2>1. 1 \in Bars /\ 0 \in 0..MaxBars
    BY VaultAssumption DEF Bars
  <2>2. NotRunning \in Jobs
    BY <2>1 DEF NotRunning, Jobs
  <2> QED
    BY <2>1, <2>2 DEF VaultInit, VaultTyped
<1>2. /\ \A r \in Resolvers : /\ ~resolver[r].on /\ resolver[r].lines = {}
                              /\ resolver[r].events = {}
      /\ events_file = {} /\ tally.appended = {}
  BY DEF VaultInit, NotRunning
<1> QED
  BY <1>1, <1>2 DEF VaultHeld, Known, LossesExplained, LoadedWhole, SoundHeld, BarsOf

LEMMA SoundStays ==
  ASSUME path' = path
  PROVE  \A l : Sound(l)' <=> Sound(l)
BY DEF Sound, FirstTouch

(* An event is appended, whole or torn.                                    *)
LEMMA AppendKeeps ==
  ASSUME VaultHeld, RecordNearMiss \/ Tear
  PROVE  VaultHeld'
<1> DEFINE whole == Line(clock)
           half == [Line(clock) EXCEPT !.torn = TRUE]
<1>1. /\ UNCHANGED <<path, clock, cached, resolver>> /\ clock \notin tally.appended
      /\ clock \in Bars /\ events_file \in SUBSET Lines
  BY DEF VaultHeld, VaultTyped, RecordNearMiss, Tear
<1>2. /\ whole \in Lines /\ whole.bar = clock /\ whole.outcome = Unresolved /\ Readable(whole)
      /\ half \in Lines /\ half.bar = clock /\ half.outcome = Unresolved
  BY <1>1 DEF Line, Lines, Outcomes, Readable, Unresolved
<1> HIDE DEF whole, half
<1>3. PICK l \in {whole, half} : events_file' = AppendLine(events_file, l)
  BY DEF RecordNearMiss, Tear, whole, half
<1>4. /\ tally' \in [appended: SUBSET Bars, torn: SUBSET Bars, passed: SUBSET Bars, tears: Nat]
      /\ tally'.appended = tally.appended \cup {clock} /\ tally.torn \subseteq tally'.torn
      /\ tally'.passed = tally.passed
  <2>1. tally \in [appended: SUBSET Bars, torn: SUBSET Bars, passed: SUBSET Bars, tears: Nat]
    BY DEF VaultHeld, VaultTyped
  <2>2. CASE RecordNearMiss
    <3> DEFINE more == IF EndsTorn THEN {clock} ELSE {}
               one == [tally EXCEPT !.appended = tally.appended \cup {clock}]
    <3>1. more \subseteq Bars
      BY <1>1
    <3>2. tally' = [one EXCEPT !.torn = tally.torn \cup more]
      BY <2>1, <2>2 DEF RecordNearMiss
    <3>3. /\ one \in [appended: SUBSET Bars, torn: SUBSET Bars, passed: SUBSET Bars, tears: Nat]
          /\ one.appended = tally.appended \cup {clock} /\ one.passed = tally.passed
      BY <1>1, <2>1
    <3> HIDE DEF more, one
    <3> QED
      BY <2>1, <3>1, <3>2, <3>3
  <2>3. CASE Tear
    <3> DEFINE one == [tally EXCEPT !.appended = tally.appended \cup {clock}]
               two == [one EXCEPT !.torn = tally.torn \cup {clock}]
    <3>1. tally' = [two EXCEPT !.tears = tally.tears + 1]
      BY <2>1, <2>3 DEF Tear
    <3>2. /\ one \in [appended: SUBSET Bars, torn: SUBSET Bars, passed: SUBSET Bars, tears: Nat]
          /\ one.appended = tally.appended \cup {clock} /\ one.passed = tally.passed
      BY <1>1, <2>1
    <3> HIDE DEF one
    <3>3. /\ two \in [appended: SUBSET Bars, torn: SUBSET Bars, passed: SUBSET Bars, tears: Nat]
          /\ two.appended = one.appended /\ two.passed = one.passed
          /\ two.torn = tally.torn \cup {clock}
      BY <1>1, <2>1, <3>2
    <3> HIDE DEF two
    <3> QED
      BY <2>1, <3>1, <3>2, <3>3
  <2> QED
    BY <2>2, <2>3
<1>5. /\ events_file' \in SUBSET Lines
      /\ BarsOf(events_file') \subseteq BarsOf(events_file) \cup {clock}
      /\ \A m \in events_file : Readable(m) => m \in events_file'
      /\ \A m \in events_file' : m \in events_file \/ m.outcome \in {Unresolved, "unreadable"}
  BY <1>1, <1>2, <1>3, AppendSteps
<1>6. clock \in tally'.torn \/ (whole \in events_file')
  <2>1. CASE Tear
    BY <2>1 DEF Tear, VaultHeld, VaultTyped
  <2>2. CASE RecordNearMiss /\ EndsTorn
    BY <2>2 DEF RecordNearMiss, VaultHeld, VaultTyped
  <2>3. CASE RecordNearMiss /\ ~EndsTorn
    <3>1. events_file' = AppendLine(events_file, whole) /\ Halves(events_file) = {}
      BY <2>3 DEF RecordNearMiss, EndsTorn, whole
    <3> QED
      BY <1>1, <1>2, <3>1, AppendSteps
  <2> QED
    BY <2>1, <2>2, <2>3
<1>7. VaultTyped'
  BY <1>1, <1>4, <1>5 DEF VaultHeld, VaultTyped
<1>8. Known'
  BY <1>1, <1>4, <1>5 DEF VaultHeld, Known, BarsOf
<1>9. LossesExplained'
  BY <1>2, <1>4, <1>5, <1>6 DEF VaultHeld, LossesExplained, InVault, Readable
<1>10. LoadedWhole'
  <2>1. \A r \in Resolvers : clock \notin resolver[r].lines
    BY <1>1 DEF VaultHeld, Known
  <2> QED
    BY <1>1, <1>4, <2>1 DEF VaultHeld, LoadedWhole, Excused, Readable
<1>11. SoundHeld'
  <2>1. \A l1 \in events_file : Sound(l1)'
    BY <1>1, SoundStays DEF VaultHeld, SoundHeld
  <2>2. \A l1 : l1.outcome \in {Unresolved, "unreadable"} => Sound(l1)'
    BY DEF Sound, Unresolved
  <2>3. \A l1 \in events_file' : Sound(l1)'
    BY <1>5, <2>1, <2>2
  <2> QED
    BY <1>1, <2>3, SoundStays DEF VaultHeld, SoundHeld
<1> QED
  BY <1>7, <1>8, <1>9, <1>10, <1>11 DEF VaultHeld

(* A resolver reads what the file has.                                     *)
LEMMA LoadKeeps ==
  ASSUME VaultHeld, NEW r \in Resolvers, ResolverLoads(r)
  PROVE  VaultHeld'
<1> DEFINE job == [on |-> TRUE, events |-> LoadEvents(events_file), horizon |-> cached,
                   lines |-> BarsOf(events_file)]
<1>1. /\ UNCHANGED <<path, clock, cached, events_file, tally>>
      /\ resolver' = [resolver EXCEPT ![r] = job]
  BY DEF ResolverLoads
<1>2. job \in Jobs
  <2>1. cached \in 0..MaxBars
    BY VaultAssumption DEF VaultHeld, VaultTyped, Bars
  <2>2. LoadEvents(events_file) \subseteq Lines /\ BarsOf(events_file) \subseteq Bars
    BY DEF VaultHeld, VaultTyped, LoadEvents, BarsOf, Lines
  <2> QED
    BY <2>1, <2>2 DEF Jobs
<1>3. /\ job.on /\ job.events = LoadEvents(events_file) /\ job.lines = BarsOf(events_file)
  OBVIOUS
<1> HIDE DEF job
<1>4. /\ resolver' \in [Resolvers -> Jobs] /\ resolver'[r] = job
      /\ \A q \in Resolvers : q # r => resolver'[q] = resolver[q]
  BY <1>1, <1>2 DEF VaultHeld, VaultTyped
<1>5. VaultTyped'
  BY <1>1, <1>4 DEF VaultHeld, VaultTyped
<1>6. Known'
  <2>1. job.lines \cup BarsOf(job.events) \subseteq tally.appended
    BY <1>3 DEF VaultHeld, Known, LoadEvents, BarsOf
  <2> QED
    BY <1>1, <1>4, <2>1 DEF VaultHeld, Known, BarsOf
<1>7. LossesExplained'
  BY <1>1 DEF VaultHeld, LossesExplained, InVault
<1>8. LoadedWhole'
  <2>1. ASSUME NEW b \in BarsOf(events_file) \cap (tally.appended \ Excused)
        PROVE  \E l \in LoadEvents(events_file) : l.bar = b
    BY DEF VaultHeld, LossesExplained, InVault, Excused, LoadEvents
  <2>2. \A l \in LoadEvents(events_file) : Readable(l)
    BY DEF LoadEvents
  <2>3. ASSUME NEW q \in Resolvers, resolver'[q].on
        PROVE  /\ \A l \in resolver'[q].events : Readable(l)
               /\ \A b \in resolver'[q].lines \cap (tally.appended \ Excused) :
                    \E l \in resolver'[q].events : l.bar = b
    <3>1. CASE q = r
      BY <1>3, <1>4, <2>1, <2>2, <3>1
    <3>2. CASE q # r
      BY <1>4, <2>3, <3>2 DEF VaultHeld, LoadedWhole
    <3> QED
      BY <3>1, <3>2
  <2> QED
    BY <1>1, <2>3 DEF LoadedWhole, Excused, Readable
<1>9. SoundHeld'
  <2>1. \A l \in job.events : Sound(l)
    BY <1>3 DEF VaultHeld, SoundHeld, LoadEvents
  <2> QED
    BY <1>1, <1>4, <2>1, SoundStays DEF VaultHeld, SoundHeld
<1> QED
  BY <1>5, <1>6, <1>7, <1>8, <1>9 DEF VaultHeld

(* A resolver replaces the file by what it had read, with its verdicts.    *)
LEMMA WriteKeeps ==
  ASSUME VaultHeld, NEW r \in Resolvers, WriteEvents(r)
  PROVE  VaultHeld'
<1> DEFINE job == resolver[r]
           V(l) == Verdict(l, job.horizon)
<1>1. /\ UNCHANGED <<path, clock, cached>> /\ job.on
      /\ events_file' = {V(l) : l \in job.events}
      /\ resolver' = [resolver EXCEPT ![r] = NotRunning]
      /\ tally' = [tally EXCEPT !.passed = tally.passed \cup (BarsOf(events_file) \ job.lines)]
  BY DEF WriteEvents, Resolved
<1>2. job \in Jobs /\ job.events \subseteq Lines /\ job.horizon \in 0..MaxBars
  BY DEF VaultHeld, VaultTyped, Jobs
<1>3. ASSUME NEW l \in job.events
      PROVE  V(l) \in Lines /\ V(l).bar = l.bar /\ Readable(V(l)) /\ Sound(V(l))
  <2>1. l \in Lines /\ Readable(l) /\ Sound(l) /\ l.bar \in Bars
    BY <1>1, <1>2 DEF VaultHeld, LoadedWhole, SoundHeld, Lines
  <2>2. CASE l.outcome # Unresolved
    BY <2>1, <2>2 DEF Verdict
  <2>3. CASE l.outcome = Unresolved
    <3> DEFINE s == Score(l.bar, job.horizon)
    <3>1. path \in [Bars -> BarTouches]
      BY DEF VaultHeld, VaultTyped
    <3>2. /\ s \in {Unresolved, "win", "loss"}
          /\ s = "loss" => /\ FirstTouch(l.bar, {"stop", "both"}) <= FirstTouch(l.bar, {"target", "both"})
                           /\ FirstTouch(l.bar, {"stop", "both"}) <= MaxBars
          /\ s = "win" => FirstTouch(l.bar, {"target", "both"}) < FirstTouch(l.bar, {"stop", "both"})
      BY <1>2, <2>1, <3>1, ScoreSound
    <3>3. V(l) = [l EXCEPT !.outcome = s]
      BY <2>3 DEF Verdict
    <3> HIDE DEF s, V
    <3>4. V(l) \in Lines /\ V(l).bar = l.bar /\ V(l).torn = l.torn /\ V(l).outcome = s
      BY <2>1, <3>2, <3>3 DEF Lines, Outcomes
    <3>5. Readable(V(l))
      BY <2>1, <3>2, <3>4 DEF Readable, Unresolved
    <3>6. Sound(V(l))
      BY <3>2, <3>4 DEF Sound
    <3> QED
      BY <3>4, <3>5, <3>6
  <2> QED
    BY <2>2, <2>3
<1> HIDE DEF V
<1>4. /\ tally' \in [appended: SUBSET Bars, torn: SUBSET Bars, passed: SUBSET Bars, tears: Nat]
      /\ tally'.appended = tally.appended /\ tally'.torn = tally.torn
      /\ tally'.passed = tally.passed \cup (BarsOf(events_file) \ job.lines)
  <2>1. BarsOf(events_file) \subseteq Bars
    BY DEF VaultHeld, VaultTyped, BarsOf, Lines
  <2> QED
    BY <1>1, <2>1 DEF VaultHeld, VaultTyped
<1>5. NotRunning \in Jobs /\ ~NotRunning.on /\ NotRunning.lines = {} /\ NotRunning.events = {}
  BY VaultAssumption DEF NotRunning, Jobs
<1>6. /\ resolver' \in [Resolvers -> Jobs] /\ resolver'[r] = NotRunning
      /\ \A q \in Resolvers : q # r => resolver'[q] = resolver[q]
  BY <1>1, <1>5 DEF VaultHeld, VaultTyped
<1>7. VaultTyped'
  BY <1>1, <1>3, <1>4, <1>6 DEF VaultHeld, VaultTyped
<1>8. \A l \in job.events : l.bar \in tally.appended
  BY DEF VaultHeld, Known, BarsOf
<1>9. Known'
  BY <1>1, <1>3, <1>4, <1>5, <1>6, <1>8 DEF VaultHeld, Known, BarsOf
<1>10. LossesExplained'
  <2>1. ASSUME NEW b \in tally.appended \ (Excused \cup (BarsOf(events_file) \ job.lines))
        PROVE  \E l \in job.events : l.bar = b
    <3>1. b \in BarsOf(events_file)
      BY DEF VaultHeld, LossesExplained, InVault, Excused, BarsOf
    <3> QED
      BY <1>1, <3>1 DEF VaultHeld, LoadedWhole
  <2>2. ASSUME NEW b \in tally.appended \ (Excused \cup (BarsOf(events_file) \ job.lines))
        PROVE  \E m \in events_file' : m.bar = b /\ Readable(m)
    BY <1>1, <1>3, <2>1
  <2> QED
    BY <1>4, <2>2 DEF LossesExplained, InVault, Excused, Readable
<1>11. LoadedWhole'
  BY <1>4, <1>5, <1>6 DEF VaultHeld, LoadedWhole, Excused, Readable
<1>12. SoundHeld'
  <2>1. \A m \in events_file' : Sound(m)
    BY <1>1, <1>3
  <2> QED
    BY <1>1, <1>5, <1>6, <2>1, SoundStays DEF VaultHeld, SoundHeld
<1> QED
  BY <1>7, <1>9, <1>10, <1>11, <1>12 DEF VaultHeld

LEMMA VaultStaysHeld == VaultSpec => []VaultHeld
<1>1. VaultHeld /\ [VaultNext]_vaultVars => VaultHeld'
  <2> SUFFICES ASSUME VaultHeld, [VaultNext]_vaultVars PROVE VaultHeld'
    OBVIOUS
  <2>1. CASE BarCloses \/ Download \/ UNCHANGED vaultVars
    <3>1. UNCHANGED <<path, events_file, resolver, tally>>
      BY <2>1 DEF BarCloses, Download, vaultVars
    <3>2. clock' \in Bars /\ cached' \in 0..clock'
      BY <2>1, VaultAssumption DEF VaultHeld, VaultTyped, BarCloses, Download, Bars, vaultVars
    <3>3. VaultTyped' /\ Known' /\ LossesExplained' /\ LoadedWhole'
      BY <3>1, <3>2
      DEF VaultHeld, VaultTyped, Known, LossesExplained, InVault, LoadedWhole, Excused, Readable
    <3>4. SoundHeld'
      BY <3>1, SoundStays DEF VaultHeld, SoundHeld
    <3> QED
      BY <3>3, <3>4 DEF VaultHeld
  <2> QED
    BY <2>1, AppendKeeps, LoadKeeps, WriteKeeps DEF VaultNext
<1> QED
  BY <1>1, VaultInitHolds, PTL DEF VaultSpec

(* Whatever appends, deaths and resolvers come between: no event is lost   *)
(* without one of the excuses, and no verdict is one that a longer future  *)
(* would take back.                                                        *)
THEOREM VaultLosesNothingElse == VaultSpec => []LossesExplained
BY VaultStaysHeld, PTL DEF VaultHeld

THEOREM VerdictsAreFinal == VaultSpec => []VerdictsTrue
<1>1. VaultHeld => VerdictsTrue
  BY DEF VaultHeld, SoundHeld, Sound, VerdictsTrue
<1> QED
  BY <1>1, VaultStaysHeld, PTL

-----------------------------------------------------------------------------
(* The alarm.  A process that is up has pinged within the interval since   *)
(* its start, with the note of now once the note has not changed since     *)
(* its last heartbeat; one that is down pinged last when it ended.         *)
KillKinds == {NoValue, "dd", "stale", "sticky"}

Notes == {"rearms", "sticky", "halted", ""}

NoteNow == IF Killed THEN {HaltNote, "halted"} ELSE {""}

AlarmTyped ==
  /\ minute \in Nat /\ kill \in KillKinds /\ master \in BOOLEAN /\ net \in BOOLEAN
  /\ proc \in [up: BOOLEAN, beat: Nat \cup {NoValue}, errors: Nat, handled: BOOLEAN,
               notified: Nat \cup {NoValue}]
  /\ check \in [at: Nat \cup {NoValue}, up: BOOLEAN, note: Notes]
  /\ past \in [began: Nat \cup {NoValue}, lost: BOOLEAN, halt: Nat, died: Nat,
               fatal: BOOLEAN, due: BOOLEAN]
  /\ check.at # NoValue => check.at <= minute

BeatsOnTime ==
  proc.up =>
    /\ proc.beat \in Nat /\ past.began \in Nat
    /\ past.began <= proc.beat /\ proc.beat <= minute /\ minute <= proc.beat + Interval
    /\ "loop" \in looped => minute < proc.beat + Interval

PingsShown ==
  proc.up /\ ~past.lost /\ proc.beat > past.began =>
    /\ check.at # NoValue /\ proc.beat <= check.at /\ check.up
    /\ proc.beat > past.halt => check.note \in NoteNow

EndShown ==
  ~proc.up =>
    /\ check.at # NoValue => check.at <= past.died
    /\ past.fatal /\ ~past.due /\ ~past.lost => ~check.up

AlarmHeld == AlarmTyped /\ BeatsOnTime /\ PingsShown /\ EndShown

LEMMA AlarmNumbers ==
  /\ Interval \in Nat /\ Period \in Nat /\ Interval <= Period /\ NoValue \notin Nat
  /\ \A drops \in 0..MaxDrops : Send(drops) <=> net
BY AlarmAssumption DEF Send

LEMMA HaltNoteTyped == HaltNote \in Notes /\ "" \in Notes /\ "halted" \in Notes
BY DEF HaltNote, Notes

LEMMA HaltNoteNow == kill \in KillKinds => HaltNote \in NoteNow
BY AlarmAssumption DEF HaltNote, NoteNow, Killed, KillKinds

LEMMA AlarmInitHolds == AlarmInit => AlarmHeld
<1> SUFFICES ASSUME AlarmInit PROVE AlarmHeld
  OBVIOUS
<1>1. /\ minute = 0 /\ proc = Down /\ kill = NoValue /\ master = FALSE /\ net = TRUE
      /\ check = [at |-> NoValue, up |-> FALSE, note |-> ""]
      /\ past = [began |-> NoValue, lost |-> FALSE, halt |-> 0, died |-> 0, fatal |-> FALSE,
                 due |-> FALSE]
  BY DEF AlarmInit
<1>2. AlarmTyped /\ ~proc.up /\ check.at = NoValue /\ ~past.fatal
  <2>1. /\ proc \in [up: BOOLEAN, beat: Nat \cup {NoValue}, errors: Nat, handled: BOOLEAN,
                     notified: Nat \cup {NoValue}]
        /\ ~proc.up
    BY <1>1 DEF Down
  <2>2. check \in [at: Nat \cup {NoValue}, up: BOOLEAN, note: Notes] /\ check.at = NoValue
    BY <1>1, HaltNoteTyped
  <2>3. /\ past \in [began: Nat \cup {NoValue}, lost: BOOLEAN, halt: Nat, died: Nat,
                     fatal: BOOLEAN, due: BOOLEAN]
        /\ ~past.fatal
    BY <1>1
  <2> QED
    BY <1>1, <2>1, <2>2, <2>3 DEF AlarmTyped, KillKinds
<1> QED
  BY <1>2 DEF AlarmHeld, BeatsOnTime, PingsShown, EndShown

LEMMA LaunchKeeps ==
  ASSUME AlarmHeld, Launch
  PROVE  AlarmHeld'
<1>1. /\ UNCHANGED <<minute, master, net, check>> /\ kill' = NoValue /\ looped' = {}
      /\ proc' = [Down EXCEPT !.up = TRUE, !.beat = minute]
      /\ past' = [past EXCEPT !.began = minute, !.lost = FALSE, !.fatal = FALSE,
                              !.halt = IF kill # NoValue THEN minute ELSE past.halt]
  BY DEF Launch
<1> DEFINE halt == IF kill # NoValue THEN minute ELSE past.halt
<1>2. /\ minute \in Nat /\ halt \in Nat
      /\ past \in [began: Nat \cup {NoValue}, lost: BOOLEAN, halt: Nat, died: Nat,
                   fatal: BOOLEAN, due: BOOLEAN]
  BY DEF AlarmHeld, AlarmTyped
<1>3. past' = [past EXCEPT !.began = minute, !.lost = FALSE, !.fatal = FALSE, !.halt = halt]
  BY <1>1
<1> HIDE DEF halt
<1>4. /\ past' \in [began: Nat \cup {NoValue}, lost: BOOLEAN, halt: Nat, died: Nat,
                    fatal: BOOLEAN, due: BOOLEAN]
      /\ past'.began = minute
  BY <1>2, <1>3
<1>5. /\ proc' \in [up: BOOLEAN, beat: Nat \cup {NoValue}, errors: Nat, handled: BOOLEAN,
                    notified: Nat \cup {NoValue}]
      /\ proc'.up /\ proc'.beat = minute
  BY <1>1, <1>2 DEF Down
<1>6. AlarmTyped'
  BY <1>1, <1>4, <1>5 DEF AlarmHeld, AlarmTyped, KillKinds
<1>7. minute <= minute + Interval
  BY <1>2, AlarmNumbers
<1>8. BeatsOnTime' /\ PingsShown' /\ EndShown'
  BY <1>1, <1>2, <1>4, <1>5, <1>7 DEF BeatsOnTime, PingsShown, EndShown
<1> QED
  BY <1>6, <1>8 DEF AlarmHeld

(* One pass of the loop: an error that ends the process, and a heartbeat   *)
(* that is due.                                                            *)
LEMMA PassKeeps ==
  ASSUME AlarmHeld, Pass
  PROVE  AlarmHeld'
<1>1. PICK raises \in BOOLEAN, drops \in 0..MaxDrops :
        LET errors == IF Killed THEN proc.errors ELSE IF raises THEN proc.errors + 1 ELSE 0
            fatal == ~Killed /\ errors >= MaxErrors
            failed == IF fatal THEN Pinged(check, Send(drops), FALSE, "") ELSE check
        IN  /\ check' = IF Beats THEN Pinged(failed, Send(drops), TRUE, HaltNote) ELSE failed
            /\ proc' = IF fatal THEN Down
                       ELSE [proc EXCEPT !.errors = errors, !.beat = IF Beats THEN minute ELSE @]
            /\ past' = [IF fatal THEN Ends(TRUE, Beats) ELSE past
                          EXCEPT !.lost = @ \/ ((Beats \/ fatal) /\ ~net)]
  BY DEF Pass
<1> DEFINE errors == IF Killed THEN proc.errors ELSE IF raises THEN proc.errors + 1 ELSE 0
           fatal == ~Killed /\ errors >= MaxErrors
           failed == IF fatal THEN Pinged(check, Send(drops), FALSE, "") ELSE check
           beat == IF Beats THEN minute ELSE proc.beat
           ended == IF fatal THEN Ends(TRUE, Beats) ELSE past
           lost == ended.lost \/ ((Beats \/ fatal) /\ ~net)
           Checks == [at: Nat \cup {NoValue}, up: BOOLEAN, note: Notes]
           Pasts == [began: Nat \cup {NoValue}, lost: BOOLEAN, halt: Nat, died: Nat,
                     fatal: BOOLEAN, due: BOOLEAN]
<1>2. /\ check' = IF Beats THEN Pinged(failed, Send(drops), TRUE, HaltNote) ELSE failed
      /\ proc' = IF fatal THEN Down ELSE [proc EXCEPT !.errors = errors, !.beat = beat]
      /\ past' = [ended EXCEPT !.lost = lost]
      /\ proc.up /\ looped' = looped \cup {"loop"} /\ UNCHANGED <<minute, kill, master, net>>
  BY <1>1 DEF Pass
<1>3. /\ minute \in Nat /\ errors \in Nat /\ check \in Checks /\ past \in Pasts
      /\ kill \in KillKinds /\ net \in BOOLEAN /\ (Send(drops) <=> net)
      /\ proc.beat \in Nat /\ past.began \in Nat /\ past.began <= proc.beat
      /\ proc.beat <= minute /\ minute <= proc.beat + Interval
      /\ check.at # NoValue => check.at <= minute
  <2>1. /\ minute \in Nat /\ check \in Checks /\ past \in Pasts /\ kill \in KillKinds
        /\ net \in BOOLEAN /\ proc.errors \in Nat
        /\ check.at # NoValue => check.at <= minute
    BY DEF AlarmHeld, AlarmTyped
  <2>2. errors \in Nat
    BY <2>1
  <2>3. /\ proc.beat \in Nat /\ past.began \in Nat /\ past.began <= proc.beat
        /\ proc.beat <= minute /\ minute <= proc.beat + Interval
    BY <1>2 DEF AlarmHeld, BeatsOnTime
  <2>4. Send(drops) <=> net
    BY AlarmNumbers
  <2> QED
    BY <2>1, <2>2, <2>3, <2>4
<1>4. /\ fatal \in BOOLEAN /\ Beats \in BOOLEAN /\ Send(drops) \in BOOLEAN
      /\ minute \in Nat /\ check \in Checks
  BY <1>3 DEF Beats, Send
<1>5. Beats <=> minute - proc.beat >= Interval
  BY DEF Beats
<1> HIDE DEF errors, fatal
<1>6. /\ failed \in Checks
      /\ ~fatal => failed = check
      /\ fatal /\ net => failed.at = minute /\ failed.up = FALSE
      /\ fatal /\ ~net => failed = check
  <2> DEFINE pinged == Pinged(check, Send(drops), FALSE, "")
  <2>1. /\ pinged \in Checks
        /\ Send(drops) => pinged.at = minute /\ pinged.up = FALSE
        /\ ~Send(drops) => pinged = check
    BY <1>4, HaltNoteTyped DEF Pinged
  <2> HIDE DEF pinged
  <2>2. failed = IF fatal THEN pinged ELSE check
    BY DEF pinged
  <2> HIDE DEF failed
  <2> QED
    BY <1>3, <1>4, <2>1, <2>2
<1> HIDE DEF failed
<1>7. /\ check' \in Checks
      /\ ~Beats => check' = failed
      /\ Beats /\ net => check'.at = minute /\ check'.up /\ check'.note = HaltNote
      /\ Beats /\ ~net => check' = failed
  <2> DEFINE pinged == Pinged(failed, Send(drops), TRUE, HaltNote)
  <2>1. /\ pinged \in Checks
        /\ Send(drops) => pinged.at = minute /\ pinged.up /\ pinged.note = HaltNote
        /\ ~Send(drops) => pinged = failed
    BY <1>4, <1>6, HaltNoteTyped DEF Pinged
  <2> HIDE DEF pinged
  <2>2. check' = IF Beats THEN pinged ELSE failed
    BY <1>2 DEF pinged
  <2> QED
    BY <1>3, <1>6, <2>1, <2>2
<1>8. /\ past' \in Pasts /\ past'.began = past.began /\ past'.halt = past.halt
      /\ past'.lost = (past.lost \/ ((Beats \/ fatal) /\ ~net))
      /\ fatal => past'.died = minute /\ past'.fatal /\ past'.due = Beats
  <2>1. /\ ended \in Pasts /\ ended.began = past.began /\ ended.halt = past.halt
        /\ ended.lost = past.lost
        /\ fatal => ended.died = minute /\ ended.fatal /\ ended.due = Beats
    BY <1>3, <1>4 DEF Ends
  <2>2. lost \in BOOLEAN
    BY <1>4
  <2>3. lost = (past.lost \/ ((Beats \/ fatal) /\ ~net))
    BY <2>1
  <2> HIDE DEF ended, lost
  <2> QED
    BY <1>2, <2>1, <2>2, <2>3
<1>9. /\ proc' \in [up: BOOLEAN, beat: Nat \cup {NoValue}, errors: Nat, handled: BOOLEAN,
                    notified: Nat \cup {NoValue}]
      /\ proc'.up <=> ~fatal
      /\ ~fatal => proc'.beat = beat
  <2>1. proc \in [up: BOOLEAN, beat: Nat \cup {NoValue}, errors: Nat, handled: BOOLEAN,
                  notified: Nat \cup {NoValue}]
    BY DEF AlarmHeld, AlarmTyped
  <2>2. beat \in Nat
    BY <1>3
  <2> HIDE DEF beat
  <2>3. CASE fatal
    BY <1>2, <2>3 DEF Down
  <2>4. CASE ~fatal
    BY <1>2, <1>3, <2>1, <2>2, <2>4
  <2> QED
    BY <2>3, <2>4
<1>10. AlarmTyped'
  <2>1. check'.at # NoValue => check'.at <= minute
    BY <1>3, <1>6, <1>7
  <2> QED
    BY <1>2, <1>7, <1>8, <1>9, <2>1 DEF AlarmHeld, AlarmTyped
<1>11. BeatsOnTime'
  <2>1. CASE Beats
    <3>1. ~fatal => proc'.beat = minute
      BY <1>9, <2>1
    <3>2. past'.began = past.began /\ minute' = minute
      BY <1>2, <1>8
    <3>3. Interval \in Nat \ {0}
      BY AlarmAssumption
    <3>4. minute <= minute + Interval /\ minute < minute + Interval
      BY <1>3, <3>3
    <3> QED
      BY <1>3, <1>9, <3>1, <3>2, <3>4 DEF BeatsOnTime
  <2>2. CASE ~Beats
    <3>1. ~fatal => proc'.beat = proc.beat
      BY <1>9, <2>2
    <3>2. past'.began = past.began /\ minute' = minute
      BY <1>2, <1>8
    <3>3. minute < proc.beat + Interval
      BY <1>3, <1>5, <2>2, AlarmNumbers
    <3> QED
      BY <1>3, <1>9, <3>1, <3>2, <3>3 DEF BeatsOnTime
  <2> QED
    BY <2>1, <2>2
<1>12. PingsShown'
  <2> SUFFICES ASSUME ~fatal, ~past'.lost, proc'.beat > past'.began
               PROVE  /\ check'.at # NoValue /\ proc'.beat <= check'.at /\ check'.up
                      /\ proc'.beat > past'.halt => check'.note \in NoteNow'
    BY <1>9 DEF PingsShown
  <2>1. NoteNow' = NoteNow
    BY <1>2 DEF NoteNow, Killed, HaltNote
  <2>2. CASE Beats
    <3>1. net
      BY <1>8, <2>2
    <3> QED
      BY <1>3, <1>7, <1>9, <2>1, <2>2, <3>1, AlarmNumbers, HaltNoteNow
  <2>3. CASE ~Beats
    <3>1. proc'.beat = proc.beat /\ check' = check /\ ~past.lost
      BY <1>6, <1>7, <1>8, <1>9, <2>3
    <3> QED
      BY <1>2, <1>8, <2>1, <3>1 DEF AlarmHeld, PingsShown
  <2> QED
    BY <2>2, <2>3
<1>13. EndShown'
  <2> SUFFICES ASSUME fatal
               PROVE  /\ check'.at # NoValue => check'.at <= past'.died
                      /\ ~past'.due /\ ~past'.lost => ~check'.up
    BY <1>9 DEF EndShown
  <2>1. check'.at # NoValue => check'.at <= minute
    BY <1>3, <1>6, <1>7
  <2>2. ASSUME ~Beats, ~past'.lost PROVE ~check'.up
    BY <1>6, <1>7, <1>8, <2>2
  <2> QED
    BY <1>8, <2>1, <2>2
<1> QED
  BY <1>10, <1>11, <1>12, <1>13 DEF AlarmHeld

(* The monitor closes everything, pings, and a halt is new to it.          *)
LEMMA EmergencySteps ==
  ASSUME AlarmHeld, proc.up, NEW drops \in 0..MaxDrops, EmergencyPing(Send(drops)),
         UNCHANGED <<minute, master, net>>, kill' \in KillKinds,
         Killed => kill' = kill, looped' = looped \cup {"monitor"}
  PROVE  AlarmHeld'
<1> DEFINE lost == past.lost \/ (Notifies /\ ~net)
           halt == IF Killed THEN past.halt ELSE minute
           notified == IF Notifies THEN minute ELSE proc.notified
           Checks == [at: Nat \cup {NoValue}, up: BOOLEAN, note: Notes]
           Pasts == [began: Nat \cup {NoValue}, lost: BOOLEAN, halt: Nat, died: Nat,
                     fatal: BOOLEAN, due: BOOLEAN]
           Procs == [up: BOOLEAN, beat: Nat \cup {NoValue}, errors: Nat, handled: BOOLEAN,
                     notified: Nat \cup {NoValue}]
<1>1. /\ check' = IF Notifies THEN Pinged(check, Send(drops), TRUE, "halted") ELSE check
      /\ proc' = [proc EXCEPT !.notified = notified, !.handled = Killed]
      /\ past' = [past EXCEPT !.lost = lost, !.halt = halt]
  BY DEF EmergencyPing
<1>2. /\ minute \in Nat /\ check \in Checks /\ past \in Pasts /\ proc \in Procs
      /\ net \in BOOLEAN /\ (Send(drops) <=> net)
      /\ check.at # NoValue => check.at <= minute
  BY AlarmNumbers DEF AlarmHeld, AlarmTyped
<1>3. /\ proc.beat \in Nat /\ past.began \in Nat /\ past.began <= proc.beat
      /\ proc.beat <= minute /\ minute <= proc.beat + Interval
      /\ "loop" \in looped => minute < proc.beat + Interval
  BY DEF AlarmHeld, BeatsOnTime
<1>4. lost \in BOOLEAN /\ halt \in Nat /\ notified \in Nat \cup {NoValue} /\ Killed \in BOOLEAN
  BY <1>2 DEF Notifies, Killed
<1> HIDE DEF lost, halt, notified
<1>5. /\ past' \in Pasts /\ past'.lost = lost /\ past'.halt = halt /\ past'.began = past.began
  BY <1>1, <1>2, <1>4
<1>6. /\ proc' \in Procs /\ proc'.up /\ proc'.beat = proc.beat
  <2> DEFINE one == [proc EXCEPT !.notified = notified]
  <2>1. one \in Procs /\ one.up /\ one.beat = proc.beat
    BY <1>2, <1>4
  <2>2. proc' = [one EXCEPT !.handled = Killed]
    BY <1>1, <1>2
  <2> HIDE DEF one
  <2> QED
    BY <1>4, <2>1, <2>2
<1>7. /\ check' \in Checks
      /\ check'.at # NoValue => check'.at <= minute
  <2> DEFINE pinged == Pinged(check, Send(drops), TRUE, "halted")
  <2>1. /\ pinged \in Checks
        /\ pinged.at # NoValue => pinged.at <= minute
    <3>1. CASE Send(drops)
      <4>1. pinged = [at |-> minute, up |-> TRUE, note |-> "halted"]
        BY <3>1 DEF Pinged
      <4> HIDE DEF pinged
      <4>2. pinged.at = minute
        BY <4>1
      <4>3. minute \in Nat \cup {NoValue} /\ minute \in Nat
        BY <1>2
      <4>4. "halted" \in Notes
        BY DEF Notes
      <4>5. minute <= minute
        BY <4>3
      <4>6. [at |-> minute, up |-> TRUE, note |-> "halted"] \in Checks
        BY <4>3, <4>4
      <4> QED
        BY <4>1, <4>2, <4>5, <4>6
    <3>2. CASE ~Send(drops)
      BY <1>2, <3>2 DEF Pinged
    <3> QED
      BY <3>1, <3>2
  <2>2. check' = pinged \/ check' = check
    BY <1>1
  <2> HIDE DEF pinged
  <2> QED
    BY <1>2, <2>1, <2>2
<1>8. /\ Notifies /\ net => check'.at = minute /\ check'.up /\ check'.note = "halted"
      /\ ~Notifies => check' = check
  BY <1>1, <1>2 DEF Pinged
<1>9. AlarmTyped'
  BY <1>2, <1>5, <1>6, <1>7 DEF AlarmHeld, AlarmTyped
<1>10. BeatsOnTime'
  BY <1>3, <1>5, <1>6 DEF BeatsOnTime
<1>11. PingsShown'
  <2> SUFFICES ASSUME ~past'.lost, proc'.beat > past'.began
               PROVE  /\ check'.at # NoValue /\ proc'.beat <= check'.at /\ check'.up
                      /\ proc'.beat > past'.halt => check'.note \in NoteNow'
    BY DEF PingsShown
  <2>1. ~past.lost /\ (Notifies => net) /\ proc.beat > past.began
    BY <1>2, <1>5, <1>6 DEF lost
  <2>2. /\ check.at # NoValue /\ proc.beat <= check.at /\ check.up
        /\ proc.beat > past.halt => check.note \in NoteNow
    BY <2>1 DEF AlarmHeld, PingsShown
  <2>3. check'.at # NoValue /\ proc'.beat <= check'.at /\ check'.up
    BY <1>2, <1>3, <1>6, <1>8, <2>1, <2>2, AlarmNumbers
  <2>4. CASE Killed
    <3>1. NoteNow' = NoteNow /\ "halted" \in NoteNow /\ past'.halt = past.halt
      BY <1>5, <2>4 DEF NoteNow, Killed, HaltNote, halt
    <3> QED
      BY <1>6, <1>8, <2>1, <2>2, <2>3, <3>1
  <2>5. CASE ~Killed
    <3>1. past'.halt = minute
      BY <1>5, <2>5 DEF halt
    <3> QED
      BY <1>2, <1>3, <1>6, <2>3, <3>1
  <2> QED
    BY <2>4, <2>5
<1>12. EndShown'
  BY <1>6 DEF EndShown
<1> QED
  BY <1>9, <1>10, <1>11, <1>12 DEF AlarmHeld

LEMMA MonitorKeeps ==
  ASSUME AlarmHeld, MonitorSees \/ MonitorHalts
  PROVE  AlarmHeld'
<1>1. CASE MonitorHalts
  BY <1>1, EmergencySteps DEF MonitorHalts, KillKinds
<1>2. CASE MonitorSees /\ Killed /\ ~proc.handled
  <2>1. kill \in KillKinds
    BY DEF AlarmHeld, AlarmTyped
  <2> QED
    BY <1>2, <2>1, EmergencySteps DEF MonitorSees
<1>3. CASE MonitorSees /\ ~(Killed /\ ~proc.handled)
  <2>1. /\ UNCHANGED <<minute, kill, master, net, check, past>> /\ proc.up
        /\ looped' = looped \cup {"monitor"} /\ proc' = [proc EXCEPT !.handled = Killed]
    BY <1>3 DEF MonitorSees
  <2>2. /\ proc' \in [up: BOOLEAN, beat: Nat \cup {NoValue}, errors: Nat, handled: BOOLEAN,
                      notified: Nat \cup {NoValue}]
        /\ proc'.up = proc.up /\ proc'.beat = proc.beat
    <3>1. Killed \in BOOLEAN
      BY DEF Killed, AlarmHeld, AlarmTyped
    <3> QED
      BY <2>1, <3>1 DEF AlarmHeld, AlarmTyped
  <2>3. AlarmTyped'
    BY <2>1, <2>2 DEF AlarmHeld, AlarmTyped
  <2>4. NoteNow' = NoteNow
    BY <2>1 DEF NoteNow, Killed, HaltNote
  <2> QED
    BY <2>1, <2>2, <2>3, <2>4 DEF AlarmHeld, BeatsOnTime, PingsShown, EndShown
<1> QED
  BY <1>1, <1>2, <1>3

(* The kill file of a past day is lifted or made to stay, and a person     *)
(* touches the kill files: the note is new.                                *)
LEMMA HaltChangeKeeps ==
  ASSUME AlarmHeld, MonitorRearms \/ Operator
  PROVE  AlarmHeld'
<1>1. /\ UNCHANGED <<minute, looped, proc, net, check>>
      /\ past' = [past EXCEPT !.halt = minute]
      /\ kill' \in KillKinds /\ master' \in BOOLEAN
  BY DEF AlarmHeld, AlarmTyped, MonitorRearms, Operator, KillKinds
<1>2. /\ past' \in [began: Nat \cup {NoValue}, lost: BOOLEAN, halt: Nat, died: Nat,
                    fatal: BOOLEAN, due: BOOLEAN]
      /\ past'.began = past.began /\ past'.lost = past.lost /\ past'.halt = minute
      /\ past'.died = past.died /\ past'.fatal = past.fatal /\ past'.due = past.due
  BY <1>1 DEF AlarmHeld, AlarmTyped
<1>3. AlarmTyped'
  BY <1>1, <1>2 DEF AlarmHeld, AlarmTyped
<1>4. BeatsOnTime' /\ EndShown'
  BY <1>1, <1>2 DEF AlarmHeld, BeatsOnTime, EndShown
<1>5. PingsShown'
  <2>1. proc.up => ~(proc.beat > minute)
    BY DEF AlarmHeld, AlarmTyped, BeatsOnTime
  <2> QED
    BY <1>1, <1>2, <2>1 DEF AlarmHeld, PingsShown
<1> QED
  BY <1>3, <1>4, <1>5 DEF AlarmHeld

LEMMA StopsKeeps ==
  ASSUME AlarmHeld, Stops
  PROVE  AlarmHeld'
<1>1. /\ UNCHANGED <<minute, kill, master, net, check>> /\ proc' = Down
      /\ past' = [past EXCEPT !.died = minute, !.fatal = FALSE, !.due = FALSE]
  BY DEF Stops, Ends
<1>2. /\ past' \in [began: Nat \cup {NoValue}, lost: BOOLEAN, halt: Nat, died: Nat,
                    fatal: BOOLEAN, due: BOOLEAN]
      /\ past'.died = minute /\ past'.fatal = FALSE
  BY <1>1 DEF AlarmHeld, AlarmTyped
<1>3. /\ proc' \in [up: BOOLEAN, beat: Nat \cup {NoValue}, errors: Nat, handled: BOOLEAN,
                    notified: Nat \cup {NoValue}]
      /\ ~proc'.up
  BY <1>1 DEF Down
<1>4. AlarmTyped'
  BY <1>1, <1>2, <1>3 DEF AlarmHeld, AlarmTyped
<1> QED
  BY <1>1, <1>2, <1>3, <1>4 DEF AlarmHeld, AlarmTyped, BeatsOnTime, PingsShown, EndShown

(* Five minutes pass when both loops have come round.                      *)
LEMMA TickKeeps ==
  ASSUME AlarmHeld, Tick
  PROVE  AlarmHeld'
<1>1. /\ UNCHANGED <<proc, master, net, check, past>> /\ minute' = minute + 1 /\ looped' = {}
      /\ proc.up => looped = {"loop", "monitor"}
      /\ kill' = kill \/ (kill = "dd" /\ kill' \in {"dd", "stale"})
  BY DEF Tick
<1>2. minute \in Nat /\ minute + 1 \in Nat /\ kill' \in KillKinds
  BY <1>1 DEF AlarmHeld, AlarmTyped, KillKinds
<1>3. AlarmTyped'
  <2>1. check.at # NoValue => check.at <= minute + 1
    BY <1>2 DEF AlarmHeld, AlarmTyped
  <2> QED
    BY <1>1, <1>2, <2>1 DEF AlarmHeld, AlarmTyped
<1>4. BeatsOnTime'
  <2> SUFFICES ASSUME proc.up
               PROVE  /\ proc.beat \in Nat /\ past.began \in Nat /\ past.began <= proc.beat
                      /\ proc.beat <= minute + 1 /\ minute + 1 <= proc.beat + Interval
    BY <1>1 DEF BeatsOnTime
  <2>1. /\ proc.beat \in Nat /\ past.began \in Nat /\ past.began <= proc.beat
        /\ proc.beat <= minute /\ minute < proc.beat + Interval
    BY <1>1 DEF AlarmHeld, BeatsOnTime
  <2> QED
    BY <1>2, <2>1, AlarmNumbers
<1>5. NoteNow' = NoteNow
  <2>1. "dd" # NoValue /\ "stale" # NoValue
    BY AlarmAssumption
  <2>2. CASE kill' = kill
    BY <1>1, <2>2 DEF NoteNow, Killed, HaltNote
  <2>3. CASE kill = "dd" /\ kill' \in {"dd", "stale"}
    <3>1. Killed /\ Killed' /\ HaltNote = "rearms" /\ HaltNote' = "rearms"
      BY <2>1, <2>3 DEF Killed, HaltNote
    <3> QED
      BY <3>1 DEF NoteNow
  <2> QED
    BY <1>1, <2>2, <2>3
<1>6. PingsShown' /\ EndShown'
  BY <1>1, <1>5 DEF AlarmHeld, PingsShown, EndShown
<1> QED
  BY <1>3, <1>4, <1>6 DEF AlarmHeld

LEMMA AlarmStaysHeld == AlarmSpec => []AlarmHeld
<1>1. AlarmHeld /\ [AlarmNext]_watchVars => AlarmHeld'
  <2> SUFFICES ASSUME AlarmHeld, [AlarmNext]_watchVars PROVE AlarmHeld'
    OBVIOUS
  <2>1. CASE NetChanges \/ UNCHANGED watchVars
    <3>1. UNCHANGED <<minute, looped, proc, kill, master, check, past>> /\ net' \in BOOLEAN
      BY <2>1 DEF AlarmHeld, AlarmTyped, NetChanges, watchVars
    <3>2. AlarmTyped'
      BY <3>1 DEF AlarmHeld, AlarmTyped
    <3>3. NoteNow' = NoteNow
      BY <3>1 DEF NoteNow, Killed, HaltNote
    <3> QED
      BY <3>1, <3>2, <3>3 DEF AlarmHeld, BeatsOnTime, PingsShown, EndShown
  <2> QED
    BY <2>1, LaunchKeeps, PassKeeps, MonitorKeeps, HaltChangeKeeps, StopsKeeps, TickKeeps
    DEF AlarmNext
<1> QED
  BY <1>1, AlarmInitHolds, PTL DEF AlarmSpec

(* What the external check shows is true, for any interval, period and     *)
(* number of retries.                                                      *)
THEOREM TheAlarmIsTrue == AlarmSpec => []AlarmTrue
<1>1. AlarmHeld => AlarmTrue
  <2> SUFFICES ASSUME AlarmHeld PROVE AlarmTrue
    OBVIOUS
  <2>1. minute \in Nat /\ past.halt \in Nat /\ past.died \in Nat
        /\ check.at \in Nat \cup {NoValue} /\ (check.at # NoValue => check.at <= minute)
    BY DEF AlarmHeld, AlarmTyped
  <2>2. ASSUME NEW since \in Nat, Settled(since)
        PROVE  /\ proc.up /\ ~past.lost /\ past.began \in Nat /\ proc.beat \in Nat
               /\ proc.beat > past.began /\ proc.beat > since /\ minute <= proc.beat + Interval
    <3>1. /\ proc.up /\ ~past.lost /\ minute > past.began + Interval /\ minute > since + Interval
      BY <2>2 DEF Settled
    <3>2. past.began \in Nat /\ proc.beat \in Nat /\ minute <= proc.beat + Interval
      BY <3>1 DEF AlarmHeld, BeatsOnTime
    <3> QED
      BY <2>1, <3>1, <3>2, AlarmNumbers
  <2>3. AliveIsUp
    <3> SUFFICES ASSUME Settled(0) PROVE ShownUp
      BY DEF AliveIsUp
    <3>1. /\ proc.up /\ ~past.lost /\ proc.beat \in Nat /\ proc.beat > past.began
          /\ minute <= proc.beat + Interval
      BY <2>2
    <3>2. check.at # NoValue /\ proc.beat <= check.at /\ check.up
      BY <3>1 DEF AlarmHeld, PingsShown
    <3> QED
      BY <2>1, <3>1, <3>2, AlarmNumbers DEF ShownUp
  <2>4. HaltIsShown
    <3> SUFFICES ASSUME Settled(past.halt) PROVE check.note \in NoteNow
      BY DEF HaltIsShown, NoteNow
    <3>1. /\ proc.up /\ ~past.lost /\ proc.beat > past.began /\ proc.beat > past.halt
      BY <2>1, <2>2
    <3> QED
      BY <3>1 DEF AlarmHeld, PingsShown
  <2>5. DeadIsDown
    <3>1. ASSUME ~proc.up, minute > past.died + Period PROVE ~ShownUp
      BY <2>1, <3>1, AlarmNumbers DEF AlarmHeld, EndShown, ShownUp
    <3>2. ASSUME ~proc.up, past.fatal, ~past.due, ~past.lost PROVE ~ShownUp
      BY <3>2 DEF AlarmHeld, EndShown, ShownUp
    <3> QED
      BY <3>1, <3>2 DEF DeadIsDown
  <2> QED
    BY <2>3, <2>4, <2>5 DEF AlarmTrue
<1> QED
  BY <1>1, AlarmStaysHeld, PTL

-----------------------------------------------------------------------------
(* The paper account.  A position of its books:                            *)
Positions ==
  [ticket: Nat, long: BOOLEAN, volume: Nat \ {0}, open: Int, stop: Int, target: Int, profit: Int]

PaperHeld ==
  /\ bid \in Int /\ balance \in Int /\ next \in Nat
  /\ positions \subseteq Positions /\ IsFiniteSet(positions)
  /\ \A pos \in positions : pos.ticket < next
  /\ \A pos, other \in positions : pos.ticket = other.ticket => pos = other

(* What each position is worth at a price, as a function.                  *)
Worths == [pos \in Positions |-> Profit(pos, pos.volume)]

LEMMA ProfitTyped ==
  ASSUME bid \in Int, NEW pos \in Positions
  PROVE  Pips(pos) \in Int /\ \A volume \in Nat : Profit(pos, volume) \in Int
<1>1. Pips(pos) \in Int
  BY PaperAssumption DEF Positions, Pips, ClosePrice, Ask
<1> QED
  BY <1>1 DEF Profit

LEMMA WorthsTyped ==
  ASSUME bid \in Int
  PROVE  \A pos \in Positions : Worths[pos] = Profit(pos, pos.volume) /\ Worths[pos] \in Int
<1>1. \A pos \in Positions : Profit(pos, pos.volume) \in Int
  BY ProfitTyped DEF Positions
<1> QED
  BY <1>1 DEF Worths

(* The sums of the model are totals of that function.                      *)
LEMMA SumIsTotal ==
  ASSUME NEW S \in SUBSET Positions
  PROVE  MapThenSumSet(LAMBDA pos : Profit(pos, pos.volume), S) = SetTotal(Worths, S)
<1> DEFINE Sums(g) ==
      g = [s \in SUBSET S |->
             IF s = {} THEN 0
             ELSE Profit(Chosen(s), Chosen(s).volume) + g[s \ {Chosen(s)}]]
<1>1. \A g : Sums(g) <=> Solves(g, Worths, S)
  <2> SUFFICES ASSUME NEW g PROVE Sums(g) <=> Solves(g, Worths, S)
    OBVIOUS
  <2>1. \A s \in SUBSET S :
          s # {} => Worths[Chosen(s)] = Profit(Chosen(s), Chosen(s).volume)
    BY ChosenIn DEF Worths
  <2> QED
    BY <2>1 DEF Solves
<1>2. MapThenSumSet(LAMBDA pos : Profit(pos, pos.volume), S) = (CHOOSE g : Sums(g))[S]
  BY DEF MapThenSumSet, MapThenFoldSet, Chosen
<1>3. (CHOOSE g : Sums(g)) = (CHOOSE g : Solves(g, Worths, S))
  <2> HIDE DEF Sums
  <2> QED
    BY <1>1, Zenon
<1> QED
  BY <1>2, <1>3, TotalUnfolds DEF Solution

LEMMA FloatIsTotal ==
  ASSUME PaperHeld, PaperHeld', bid' = bid
  PROVE  Float = SetTotal(Worths, positions) /\ Float' = SetTotal(Worths, positions')
<1>1. Float = SetTotal(Worths, positions)
  BY SumIsTotal DEF Float, PaperHeld
<1> DEFINE Sums(g) ==
      g = [s \in SUBSET positions' |->
             IF s = {} THEN 0
             ELSE Profit(Chosen(s), Chosen(s).volume)' + g[s \ {Chosen(s)}]]
<1>2. \A g : Sums(g) <=> Solves(g, Worths, positions')
  <2> SUFFICES ASSUME NEW g PROVE Sums(g) <=> Solves(g, Worths, positions')
    OBVIOUS
  <2>1. \A s \in SUBSET positions' :
          s # {} => Worths[Chosen(s)] = Profit(Chosen(s), Chosen(s).volume)
    BY ChosenIn DEF Worths, PaperHeld
  <2>2. \A s : Profit(Chosen(s), Chosen(s).volume)' = Profit(Chosen(s), Chosen(s).volume)
    BY DEF Profit, Pips, ClosePrice, Ask
  <2> QED
    BY <2>1, <2>2 DEF Solves
<1>3. Float' = (CHOOSE g : Sums(g))[positions']
  BY DEF Float, MapThenSumSet, MapThenFoldSet, Chosen
<1>4. (CHOOSE g : Sums(g)) = (CHOOSE g : Solves(g, Worths, positions'))
  <2> HIDE DEF Sums
  <2> QED
    BY <1>2, Zenon
<1> QED
  BY <1>1, <1>3, <1>4, TotalUnfolds DEF Solution


FilledNow == {pos \in positions' : pos.ticket = next /\ next' # next}

(* What a step does to the balance and to the total of the positions       *)
(* decides the books.                                                      *)
Booked ==
  balance' + SetTotal(Worths, positions') =
    balance + SetTotal(Worths, positions) + SetTotal(Worths, FilledNow)

LEMMA TotalsTyped ==
  ASSUME PaperHeld
  PROVE  \A S \in SUBSET positions :
           IsFiniteSet(S) /\ S \in SUBSET Positions /\ SetTotal(Worths, S) \in Int
<1> SUFFICES ASSUME NEW S \in SUBSET positions
             PROVE  IsFiniteSet(S) /\ S \in SUBSET Positions /\ SetTotal(Worths, S) \in Int
  OBVIOUS
<1>1. IsFiniteSet(S) /\ S \in SUBSET Positions
  BY FS_Subset DEF PaperHeld
<1>2. \A pos \in S : Worths[pos] \in Int
  BY <1>1, WorthsTyped DEF PaperHeld
<1> HIDE DEF Worths
<1> QED
  BY <1>1, <1>2, TotalRemoves

LEMMA BooksIfBooked ==
  ASSUME PaperHeld, PaperHeld', bid' = bid, Booked
  PROVE  Worth' = Worth + MapThenSumSet(LAMBDA pos : Profit(pos, pos.volume), FilledNow)
<1>1. FilledNow \in SUBSET Positions
  BY DEF FilledNow, PaperHeld
<1>2. MapThenSumSet(LAMBDA pos : Profit(pos, pos.volume), FilledNow) = SetTotal(Worths, FilledNow)
  BY <1>1, SumIsTotal
<1>3. Worth = balance + SetTotal(Worths, positions) /\ Worth' = balance' + SetTotal(Worths, positions')
  BY FloatIsTotal DEF Worth
<1> QED
  BY <1>2, <1>3 DEF Booked

LEMMA NothingFilled ==
  ASSUME PaperHeld, next' = next, NEW change \in Int,
         balance' = balance + change,
         SetTotal(Worths, positions') = SetTotal(Worths, positions) - change
  PROVE  Booked
<1>1. FilledNow = {}
  BY DEF FilledNow
<1>2. SetTotal(Worths, FilledNow) = 0
  BY <1>1, TotalOfNone
<1>3. balance \in Int /\ SetTotal(Worths, positions) \in Int
  BY TotalsTyped DEF PaperHeld
<1> QED
  BY <1>2, <1>3 DEF Booked

LEMMA PlaceOrderKeeps ==
  ASSUME PaperHeld, NEW long \in BOOLEAN, NEW volume \in Volumes, NEW stop \in Levels,
         NEW target \in Levels, NEW slip \in {-Slippage, 0, Slippage},
         PlaceOrder(long, volume, stop, target, slip)
  PROVE  PaperHeld' /\ Booked
<1> DEFINE new == [ticket |-> next, long |-> long, volume |-> volume,
                   open |-> (IF long THEN Ask ELSE bid) + slip,
                   stop |-> stop, target |-> target, profit |-> 0]
<1>1. positions' = positions \cup {new} /\ next' = next + 1 /\ UNCHANGED <<bid, balance>>
  BY DEF PlaceOrder
<1>2. new \in Positions /\ new.ticket = next
  <2>1. (IF long THEN Ask ELSE bid) + slip \in Int
    BY PaperAssumption DEF PaperHeld, Ask
  <2>2. volume \in Nat \ {0} /\ stop \in Int /\ target \in Int /\ next \in Nat
    BY PaperAssumption DEF PaperHeld
  <2> QED
    BY <2>1, <2>2 DEF Positions
<1> HIDE DEF new
<1>3. new \notin positions
  BY <1>2 DEF PaperHeld
<1>4. IsFiniteSet(positions')
  BY <1>1, FS_AddElement DEF PaperHeld
<1>5. PaperHeld'
  BY <1>1, <1>2, <1>4 DEF PaperHeld, Positions
<1>6. FilledNow = {} \cup {new}
  BY <1>1, <1>2 DEF FilledNow, PaperHeld
<1>7. Worths[new] \in Int /\ \A pos \in positions : Worths[pos] \in Int
  BY <1>2, WorthsTyped DEF PaperHeld
<1> HIDE DEF Worths
<1>8. SetTotal(Worths, positions') = Worths[new] + SetTotal(Worths, positions)
  BY <1>1, <1>3, <1>7, TotalAdds DEF PaperHeld
<1>9. SetTotal(Worths, FilledNow) = Worths[new] + 0
  BY <1>6, <1>7, FS_EmptySet, TotalAdds, TotalOfNone
<1>10. balance \in Int /\ SetTotal(Worths, positions) \in Int
  BY TotalsTyped DEF PaperHeld
<1> QED
  BY <1>1, <1>5, <1>7, <1>8, <1>9, <1>10 DEF Booked

(* One position replaced by another of the same ticket.                    *)
LEMMA ReplacedTotal ==
  ASSUME PaperHeld, NEW old \in positions, NEW new \in Positions, new.ticket = old.ticket,
         positions' = (positions \ {old}) \cup {new},
         UNCHANGED <<bid, next>>, balance' \in Int
  PROVE  /\ PaperHeld'
         /\ SetTotal(Worths, positions') = SetTotal(Worths, positions) - Worths[old] + Worths[new]
<1>1. new \notin positions \ {old}
  BY DEF PaperHeld
<1>2. IsFiniteSet(positions \ {old}) /\ IsFiniteSet(positions')
  BY FS_RemoveElement, FS_AddElement DEF PaperHeld
<1>3. PaperHeld'
  BY <1>2 DEF PaperHeld, Positions
<1>4. Worths[new] \in Int /\ \A pos \in positions : Worths[pos] \in Int
  BY WorthsTyped DEF PaperHeld
<1> HIDE DEF Worths
<1>5. SetTotal(Worths, positions') = Worths[new] + SetTotal(Worths, positions \ {old})
  BY <1>1, <1>2, <1>4, TotalAdds
<1>6. SetTotal(Worths, positions) = Worths[old] + SetTotal(Worths, positions \ {old})
  BY <1>4, TotalRemoves DEF PaperHeld
<1>7. SetTotal(Worths, positions \ {old}) \in Int
  BY TotalsTyped
<1> QED
  BY <1>3, <1>4, <1>5, <1>6, <1>7

LEMMA ClosePositionKeeps ==
  ASSUME PaperHeld, NEW pos \in positions, NEW volume \in Volumes, ClosePosition(pos, volume)
  PROVE  PaperHeld' /\ Booked
<1> DEFINE closing == Min({volume, pos.volume})
           left == [pos EXCEPT !.volume = @ - closing]
<1>1. /\ balance' = balance + Profit(pos, closing)
      /\ positions' = (positions \ {pos}) \cup (IF left.volume > 0 THEN {left} ELSE {})
      /\ UNCHANGED <<bid, next>>
  BY DEF ClosePosition, Realised
<1>2. pos \in Positions /\ pos.volume \in Nat \ {0} /\ volume \in Nat \ {0}
  BY PaperAssumption DEF PaperHeld, Positions
<1>3. closing \in Nat \ {0} /\ closing <= pos.volume
  BY <1>2 DEF Min
<1> HIDE DEF closing
<1>4. left.volume = pos.volume - closing /\ Pips(left) = Pips(pos) /\ left.ticket = pos.ticket
  BY <1>2 DEF Positions, Pips, ClosePrice
<1>5. bid \in Int /\ Pips(pos) \in Int /\ Profit(pos, closing) \in Int
  BY <1>2, <1>3, ProfitTyped DEF PaperHeld
<1>6. Worths[pos] = Pips(pos) * pos.volume /\ Profit(pos, closing) = Pips(pos) * closing
  BY <1>2, <1>5, WorthsTyped DEF Profit
<1>7. balance' \in Int
  BY <1>1, <1>5 DEF PaperHeld
<1>8. CASE left.volume > 0
  <2>1. left \in Positions
    BY <1>2, <1>3, <1>4, <1>8 DEF Positions
  <2>2. Worths[left] = Pips(pos) * (pos.volume - closing)
    BY <1>4, <1>5, <2>1, WorthsTyped DEF Profit
  <2>3. Worths[left] = Worths[pos] - Profit(pos, closing)
    <3> DEFINE p == Pips(pos)
               v == pos.volume
    <3>1. p \in Int /\ v \in Int /\ closing \in Int
      BY <1>2, <1>3, <1>5
    <3> HIDE DEF p, v
    <3>2. p * (v - closing) = p * v - p * closing
      BY <3>1
    <3> QED
      BY <1>6, <2>2, <3>2 DEF p, v
  <2>4. positions' = (positions \ {pos}) \cup {left}
    BY <1>1, <1>8
  <2>5. Worths[pos] \in Int /\ SetTotal(Worths, positions) \in Int
    BY <1>2, <1>5, WorthsTyped, TotalsTyped
  <2> HIDE DEF left, Worths
  <2>6. /\ PaperHeld'
        /\ SetTotal(Worths, positions') = SetTotal(Worths, positions) - Worths[pos] + Worths[left]
    BY <1>1, <1>4, <1>7, <2>1, <2>4, ReplacedTotal
  <2>7. SetTotal(Worths, positions') = SetTotal(Worths, positions) - Profit(pos, closing)
    BY <1>5, <2>3, <2>5, <2>6
  <2> QED
    BY <1>1, <1>5, <2>6, <2>7, NothingFilled
<1>9. CASE ~(left.volume > 0)
  <2>1. closing = pos.volume
    BY <1>2, <1>3, <1>4, <1>9
  <2>2. Worths[pos] = Profit(pos, closing)
    BY <1>6, <2>1
  <2>3. positions' = positions \ {pos}
    BY <1>1, <1>9
  <2>4. IsFiniteSet(positions')
    BY <2>3, FS_RemoveElement DEF PaperHeld
  <2>5. PaperHeld'
    BY <1>1, <1>7, <2>3, <2>4 DEF PaperHeld
  <2>6. \A p \in positions : Worths[p] \in Int
    BY WorthsTyped DEF PaperHeld
  <2> HIDE DEF Worths
  <2>7. SetTotal(Worths, positions) = Worths[pos] + SetTotal(Worths, positions \ {pos})
    BY <2>6, TotalRemoves DEF PaperHeld
  <2>8. SetTotal(Worths, positions \ {pos}) \in Int
    BY TotalsTyped
  <2>9. SetTotal(Worths, positions') = SetTotal(Worths, positions) - Profit(pos, closing)
    BY <1>5, <2>2, <2>3, <2>7, <2>8
  <2> QED
    BY <1>1, <1>5, <2>5, <2>9, NothingFilled
<1> QED
  BY <1>8, <1>9

LEMMA ModifyPositionKeeps ==
  ASSUME PaperHeld, NEW pos \in positions, NEW stop \in Levels, ModifyPosition(pos, stop)
  PROVE  PaperHeld' /\ Booked
<1> DEFINE new == [pos EXCEPT !.stop = stop]
<1>1. positions' = (positions \ {pos}) \cup {new} /\ UNCHANGED <<bid, balance, next>>
  BY DEF ModifyPosition
<1>2. pos \in Positions /\ stop \in Int
  BY PaperAssumption DEF PaperHeld
<1>3. /\ new \in Positions /\ new.ticket = pos.ticket
      /\ Pips(new) = Pips(pos) /\ new.volume = pos.volume
  BY <1>2 DEF Positions, Pips, ClosePrice
<1> HIDE DEF new
<1>4. Worths[new] = Worths[pos] /\ Worths[pos] \in Int
  BY <1>2, <1>3, WorthsTyped DEF Profit, PaperHeld
<1> HIDE DEF Worths
<1>5. balance' \in Int /\ SetTotal(Worths, positions) \in Int
  BY <1>1, TotalsTyped DEF PaperHeld
<1>6. /\ PaperHeld'
      /\ SetTotal(Worths, positions') = SetTotal(Worths, positions) - Worths[pos] + Worths[new]
  BY <1>1, <1>3, <1>5, ReplacedTotal
<1>7. SetTotal(Worths, positions') = SetTotal(Worths, positions) - 0 /\ balance' = balance + 0
  BY <1>1, <1>4, <1>5, <1>6 DEF PaperHeld
<1> QED
  BY <1>1, <1>6, <1>7, NothingFilled

(* A read stamps every position with its profit and is worth nothing.      *)
LEMMA ReadPositionsKeeps ==
  ASSUME PaperHeld, ReadPositions
  PROVE  PaperHeld' /\ Booked
<1> DEFINE stamped == [pos \in Positions |-> [pos EXCEPT !.profit = Shown(pos)]]
<1>1. positions' = {stamped[pos] : pos \in positions} /\ UNCHANGED <<bid, balance, next>>
  BY DEF ReadPositions, PaperHeld
<1>2. \A pos \in Positions : Shown(pos) \in Int
  BY ProfitTyped DEF Shown, PaperHeld, Positions
<1>3. \A pos \in Positions : /\ stamped[pos] \in Positions
                             /\ stamped[pos].ticket = pos.ticket
                             /\ stamped[pos].volume = pos.volume
                             /\ Pips(stamped[pos]) = Pips(pos)
  BY <1>2 DEF Positions, Pips, ClosePrice
<1> HIDE DEF stamped
<1>4. /\ positions \subseteq Positions
      /\ \A pos, other \in positions : stamped[pos] = stamped[other] => pos = other
  BY <1>3 DEF PaperHeld
<1>5. \A pos \in positions : Worths[pos] \in Int /\ Worths[stamped[pos]] = Worths[pos]
  BY <1>3, <1>4, WorthsTyped DEF PaperHeld, Profit
<1>6. IsFiniteSet(positions') /\ SetTotal(Worths, positions') = SetTotal(Worths, positions)
  <2> HIDE DEF Worths
  <2> QED
    BY <1>1, <1>4, <1>5, TotalRenamed DEF PaperHeld
<1>7. PaperHeld'
  BY <1>1, <1>3, <1>4, <1>6 DEF PaperHeld
<1>8. balance \in Int /\ SetTotal(Worths, positions) \in Int
  BY TotalsTyped DEF PaperHeld
<1>9. SetTotal(Worths, positions') = SetTotal(Worths, positions) - 0 /\ balance' = balance + 0
  BY <1>1, <1>6, <1>8
<1> QED
  BY <1>1, <1>7, <1>9, NothingFilled

LEMMA StepKeepsBooks ==
  ASSUME PaperHeld, [PaperNext]_paperVars
  PROVE  PaperHeld' /\ (bid' = bid => Booked)
<1>1. ASSUME UNCHANGED <<balance, positions, next>>, bid' \in Int
      PROVE  PaperHeld' /\ (bid' = bid => Booked)
  <2>1. PaperHeld'
    BY <1>1 DEF PaperHeld
  <2>2. balance \in Int /\ SetTotal(Worths, positions) \in Int
    BY TotalsTyped DEF PaperHeld
  <2>3. SetTotal(Worths, positions') = SetTotal(Worths, positions) - 0 /\ balance' = balance + 0
    BY <1>1, <2>2
  <2> QED
    BY <1>1, <2>1, <2>3, NothingFilled
<1>2. ASSUME NEW close \in Closes, FetchBars(close)
      PROVE  UNCHANGED <<balance, positions, next>> /\ bid' \in Int
  BY <1>2, PaperAssumption DEF FetchBars
<1>3. CASE UNCHANGED paperVars
  BY <1>1, <1>3 DEF paperVars, PaperHeld
<1> QED
  BY <1>1, <1>2, <1>3, PlaceOrderKeeps, ClosePositionKeeps, ModifyPositionKeeps,
     ReadPositionsKeeps DEF PaperNext

(* The paper account neither makes nor loses money: at one price its worth *)
(* moves by the cost of a fill only, for all prices, spreads, volumes and  *)
(* partial closes (PaperBroker.close_position, place_order).               *)
THEOREM TheBooksBalance == PaperSpec => BooksBalance
<1>1. PaperInit => PaperHeld
  BY PaperAssumption, FS_EmptySet DEF PaperInit, PaperHeld, NoPrice
<1>2. PaperHeld /\ [PaperNext]_paperVars => PaperHeld'
  BY StepKeepsBooks
<1>3. PaperHeld /\ [PaperNext]_paperVars =>
        [bid' = bid =>
           Worth' = Worth + MapThenSumSet(LAMBDA pos : Profit(pos, pos.volume),
                              {pos \in positions' : pos.ticket = next /\ next' # next})]_paperVars
  BY StepKeepsBooks, BooksIfBooked DEF FilledNow
<1> QED
  BY <1>1, <1>2, <1>3, PTL DEF PaperSpec, BooksBalance
=============================================================================
