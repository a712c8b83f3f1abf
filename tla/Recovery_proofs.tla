--------------------------- MODULE Recovery_proofs ---------------------------
(***************************************************************************)
(* How the process recovers by itself: what the kill file's life           *)
(* guarantees for every number of days, crashes and failing file           *)
(* operations, and what the link to the terminal guarantees however often  *)
(* the terminal dies and whenever the monitor reconnects.                  *)
(***************************************************************************)
EXTENDS DDHalt, BrokerLink, TLAPS

(* A decision to remove or rewrite is about a halt that is still overdue.  *)
(* Needs the operator to keep out between the read and the removal.        *)
DecidedOnStale == proc \in {"clearing", "escalating"} => Overdue

(* The latch on disk is in the live memory too; memory is empty while the  *)
(* process is down, and a removal is decided only when it is not set.      *)
LatchKnown ==
  /\ proc = "down" => memory = Fresh
  /\ proc # "down" /\ saved.escalated => memory.escalated
  /\ proc = "clearing" => ~memory.escalated

LEMMA FreshType == Fresh \in Recoveries /\ NoFile \in Files
BY DEF Fresh, Recoveries, NoFile, Files

LEMMA InitType == Init => TypeOK
<1> SUFFICES ASSUME Init PROVE TypeOK
  OBVIOUS
<1>1. proc \in Places
  BY DEF Init, Places
<1>2. cleared \in SUBSET Nat
  BY Zenon DEF Init
<1> QED
  BY <1>1, <1>2, FreshType DEF Init, TypeOK

LEMMA NextType == TypeOK /\ [Next]_vars => TypeOK'
<1> SUFFICES ASSUME TypeOK, [Next]_vars PROVE TypeOK'
  OBVIOUS
<1> USE DEF TypeOK, world, budget
<1>1. ASSUME NEW k \in {"dd", "sticky", "manual"}
      PROVE  [kind |-> k, day |-> day] \in Files
  BY DEF Files
<1>2. file.day \in Nat
  BY DEF Files
<1>3. CASE Breach
  BY <1>3 DEF Breach, Places
<1>4. CASE WriteKill
  BY <1>1, <1>4 DEF WriteKill, Places
<1>5. CASE Inspect
  <2>1. memory' \in Recoveries
    <3>1. \A D \in SUBSET Nat : Thrashing(D) \in BOOLEAN
      BY DEF Thrashing
    <3>2. memory.halt_dates \cup {file.day} \in SUBSET Nat
      BY <1>2 DEF Recoveries
    <3>3. memory.escalated \in BOOLEAN
      BY DEF Recoveries
    <3>4. (memory.escalated \/ Thrashing(memory.halt_dates \cup {file.day})) \in BOOLEAN
      OBVIOUS
    <3> QED
      BY <1>5, <3>2, <3>4, Zenon DEF Inspect, Recoveries
  <2> QED
    BY <1>2, <1>5, <2>1 DEF Inspect, Places
<1>6. CASE Clear
  BY <1>6, FreshType DEF Clear, Places
<1>7. CASE ClearFails
  BY <1>7 DEF ClearFails, Fault, Places
<1>8. CASE Escalate
  BY <1>1, <1>8 DEF Escalate, Places
<1>9. CASE EscalateFails
  BY <1>9 DEF EscalateFails, Fault, Places
<1>10. CASE Persist
  BY <1>10 DEF Persist, Places
<1>11. CASE PersistFails
  BY <1>11 DEF PersistFails, Fault, Places
<1>12. CASE Crash
  BY <1>12, FreshType DEF Crash, Places
<1>13. CASE Start
  BY <1>2, <1>13, FreshType DEF Start, Places
<1>14. CASE OperatorStops
  BY <1>1, <1>14 DEF OperatorStops
<1>15. CASE OperatorResumes
  BY <1>15, FreshType DEF OperatorResumes
<1>16. CASE OperatorMaster
  BY <1>16 DEF OperatorMaster
<1>17. CASE NextDay
  BY <1>17, HaltAssumption DEF NextDay
<1>18. CASE UNCHANGED vars
  BY <1>18 DEF vars
<1> QED
  BY <1>3, <1>4, <1>5, <1>6, <1>7, <1>8, <1>9, <1>10, <1>11, <1>12, <1>13,
     <1>14, <1>15, <1>16, <1>17, <1>18 DEF Next, Monitor

(* Every reachable state is well typed.                                    *)
THEOREM TypeCorrect == Spec => []TypeOK
BY InitType, NextType, PTL DEF Spec

-----------------------------------------------------------------------------
LEMMA NextDecided ==
  ASSUME ~OperatorRaces, TypeOK, DecidedOnStale, [Next]_vars
  PROVE  DecidedOnStale'
<1> USE DEF DecidedOnStale, Overdue
<1>1. CASE Inspect
  BY <1>1 DEF Inspect, Stale, world
<1>2. CASE Breach \/ WriteKill \/ Clear \/ ClearFails \/ Escalate \/ EscalateFails
  BY <1>2 DEF Breach, WriteKill, Clear, ClearFails, Escalate, EscalateFails
<1>3. CASE Persist \/ PersistFails \/ Crash \/ Start
  BY <1>3 DEF Persist, PersistFails, Crash, Start, world
<1>4. CASE OperatorStops \/ OperatorResumes
  BY <1>4 DEF OperatorStops, OperatorResumes, OperatorFree
<1>5. CASE OperatorMaster \/ UNCHANGED vars
  BY <1>5 DEF OperatorMaster, vars
<1>6. CASE NextDay
  BY <1>6 DEF NextDay, TypeOK, Files
<1> QED
  BY <1>1, <1>2, <1>3, <1>4, <1>5, <1>6 DEF Next, Monitor

LEMMA StepTouchesStale ==
  ASSUME ~OperatorRaces, TypeOK, DecidedOnStale, [Next]_vars
  PROVE  ByProgram /\ file.kind # "none" /\ file' # file => Overdue
<1> SUFFICES ASSUME ByProgram, file.kind # "none", file' # file PROVE Overdue
  OBVIOUS
<1>1. CASE Clear \/ Escalate
  BY <1>1 DEF Clear, Escalate, DecidedOnStale
<1>2. CASE Start
  BY <1>2 DEF Start, Stale, Overdue
<1>3. CASE Monitor \/ Breach \/ Crash
  BY <1>1, <1>3 DEF Monitor, Breach, WriteKill, Inspect, ClearFails, EscalateFails,
     Persist, PersistFails, Crash, world
<1>4. CASE OperatorStops \/ OperatorResumes \/ OperatorMaster \/ NextDay
           \/ UNCHANGED vars
  BY <1>4 DEF OperatorStops, OperatorResumes, OperatorMaster, NextDay, vars, ByProgram
<1> QED
  BY <1>1, <1>2, <1>3, <1>4 DEF Next

(* As long as no operator acts in the instant between the read of a kill   *)
(* file and its removal, the program touches only stale daily halts.       *)
THEOREM OnlyStaleHaltEverTouched ==
  ASSUME ~OperatorRaces PROVE Spec => OnlyStaleHaltTouched
<1>1. Init => DecidedOnStale
  BY DEF Init, DecidedOnStale
<1>2. TypeOK /\ DecidedOnStale /\ [Next]_vars => DecidedOnStale'
  BY NextDecided
<1>3. TypeOK /\ DecidedOnStale /\ [Next]_vars =>
        [ByProgram /\ file.kind # "none" /\ file' # file => Overdue]_vars
  BY StepTouchesStale
<1> QED
  BY <1>1, <1>2, <1>3, TypeCorrect, PTL DEF Spec, OnlyStaleHaltTouched

-----------------------------------------------------------------------------
LEMMA NextLatch == TypeOK /\ LatchKnown /\ [Next]_vars => LatchKnown'
<1> SUFFICES ASSUME TypeOK, LatchKnown, [Next]_vars PROVE LatchKnown'
  OBVIOUS
<1> USE DEF LatchKnown
<1>1. CASE Inspect
  <2>1. saved' = saved /\ proc # "down"
    BY <1>1 DEF Inspect
  <2>2. /\ memory.escalated => memory'.escalated
        /\ proc' = "clearing" => ~memory'.escalated
        /\ proc' # "down"
    BY <1>1, Zenon DEF Inspect
  <2> QED
    BY <2>1, <2>2
<1>2. CASE Breach \/ WriteKill \/ Clear \/ ClearFails \/ Escalate \/ EscalateFails
  BY <1>2 DEF Breach, WriteKill, Clear, ClearFails, Escalate, EscalateFails
<1>3. CASE Persist \/ PersistFails
  BY <1>3 DEF Persist, PersistFails
<1>4. CASE Crash \/ Start
  BY <1>4 DEF Crash, Start
<1>5. CASE OperatorStops \/ OperatorResumes \/ OperatorMaster \/ NextDay
           \/ UNCHANGED vars
  BY <1>5 DEF OperatorStops, OperatorResumes, OperatorMaster, NextDay, vars
<1> QED
  BY <1>1, <1>2, <1>3, <1>4, <1>5 DEF Next, Monitor

LEMMA StepKeepsLatch ==
  ASSUME TypeOK, LatchKnown, [Next]_vars
  PROVE  Latched /\ ByProgram /\ file'.kind = "none" => file.kind = "none"
<1> SUFFICES ASSUME Latched, ByProgram, file'.kind = "none", file.kind # "none"
             PROVE  FALSE
  OBVIOUS
<1>1. CASE Clear
  BY <1>1 DEF Clear, LatchKnown, Latched
<1>2. CASE Start
  BY <1>2 DEF Start, LatchKnown, Latched, Fresh
<1>3. CASE Escalate
  BY <1>3 DEF Escalate
<1>4. CASE Monitor \/ Breach \/ Crash
  BY <1>1, <1>3, <1>4 DEF Monitor, Breach, WriteKill, Inspect, ClearFails,
     EscalateFails, Persist, PersistFails, Crash, world
<1>5. CASE OperatorStops \/ OperatorResumes \/ OperatorMaster \/ NextDay
           \/ UNCHANGED vars
  BY <1>5 DEF OperatorStops, OperatorResumes, OperatorMaster, NextDay, vars, ByProgram
<1> QED
  BY <1>1, <1>2, <1>3, <1>4, <1>5 DEF Next

(* Whatever crashes, file errors and operators do, a latched escalation is *)
(* never undone by a step of the program.                                  *)
THEOREM EscalationAlwaysStands == Spec => EscalationStands
<1>1. Init => LatchKnown
  BY DEF Init, LatchKnown, Fresh
<1>2. TypeOK /\ LatchKnown /\ [Next]_vars =>
        [Latched /\ ByProgram /\ file'.kind = "none" => file.kind = "none"]_vars
  BY StepKeepsLatch
<1> QED
  BY <1>1, <1>2, NextLatch, TypeCorrect, PTL DEF Spec, EscalationStands
-----------------------------------------------------------------------------
(* A process that has never died has every halt it lifted on record; a     *)
(* halt in force is at least as recent as any on record, and a removal is  *)
(* decided only for the last of them and only if they form no run.         *)
OnRecord ==
  /\ proc = "down" => /\ cleared = {} /\ file.kind # "dd"
                      /\ memory = Fresh /\ saved = Fresh
  /\ cleared \subseteq memory.halt_dates
  /\ \A d \in memory.halt_dates : d < day
  /\ file.kind = "dd" => \A d \in memory.halt_dates : d <= file.day
  /\ proc = "clearing" => /\ halt_date \in memory.halt_dates
                          /\ \A d \in memory.halt_dates : d <= halt_date
                          /\ ~Thrashing(memory.halt_dates)

LEMMA InitRecord == Init => OnRecord
<1> SUFFICES ASSUME Init PROVE OnRecord
  OBVIOUS
<1>1. cleared \subseteq memory.halt_dates
  BY Zenon DEF Init
<1> QED
  BY <1>1 DEF Init, OnRecord, NoFile, Fresh

LEMMA NextRecord ==
  ASSUME MaxCrashes = 0, TypeOK, OnRecord, [Next]_vars
  PROVE  OnRecord'
<1> USE DEF OnRecord
<1>1. crashes \in Nat /\ day \in Nat /\ memory.halt_dates \in SUBSET Nat
      /\ file.day \in Nat
  BY DEF TypeOK, Recoveries, Files
<1>2. CASE Inspect
  <2> DEFINE dates == memory.halt_dates \cup {file.day}
  <2>1. /\ file.kind = "dd" /\ file.day < day
        /\ halt_date' = file.day
        /\ memory'.halt_dates = dates
        /\ proc' \in {"clearing", "escalating"}
        /\ proc' = "clearing" => ~Thrashing(dates)
        /\ UNCHANGED <<day, file, saved, cleared>>
    BY <1>2 DEF Inspect, Stale, world
  <2>2. \A d \in dates : d < day /\ d <= file.day
    BY <1>1, <2>1
  <2>3. proc' = "clearing" => ~Thrashing(memory'.halt_dates)
    BY <2>1
  <2>4. cleared' \subseteq memory'.halt_dates
    BY <2>1
  <2> QED
    BY <2>1, <2>2, <2>3, <2>4 DEF Thrashing
<1>3. CASE Clear
  BY <1>3 DEF Clear, NoFile
<1>4. CASE WriteKill
  BY <1>1, <1>4 DEF WriteKill
<1>5. CASE Breach \/ ClearFails \/ Escalate \/ EscalateFails
  BY <1>5 DEF Breach, ClearFails, Escalate, EscalateFails, world
<1>6. CASE Persist \/ PersistFails
  BY <1>6 DEF Persist, PersistFails, world
<1>7. CASE Crash
  BY <1>1, <1>7 DEF Crash
<1>8. CASE Start
  <2>1. /\ file' = NoFile /\ proc' = "idle" /\ memory' = memory
        /\ UNCHANGED <<day, cleared>>
    BY <1>8 DEF Start, Stale
  <2> QED
    BY <2>1 DEF NoFile
<1>9. CASE OperatorStops \/ OperatorResumes \/ OperatorMaster \/ UNCHANGED vars
  BY <1>9 DEF OperatorStops, OperatorResumes, OperatorMaster, NoFile, vars, Thrashing
<1>10. CASE NextDay
  BY <1>1, <1>10 DEF NextDay, Thrashing
<1> QED
  BY <1>2, <1>3, <1>4, <1>5, <1>6, <1>7, <1>8, <1>9, <1>10 DEF Next, Monitor

LEMMA NextThrash ==
  ASSUME MaxCrashes = 0, TypeOK, OnRecord, NoSilentThrash, [Next]_vars
  PROVE  NoSilentThrash'
<1>1. CASE Clear
  <2> SUFFICES ASSUME NEW last \in cleared',
                      \A i \in 0 .. StickyAfter - 1 : last - i \in cleared'
               PROVE  FALSE
    BY DEF NoSilentThrash
  <2>1. /\ cleared' = cleared \cup {halt_date}
        /\ cleared' \subseteq memory.halt_dates
        /\ \A d \in memory.halt_dates : d <= halt_date
        /\ ~Thrashing(memory.halt_dates)
    BY <1>1 DEF Clear, OnRecord
  <2>2. memory.halt_dates \in SUBSET Nat
    BY DEF TypeOK, Recoveries
  <2>3. last # halt_date
    BY <2>1 DEF Thrashing
  <2>4. last \in Nat /\ last < halt_date /\ halt_date \in Nat
    BY <2>1, <2>2, <2>3
  <2>5. \A i \in 0 .. StickyAfter - 1 : last - i # halt_date
    BY <2>4
  <2>6. last \in cleared /\ \A i \in 0 .. StickyAfter - 1 : last - i \in cleared
    BY <2>1, <2>3, <2>5
  <2> QED
    BY <2>6 DEF NoSilentThrash
<1>2. CASE Start
  <2>1. cleared' = cleared
    BY <1>2 DEF Start, Stale, OnRecord
  <2> QED
    BY <2>1 DEF NoSilentThrash
<1>3. CASE Monitor \/ Breach \/ Crash \/ OperatorStops \/ OperatorResumes
           \/ OperatorMaster \/ NextDay \/ UNCHANGED vars
  <2>1. Clear \/ cleared' = cleared
    BY <1>3 DEF Monitor, Breach, WriteKill, Inspect, ClearFails, Escalate,
       EscalateFails, Persist, PersistFails, Crash, OperatorStops,
       OperatorResumes, OperatorMaster, NextDay, vars
  <2> QED
    BY <1>1, <2>1 DEF NoSilentThrash
<1> QED
  BY <1>1, <1>2, <1>3 DEF Next

(* A process that never dies never re-arms itself after each day of a run  *)
(* of StickyAfter halts, even if removals, rewrites and saves fail and an  *)
(* operator interferes at any point.                                       *)
THEOREM NeverSilentThrash ==
  ASSUME MaxCrashes = 0 PROVE Spec => []NoSilentThrash
<1>1. Init => NoSilentThrash
  BY DEF Init, NoSilentThrash
<1>2. TypeOK /\ OnRecord /\ [Next]_vars => OnRecord'
  BY NextRecord
<1>3. TypeOK /\ OnRecord /\ NoSilentThrash /\ [Next]_vars => NoSilentThrash'
  BY NextThrash
<1> QED
  BY <1>1, <1>2, <1>3, InitRecord, TypeCorrect, PTL DEF Spec

-----------------------------------------------------------------------------
(* The link: a dead one does not let a second order out.                   *)
NameOrNone == Names \cup {None}

LinkTyped ==
  /\ name \in Names
  /\ cache \in [Names -> NameOrNone]
  /\ looking \in [Coroutines -> NameOrNone]
  /\ torn \in BOOLEAN

(* Before the coroutines run, neither has begun anything.                  *)
NotBegun ==
  ~Running => sig = "idle" /\ looking = [c \in Coroutines |-> None] /\ cache = NoNames

(* A start that found the name goes on with it, and what is looked up      *)
(* under it is the name itself.                                            *)
NameFound ==
  /\ boot = "verified" => name = "full"
  /\ name = "full" =>
       /\ cache["full"] # "base"
       /\ \A c \in Coroutines : looking[c] # "base"

(* Between its two reads the loop has a readable link or a torn one.       *)
ReadableOrTorn == sig = "positions" => Readable \/ torn

OrderExcused == sig = "order" => torn \/ boot = "unverified"

LinkHeld == LinkTyped /\ NotBegun /\ NameFound /\ ReadableOrTorn /\ OrderExcused

-----------------------------------------------------------------------------
LEMMA LinkInitHolds == LinkInit => LinkHeld
BY DEF LinkInit, LinkHeld, LinkTyped, NotBegun, NameFound, ReadableOrTorn, OrderExcused,
       Names, NameOrNone, NoNames, None, Running

LEMMA EnvironmentKeeps ==
  ASSUME LinkHeld, Environment
  PROVE  LinkHeld'
<1>1. /\ UNCHANGED <<bound, name, cache, looking, boot, sig>>
      /\ torn' \in BOOLEAN
      /\ torn => torn'
      /\ sig = "positions" => torn' \/ Readable' = Readable
  BY DEF Environment, TerminalDies, TerminalStarts, GoesOffline, ComesBack, Tears,
         LinkHeld, LinkTyped, ReadableOrTorn, Readable, Answers
<1> QED
  BY <1>1 DEF LinkHeld, LinkTyped, NotBegun, NameFound, ReadableOrTorn, OrderExcused, Running

LEMMA BootKeeps ==
  ASSUME LinkHeld, Boot \/ BootGivesUp
  PROVE  LinkHeld'
<1> USE DEF LinkHeld, LinkTyped, NotBegun, NameFound, ReadableOrTorn, OrderExcused, Running
<1>1. CASE BootConnect
  BY <1>1 DEF BootConnect
<1>2. CASE BootGivesUp
  BY <1>2 DEF BootGivesUp
<1>3. CASE BootResolve
  <2>1. sig = "idle" /\ UNCHANGED <<sig, looking, torn>>
    BY <1>3 DEF BootResolve
  <2>2. Lookup(name) \in Names /\ name' = Lookup(name)
    BY <1>3 DEF BootResolve, Lookup, Names
  <2>3. cache' \in [Names -> NameOrNone] /\ (name' = "full" => cache'["full"] # "base")
    <3>1. cache' = [cache EXCEPT ![name] = Lookup(name)]
      BY <1>3 DEF BootResolve
    <3>2. Lookup(name) \in NameOrNone
      BY <2>2 DEF NameOrNone
    <3>3. cache' \in [Names -> NameOrNone]
      BY <3>1, <3>2
    <3>4. cache = NoNames
      BY <1>3 DEF BootResolve
    <3>5. name' = "full" => cache'["full"] # "base"
      BY <2>2, <3>1, <3>4 DEF NoNames, Names, None
    <3> QED
      BY <3>3, <3>5
  <2>4. boot' \in {"verified", "unverified"} /\ (boot' = "verified" => name' = "full")
    BY <1>3 DEF BootResolve
  <2>5. \A c \in Coroutines : looking[c] # "base"
    BY <1>3 DEF BootResolve, None
  <2> QED
    BY <2>1, <2>2, <2>3, <2>4, <2>5
<1> QED
  BY <1>1, <1>2, <1>3 DEF Boot

LEMMA LookupKeeps ==
  ASSUME LinkHeld, NEW c \in Coroutines, Finds(c) \/ Caches(c)
  PROVE  LinkHeld'
<1> USE DEF LinkHeld, LinkTyped, NotBegun, NameFound, ReadableOrTorn, OrderExcused
<1>1. UNCHANGED <<term, bound, name, boot, sig, torn>>
  BY DEF Finds, Caches
<1>2. Running /\ Running'
  <2>1. Running
    BY DEF Finds, Caches, None
  <2> QED
    BY <1>1, <2>1 DEF Running
<1>3. Lookup(name) \in Names /\ (name = "full" => Lookup(name) = "full")
  BY DEF Lookup, Names
<1>4. looking' \in [Coroutines -> NameOrNone] /\ cache' \in [Names -> NameOrNone]
  BY <1>3 DEF Finds, Caches, NameOrNone
<1>5. name = "full" => /\ cache'["full"] # "base"
                       /\ \A d \in Coroutines : looking'[d] # "base"
  BY <1>3 DEF Finds, Caches, NameOrNone, Names, None
<1>6. Readable' = Readable
  BY <1>1 DEF Readable, Answers
<1> QED
  BY <1>1, <1>2, <1>4, <1>5, <1>6

LEMMA MonitorKeeps ==
  ASSUME LinkHeld, MonitorPositions \/ MonitorAccount \/ Shutdown \/ ClearNames \/ Reinitialise
  PROVE  LinkHeld'
<1>1. /\ UNCHANGED <<term, name, looking, boot, sig>>
      /\ cache' = cache \/ cache' = NoNames
      /\ torn' \in BOOLEAN
      /\ torn => torn'
      /\ sig = "positions" => torn' \/ bound' = bound
  BY DEF MonitorPositions, MonitorAccount, Shutdown, ClearNames, Reinitialise, Tears,
         LinkHeld, LinkTyped
<1>2. /\ cache' \in [Names -> NameOrNone]
      /\ name = "full" => cache'["full"] # "base"
  BY <1>1 DEF LinkHeld, LinkTyped, NameFound, NoNames, NameOrNone, Names, None
<1> QED
  BY <1>1, <1>2 DEF LinkHeld, LinkTyped, NotBegun, NameFound, ReadableOrTorn, OrderExcused,
                    Running, Readable, Answers

LEMMA LoopKeeps ==
  ASSUME LinkHeld, LoopBars \/ LoopAccount \/ LoopPositions \/ LoopOrder \/ LoopRests
  PROVE  LinkHeld'
<1> USE DEF LinkHeld, LinkTyped, NotBegun, NameFound, ReadableOrTorn, OrderExcused
<1>1. /\ UNCHANGED <<term, bound, name, cache, looking, boot>>
      /\ Running
      /\ torn' \in BOOLEAN
  BY DEF LoopBars, LoopAccount, LoopPositions, LoopOrder, LoopRests, At
<1>2. sig' = "positions" => Readable'
  BY DEF LoopBars, LoopAccount, LoopPositions, LoopOrder, LoopRests, Goto,
         AccountAnswered, Readable, Answers
<1>3. sig' = "order" => torn' \/ boot = "unverified"
  <2> SUFFICES ASSUME sig' = "order", ~torn', boot # "unverified"
               PROVE  FALSE
    OBVIOUS
  <2>1. LoopPositions
    BY DEF LoopBars, LoopAccount, LoopOrder, LoopRests, Goto, AccountAnswered
  <2>2. ~torn /\ sig = "positions" /\ cache[name] # None /\ ~Seen
    BY <2>1 DEF LoopPositions, At, Goto, Resolved
  <2>3. Readable /\ name = "full"
    BY <1>1, <2>2 DEF Running
  <2>4. cache["full"] = "full"
    BY <2>2, <2>3 DEF Names, NameOrNone
  <2> QED
    BY <2>2, <2>3, <2>4 DEF Seen
<1> QED
  BY <1>1, <1>2, <1>3 DEF Running

LEMMA LinkNextKeeps == LinkHeld /\ [LinkNext]_linkVars => LinkHeld'
<1> SUFFICES ASSUME LinkHeld, [LinkNext]_linkVars PROVE LinkHeld'
  OBVIOUS
<1>1. CASE UNCHANGED linkVars
  BY <1>1 DEF linkVars, LinkHeld, LinkTyped, NotBegun, NameFound, ReadableOrTorn, OrderExcused,
              Running, Readable, Answers
<1>2. "monitor" \in Coroutines /\ "loop" \in Coroutines
  BY DEF Coroutines
<1> QED
  BY <1>1, <1>2, EnvironmentKeeps, BootKeeps, LookupKeeps, MonitorKeeps, LoopKeeps
  DEF LinkNext, MonitorStep, LoopStep

(* After a start that found the symbol's name, a second order goes out     *)
(* only over a link that changed between the loop's two reads: the account *)
(* read of an iteration stands guard over its position read, for every     *)
(* number of terminals, outages and failures before a reconnect.           *)
THEOREM NeverBlind == LinkSpec => NoBlindOrder
<1>1. LinkHeld /\ [LinkNext]_linkVars => [sig' = "filled" /\ sig = "order" => torn \/ boot = "unverified"]_linkVars
  BY DEF LinkHeld, OrderExcused
<1> QED
  BY <1>1, LinkInitHolds, LinkNextKeeps, PTL DEF LinkSpec, NoBlindOrder
==============================================================================
