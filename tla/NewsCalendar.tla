---------------------------- MODULE NewsCalendar ----------------------------
(***************************************************************************)
(* The economic calendar: the feed is fetched into a cache file, and a     *)
(* decision asks the cache whether an event is near.  The feed changes,    *)
(* goes blank or cannot be reached; a fetch may be cut in the middle of    *)
(* the write, and then the file cannot be read.  Time is in steps.         *)
(***************************************************************************)
EXTENDS Integers, FiniteSetsExt

CONSTANTS
  Announcements,  \* records of time (NoTime for an all-day one), currency, impact
  Currencies, Impacts,   \* the currencies and impacts that are asked for
  BeforeMin, AfterMin, Horizon,
  TTL, MaxTime, NoTime

ASSUME NewsAssumption ==
  /\ {BeforeMin, AfterMin, Horizon} \subseteq Nat
  /\ \A e \in Announcements : e.time \in Nat \cup {NoTime}

VARIABLES
  now,
  feed,     \* the events the feed publishes
  cache,    \* the cache file: its events and when they were fetched
  known     \* the events of the last fetch that found any, none once it was cut

newsVars == <<now, feed, cache, known>>

Missing == [events |-> {}, at |-> NoTime]

-----------------------------------------------------------------------------
(* is_news_blackout and next_blackout, on what load_calendar reads.        *)
Matches(e) == e.time # NoTime /\ e.currency \in Currencies /\ e.impact \in Impacts

Around(e, t) == t \in e.time - BeforeMin..e.time + AfterMin

IsBlackout(t, events) == \E e \in events : Matches(e) /\ Around(e, t)

Upcoming(t, events) == {e \in events : Matches(e) /\ e.time - BeforeMin >= t /\ e.time <= t + Horizon}

NextBlackout(t, events) == Min({e.time : e \in Upcoming(t, events)})

(* _is_cache_fresh.                                                        *)
IsFresh == cache.at # NoTime /\ now - cache.at < TTL

-----------------------------------------------------------------------------
NewsInit == now = 0 /\ feed = {} /\ cache = Missing /\ known = {}

FeedChanges == \E f \in SUBSET Announcements : feed' = f /\ UNCHANGED <<now, cache, known>>

TimePasses == now < MaxTime /\ now' = now + 1 /\ UNCHANGED <<feed, cache, known>>

(* Slip: whatever was parsed replaces the cache.                           *)
Replaces(parsed) == TRUE

(* A feed of no events keeps the cache.                                    *)
Written(parsed) == parsed # {}

(* fetch_calendar: a fresh cache is returned as it is, and the cached      *)
(* events stay if the feed cannot be reached.                              *)
Fetch ==
  /\ ~IsFresh
  /\ \E reached \in BOOLEAN :
       IF reached /\ Written(feed)
       THEN /\ cache' = [events |-> feed, at |-> now]
            /\ known' = IF feed = {} THEN known ELSE feed
       ELSE UNCHANGED <<cache, known>>
  /\ UNCHANGED <<now, feed>>

FetchCut ==
  /\ ~IsFresh /\ Written(feed)
  /\ cache' = Missing /\ known' = {}
  /\ UNCHANGED <<now, feed>>

NewsNext == FeedChanges \/ TimePasses \/ Fetch \/ FetchCut

NewsSpec == NewsInit /\ [][NewsNext]_newsVars

-----------------------------------------------------------------------------
(* An event that was fetched has its blackout until other events are       *)
(* fetched, whatever the feed does then ("keeping cache"); and the next    *)
(* blackout that is shown is the first to begin: until it opens, only      *)
(* events whose window was open already black out.                         *)
BlackoutStands ==
  /\ \A e \in known : Matches(e) /\ Around(e, now) => IsBlackout(now, cache.events)
  /\ Upcoming(now, cache.events) # {} =>
       \A t \in now..NextBlackout(now, cache.events) - BeforeMin - 1 :
         IsBlackout(t, cache.events) =>
           \E e \in cache.events : Matches(e) /\ Around(e, t) /\ e.time - BeforeMin < now
=============================================================================
