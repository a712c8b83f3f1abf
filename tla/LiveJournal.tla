---------------------------- MODULE LiveJournal ----------------------------
(***************************************************************************)
(* The day journal: a readable file and a structured one per day.  Entries,*)
(* exits and declined setups are written to them as they happen and kept   *)
(* in memory; the daily roll-up is made from memory and said to be         *)
(* "Idempotent per day".  A process that dies loses its memory, between    *)
(* any two of the writes of one operation.  Lines carry the run that wrote *)
(* them, which the files do not: it is there for the properties.           *)
(***************************************************************************)
EXTENDS Integers, SequencesExt, FiniteSetsExt

CONSTANTS
  Trades,      \* records of conviction (percent), source, aligned, r
  MaxDetail,   \* max_decline_detail_per_day
  MinN,        \* samples a verdict needs
  MaxDay, MaxLines, MaxRuns   \* bounds

VARIABLES
  day,
  log,   \* what the files hold, in the order it was written
  mem,   \* _open, _day_trades, _day_declines, _rollup_done
  run

journalVars == <<day, log, mem, run>>

Unknown == 50   \* conviction_band and classify_outcome of None: neither high
Perspectives == {"anticipation", "reaction"}

ASSUME JournalAssumption ==
  /\ Trades \subseteq [conviction : Nat, source : Perspectives, aligned : STRING, r : Int]
  /\ {MaxDetail, MinN, MaxDay, MaxLines, MaxRuns} \subseteq Nat

-----------------------------------------------------------------------------
(* classify_outcome and conviction_band: a conviction of 66 is a high one  *)
(* for a trade's attribution and of the middle band for the calibration.   *)
Attribution(conviction, r) ==
  IF r > 0 THEN IF conviction >= 66 THEN "good_setup_won" ELSE "marginal_win"
  ELSE IF conviction >= 66 THEN "good_setup_failed" ELSE "bad_setup"

Band(conviction) == IF conviction < 55 THEN "low" ELSE IF conviction < 70 THEN "med" ELSE "high"

Stats(trades) ==
  [n |-> Len(trades), wins |-> Len(SelectSeq(trades, LAMBDA t : t.r > 0)),
   sum |-> FoldLeft(LAMBDA acc, t : acc + t.r, 0, trades)]

(* The mean of a is below that of b by more than a twentieth part of h.    *)
Below(a, b, h) == 20 * a.sum * b.n < 20 * b.sum * a.n - h * a.n * b.n

(* calibration_report: a lower band with enough trades beats the high one. *)
OfBand(trades, band) == Stats(SelectSeq(trades, LAMBDA t : Band(t.conviction) = band))

Calibration(trades) ==
  LET bucket == [band \in {"low", "med", "high"} |-> OfBand(trades, band)]
  IN  [buckets |-> bucket,
       miscalibrated |-> \E low \in {"low", "med"} :
         /\ bucket["high"].n >= MinN /\ bucket[low].n >= MinN
         /\ Below(bucket["high"], bucket[low], 1)]

(* directional_bias_check.                                                 *)
Fighting(trades) ==
  LET with == Stats(SelectSeq(trades, LAMBDA t : t.aligned = "with"))
      against == Stats(SelectSeq(trades, LAMBDA t : t.aligned = "against"))
  IN  /\ with.n + against.n >= MinN
      /\ \/ 2 * against.n >= with.n + against.n /\ against.sum < 0
         \/ against.n >= MinN /\ with.n >= MinN /\ Below(against, with, 4)

(* scorecard: per perspective, what was acted on and what was declined.    *)
Scorecard(trades, declines) ==
  [s \in Perspectives |->
     [acted |-> Stats(SelectSeq(trades, LAMBDA t : t.source = s)),
      declined |-> Len(SelectSeq(declines, LAMBDA d : d.source = s))]]

(* log_daily_rollup's record, from the trades and declines it remembers.   *)
Rollup(today, declines, all) ==
  [trades |-> Stats(today), calibration |-> Calibration(today), rolling |-> Calibration(all),
   scorecard |-> Scorecard(today, declines), fighting |-> Fighting(all)]

-----------------------------------------------------------------------------
Days == 0..MaxDay
Fresh == [open |-> {}, trades |-> [d \in Days |-> <<>>], all |-> <<>>,
          declines |-> [d \in Days |-> <<>>], rolled |-> {}]

LogLine(file, kind, d, body) == [file |-> file, kind |-> kind, day |-> d, body |-> body, run |-> run]

(* start_day: the header, unless the day's file is there.                  *)
HeaderLines(d) == <<LogLine("md", "header", d, {}), LogLine("jsonl", "day_start", d, {})>>

(* Slip: the header is written once by every process.                      *)
HeaderEachRun(d) ==
  IF \E i \in DOMAIN log : log[i].file = "md" /\ log[i].day = d /\ log[i].run = run
  THEN <<>> ELSE HeaderLines(d)

Header(d) ==
  IF \E i \in DOMAIN log : log[i].file = "md" /\ log[i].day = d THEN <<>> ELSE HeaderLines(d)

JournalInit == day = 0 /\ log = <<>> /\ mem = Fresh /\ run = 1

(* An operation's lines, and what it remembers; or the process dies after  *)
(* some of the lines and another one starts.                               *)
Writes(d, lines, remembered) ==
  LET all == Header(d) \o lines
  IN  /\ Len(log) + Len(all) <= MaxLines
      /\ \/ log' = log \o all /\ mem' = remembered /\ UNCHANGED run
         \/ /\ run < MaxRuns /\ run' = run + 1 /\ mem' = Fresh
            /\ \E cut \in 0..Len(all) : log' = log \o SubSeq(all, 1, cut)
      /\ UNCHANGED day

Taken(t) == \E i \in DOMAIN log : log[i].kind \in {"trade_entry", "trade_exit"} /\ log[i].body.trade = t
Exited(t) == \E i \in DOMAIN log : log[i].kind = "trade_exit" /\ log[i].body.trade = t

(* log_trade_entry.                                                        *)
LogEntry ==
  \E t \in Trades :
    /\ ~Taken(t)
    /\ Writes(day, <<LogLine("md", "trade_entry", day, [trade |-> t]),
                     LogLine("jsonl", "trade_entry", day, [trade |-> t])>>,
              [mem EXCEPT !.open = @ \cup {t}])

(* log_trade_exit: the context of the entry, if this process logged it.    *)
SeenAs(t, known) ==
  [t EXCEPT !.conviction = IF known THEN @ ELSE Unknown,
            !.source = IF known THEN @ ELSE "",
            !.aligned = IF known THEN @ ELSE ""]

ExitBody(t, seen) ==
  [trade |-> t, seen |-> seen, attribution |-> Attribution(seen.conviction, t.r)]

LogExit ==
  \E t \in Trades :
    /\ Taken(t) /\ ~Exited(t)
    /\ LET seen == SeenAs(t, t \in mem.open)
           body == ExitBody(t, seen)
       IN  Writes(day, <<LogLine("md", "trade_exit", day, body),
                         LogLine("jsonl", "trade_exit", day, body)>>,
                  [mem EXCEPT !.open = @ \ {t}, !.trades[day] = Append(@, seen),
                              !.all = Append(@, seen)])

(* log_declined: the readable line only up to a number of them.            *)
Detail(d) == IF Len(mem.declines[d]) < MaxDetail THEN <<LogLine("md", "declined", d, {})>> ELSE <<>>

Declined ==
  \E s \in Perspectives :
    Writes(day, <<LogLine("jsonl", "declined", day, [source |-> s])>> \o Detail(day),
           [mem EXCEPT !.declines[day] = Append(@, [source |-> s])])

(* log_daily_rollup, of today or of a day before.                          *)
RollUp ==
  \E d \in 0..day :
    LET body == Rollup(mem.trades[d], mem.declines[d], mem.all)
    IN  /\ d \notin mem.rolled
        /\ Writes(d, <<LogLine("md", "daily_rollup", d, {}), LogLine("jsonl", "daily_rollup", d, body)>>,
                  [mem EXCEPT !.rolled = @ \cup {d}])

Midnight == day < MaxDay /\ day' = day + 1 /\ UNCHANGED <<log, mem, run>>

JournalNext == LogEntry \/ LogExit \/ Declined \/ RollUp \/ Midnight

JournalSpec == JournalInit /\ [][JournalNext]_journalVars

-----------------------------------------------------------------------------
(* A day's readable file opens with its header and has no other.           *)
OneHeader ==
  \A i \in DOMAIN log :
    log[i].file = "md" =>
      (log[i].kind = "header") =
        ~\E j \in 1..i - 1 : log[j].file = "md" /\ log[j].day = log[i].day

(* The lines of a file, by their places.                                   *)
LinesOf(file, kind, d, r) ==
  {i \in DOMAIN log : log[i].file = file /\ log[i].kind = kind /\ log[i].day \in d /\ log[i].run = r}

(* The members of a sequence at some places, in order.                     *)
Picked(s, places) ==
  LET picked[n \in 0..Len(s)] ==
        IF n = 0 THEN <<>>
        ELSE IF n \in places THEN Append(picked[n - 1], s[n]) ELSE picked[n - 1]
  IN  picked[Len(s)]

(* What the structured file held of a run when line i was written.         *)
Of(i, kind, d) == Picked(log, {j \in LinesOf("jsonl", kind, d, log[i].run) : j < i})

SeenOf(lines) == [k \in DOMAIN lines |-> lines[k].body.seen]
BodyOf(lines) == [k \in DOMAIN lines |-> lines[k].body]

(* A roll-up can be recomputed from the structured file: it is that of the *)
(* trades and declines its run had logged, and nothing of other runs.      *)
RollupsRecomputable ==
  \A i \in DOMAIN log :
    log[i].kind = "daily_rollup" /\ log[i].file = "jsonl" =>
      log[i].body = Rollup(SeenOf(Of(i, "trade_exit", {log[i].day})),
                           BodyOf(Of(i, "declined", {log[i].day})),
                           SeenOf(Of(i, "trade_exit", Days)))

(* An exit is attributed by the conviction of its entry when the same run  *)
(* logged it, and as one of no conviction otherwise.                       *)
ExitsAttributed ==
  \A i \in DOMAIN log :
    log[i].kind = "trade_exit" =>
      LET t == log[i].body.trade
          entered == \E j \in 1..i - 1 :
                       /\ log[j].kind = "trade_entry" /\ log[j].file = "jsonl"
                       /\ log[j].body.trade = t /\ log[j].run = log[i].run
      IN  log[i].body.attribution = Attribution(IF entered THEN t.conviction ELSE Unknown, t.r)

(* One roll-up a day and run, no more declines in detail than there may    *)
(* be; and each run leaves at most one operation half written.             *)
OncePerRun ==
  \A r \in 1..run, d \in Days :
    /\ Cardinality(LinesOf("jsonl", "daily_rollup", {d}, r)) <= 1
    /\ Cardinality(LinesOf("md", "declined", {d}, r)) <= MaxDetail
    /\ LET count(file) == Cardinality(LinesOf(file, "trade_exit", {d}, r))
       IN  count("md") - count("jsonl") \in 0..1

JournalTrue == OneHeader /\ RollupsRecomputable /\ ExitsAttributed /\ OncePerRun
=============================================================================
