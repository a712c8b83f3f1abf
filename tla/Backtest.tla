------------------------------- MODULE Backtest -------------------------------
(***************************************************************************)
(* run_alphas_chunked: a strategy measured over a long history.  The       *)
(* history is tiled into chunks that are run one by one, each with bars    *)
(* before it, for the detectors, and after it, for the trades still open;  *)
(* a chunk's run holds one position at a time.  Prices are abstracted to   *)
(* what a bar does to a trade that is open: it reaches its stop, its       *)
(* target, both or neither.                                                *)
(***************************************************************************)
EXTENDS Integers, FiniteSetsExt

CONSTANTS N, Chunk, Lead, Trail   \* bars, chunk, warmup and tail

ASSUME TestAssumption == {N, Chunk} \subseteq Nat \ {0} /\ {Lead, Trail} \subseteq Nat

VARIABLES
  signals,   \* the bars at which the strategy signals
  hits,      \* what a bar reaches of the trade that is open
  chunk,     \* first scored bar of the chunk that runs
  bar,       \* next bar of its run
  open,      \* entry bar of the open trade, Flat if there is none
  ran,       \* trades of the run
  out        \* trades kept

testVars == <<signals, hits, chunk, bar, open, ran, out>>

Flat == 0
StartIndex == Lead + 1   \* start_index: the first bar that is scored

-----------------------------------------------------------------------------
(* The slices of a chunk.                                                  *)
SegEnd(c) == Min({c + Chunk - 1, N})
FirstBar(c) == Max({1, c - Lead})
LastBar(c) == Min({N, SegEnd(c) + Trail})

(* _check_exit: the worst case when a bar reaches both.                    *)
Exit(hit) == IF "stop" \in hit THEN "sl" ELSE "tp"

(* Slip: every trade of the run is kept.                                   *)
KeptAll(trades, c) == trades

(* The trades that were entered in the chunk's scored window.              *)
Kept(trades, c) == {t \in trades : t.entry \in c..SegEnd(c)}

-----------------------------------------------------------------------------
TestInit ==
  /\ signals \in SUBSET (1..N)
  /\ hits \in [1..N -> {{}, {"target"}, {"stop", "target"}}]
  /\ chunk = StartIndex /\ bar = FirstBar(StartIndex)
  /\ open = Flat /\ ran = {} /\ out = {}

(* run_alpha's loop body: first the exit, then, if flat and inside the     *)
(* scored bars, the entry at the next bar's open (_open).                  *)
Bar ==
  /\ chunk < N /\ bar <= LastBar(chunk)
  /\ LET exits == open # Flat /\ hits[bar] # {}
         flat == open = Flat \/ exits
         enters == flat /\ bar \in chunk..LastBar(chunk) - 1 /\ bar \in signals
     IN  /\ ran' = IF exits THEN ran \cup {[entry |-> open, exit |-> bar, why |-> Exit(hits[bar])]}
                   ELSE ran
         /\ open' = IF enters THEN bar + 1 ELSE IF exits THEN Flat ELSE open
  /\ bar' = bar + 1
  /\ UNCHANGED <<signals, hits, chunk, out>>

(* The end of a run: what is open is closed at the last bar, and the       *)
(* chunk's trades are kept.                                                *)
Finished ==
  IF open = Flat THEN ran
  ELSE ran \cup {[entry |-> open, exit |-> LastBar(chunk), why |-> "end_of_data"]}

NextChunk ==
  /\ bar > LastBar(chunk) /\ chunk < N
  /\ out' = out \cup {[entry |-> t.entry, exit |-> t.exit, why |-> t.why, of |-> chunk]
                        : t \in Kept(Finished, chunk)}
  /\ chunk' = chunk + Chunk
  /\ bar' = FirstBar(chunk + Chunk)
  /\ open' = Flat /\ ran' = {}
  /\ UNCHANGED <<signals, hits>>

TestNext == Bar \/ NextChunk

TestSpec == TestInit /\ [][TestNext]_testVars

-----------------------------------------------------------------------------
(* No trade is counted twice across the seams, every one follows a signal, *)
(* and those of one chunk do not overlap, so that the scorecard holds one  *)
(* position at a time but where a trade outlives its chunk.                *)
ScoredOnce ==
  /\ \A t \in out : t.entry - 1 \in signals /\ t.entry <= t.exit
  /\ \A t, u \in out : t # u =>
       /\ t.entry # u.entry
       /\ t.of = u.of => t.exit < u.entry \/ u.exit < t.entry
=============================================================================
