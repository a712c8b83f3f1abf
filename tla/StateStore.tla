------------------------------ MODULE StateStore ------------------------------
(***************************************************************************)
(* The state sidecar of a process: StateStore.save and load as calls on    *)
(* the file system, with a full disk and the death of the process between  *)
(* any two of them.  The file is written by its one process only.          *)
(***************************************************************************)
EXTENDS Naturals

CONSTANTS
  States,    \* what _collect_state may return
  NoState,   \* no sidecar, or one that load refuses
  Torn,      \* the beginning of a JSON text
  MaxFails   \* bound: failed writes and deaths

VARIABLES
  file,     \* state.json
  tmp,      \* state.tmp
  pc,       \* where save is, or "down"
  data,     \* the state being saved
  memory,   \* what the process has restored or saved last
  given,    \* history: the state handed to save last, none since a start
  fails     \* bound: spent

vars == <<file, tmp, pc, data, memory, given, fails>>

Init ==
  /\ file = NoState /\ tmp = NoState
  /\ pc = "idle"
  /\ data = NoState
  /\ memory = NoState
  /\ given = {}
  /\ fails = 0

Fails == fails < MaxFails /\ fails' = fails + 1

-----------------------------------------------------------------------------
(* save: the temporary file is opened, written, and moved over the file.   *)
Begin ==
  /\ pc = "idle"
  /\ \E s \in States : data' = s /\ given' = {s}
  /\ pc' = "open"
  /\ UNCHANGED <<file, tmp, memory, fails>>

Open ==
  /\ pc = "open"
  /\ tmp' = Torn
  /\ pc' = "write"
  /\ UNCHANGED <<file, data, memory, given, fails>>

(* Slip: the state is written over the file itself.                        *)
WrittenInPlace == tmp' = data /\ file' = Torn

WrittenAside == tmp' = data /\ UNCHANGED file

Write ==
  /\ pc = "write"
  /\ WrittenAside
  /\ pc' = "replace"
  /\ UNCHANGED <<data, memory, given, fails>>

Replace ==
  /\ pc = "replace"
  /\ file' = tmp
  /\ tmp' = NoState
  /\ memory' = data
  /\ pc' = "idle"
  /\ UNCHANGED <<data, given, fails>>

(* Any call may fail, which save only logs.                                *)
Swallowed ==
  /\ pc \in {"open", "write", "replace"}
  /\ Fails
  /\ pc' = "idle"
  /\ UNCHANGED <<file, tmp, data, memory, given>>

Dies ==
  /\ pc # "down"
  /\ Fails
  /\ pc' = "down"
  /\ data' = NoState /\ memory' = NoState
  /\ UNCHANGED <<file, tmp, given>>

(* load: a file that is missing or no JSON text of this schema is no state. *)
Load == IF file \in States THEN file ELSE NoState

Start ==
  /\ pc = "down"
  /\ memory' = Load
  /\ given' = {}
  /\ pc' = "idle"
  /\ UNCHANGED <<file, tmp, data, fails>>

Next == Begin \/ Open \/ Write \/ Replace \/ Swallowed \/ Dies \/ Start

Spec == Init /\ [][Next]_vars

-----------------------------------------------------------------------------
Register == INSTANCE AtomicRegister WITH held <- file

(* The sidecar is an atomic register: through partial writes, full disks   *)
(* and deaths, its file changes only to the whole of the state saved last. *)
ImplementsRegister == Register!Spec
=============================================================================
