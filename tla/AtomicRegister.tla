---------------------------- MODULE AtomicRegister ----------------------------
(***************************************************************************)
(* What the state sidecar promises: a register into which only the whole   *)
(* of the state handed over last is stored, at once or not at all, and     *)
(* from which a restarted process reads what was stored last.              *)
(***************************************************************************)
CONSTANTS States, NoState

VARIABLES
  held,   \* the state in the register
  given   \* the state handed over last, none since a restart

Init == held = NoState /\ given = {}

Hand == \E s \in States : given' = {s} /\ UNCHANGED held

Store == held' \in given /\ UNCHANGED given

Restart == given' = {} /\ UNCHANGED held

Next == Hand \/ Store \/ Restart

Spec == Init /\ [][Next]_<<held, given>>
=============================================================================
