------------------------------ MODULE MCDDHalt ------------------------------
(***************************************************************************)
(* For TLC, side by side: the life of a halt (DDHalt) and that of the link *)
(* to the terminal (BrokerLink).  One of the models moves while the other  *)
(* one is where it starts, and each has its own fairness while it does.    *)
(***************************************************************************)
EXTENDS DDHalt, BrokerLink

MCInit == Init /\ LinkInit

HaltMoves(A) == LinkInit /\ A /\ UNCHANGED linkVars
LinkMoves(A) == Init /\ A /\ UNCHANGED vars

MCNext == HaltMoves(Next) \/ LinkMoves(LinkNext)

MCFairness ==
  /\ WF_vars(HaltMoves(WriteKill))
  /\ WF_vars(HaltMoves(Inspect))
  /\ WF_vars(HaltMoves(Clear \/ ClearFails))
  /\ WF_vars(HaltMoves(Escalate \/ EscalateFails))
  /\ WF_vars(HaltMoves(proc = "unsaved" /\ (Persist \/ PersistFails)))
  /\ WF_linkVars(LinkMoves(Boot))
  /\ WF_linkVars(LinkMoves(MonitorStep))
  /\ WF_linkVars(LinkMoves(LoopStep))

MCSpec == MCInit /\ [][MCNext]_<<vars, linkVars>> /\ MCFairness

(* Where the halt rests, what the link promises of its reads holds: the    *)
(* channel answers again, however the terminal was replaced before.        *)
ReadsComeBackAtRest == <>[]Init => ReadsComeBack
=============================================================================
