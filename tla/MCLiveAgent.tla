----------------------------- MODULE MCLiveAgent -----------------------------
(* A model of LiveAgent for TLC.                                            *)
EXTENDS LiveAgent
=============================================================================
