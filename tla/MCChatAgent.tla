----------------------------- MODULE MCChatAgent -----------------------------
(***************************************************************************)
(* Small instances of ChatAgent.                                           *)
(***************************************************************************)
EXTENDS ChatAgent, TLC

MCMessage == TurnMessage

TurnSymmetry == Permutations(Turn) \cup Permutations(Session)
=============================================================================
