----------------------------- MODULE MCChatTurn -----------------------------
(* Instances of ChatTurn for TLC.                                          *)
EXTENDS ChatTurn, TLC

CONSTANTS k1, r1, r2, r3
=============================================================================
