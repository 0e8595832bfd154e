--------------------------- MODULE MCMonthlyGrants ---------------------------
(* Instances of MonthlyGrants for TLC.                                     *)
EXTENDS MonthlyGrants, TLC

CONSTANTS p1, p2, t1, t2
=============================================================================
