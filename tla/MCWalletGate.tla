---------------------------- MODULE MCWalletGate ----------------------------
(* Instances of WalletGate for TLC.                                        *)
EXTENDS WalletGate, TLC

CONSTANTS t1, t2, c1, c2, c3, c4, s1, s2

(* Four calls on two slots, and a slot for every call.                     *)
TwoSlots == c1 :> s1 @@ c2 :> s1 @@ c3 :> s2 @@ c4 :> s2
PairEach == c1 :> s1 @@ c2 :> s2

(* The last call is another tenant's.                                      *)
LastAlone == [c \in Calls |-> IF c = c4 THEN t2 ELSE t1]

Missing == [t \in Tenants |-> NoWallet]

(* What the steps to come depend on.  No guard reads the entries, and a    *)
(* call whose outcome a guard reads has none yet, so states that differ in *)
(* these two alone have the same futures.                                  *)
Outlook == <<balance, hard, pc, charge, idle, withdrawn>>

(* A top-up, and one of a negative amount.                                 *)
BothWays == {-1, 1}

SecondMissing == t1 :> 2 @@ t2 :> NoWallet
=============================================================================
