-------------------------- MODULE MCWalletService --------------------------
(* Instances of WalletService for TLC.                                     *)
EXTENDS WalletService, TLC

CONSTANTS t1, t2, c1, c2

Row(b, g, m, h) == [balance |-> b, monthly_grant |-> g, markup_rate |-> m,
                    is_hard_stop |-> h]

(* An open-ended wallet, which the operator's block makes a hard-stopped   *)
(* one, beside a tenant that has none yet.                                 *)
OpenAndMissing == t1 :> Row(1, 2, 125, FALSE) @@ t2 :> NoRow

(* What the calls of these instances can post, in quanta: debits of 1.5    *)
(* and 3.5 at a markup of 1.25 or 1.5, top-ups of 0.5 and 2, a grant of 2. *)
Postings == {-6, -5, -3, -2, 0, 1, 2}
=============================================================================
