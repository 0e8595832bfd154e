---------------------------- MODULE WalletLedger ----------------------------
(***************************************************************************)
(* What the credit wallet promises its callers, with no transactions, rows *)
(* or locks: every call takes effect at one instant or never, a posting    *)
(* moves the balance by its amount and leaves one ledger entry that        *)
(* records the balance it reached, and under a hard stop a debit never     *)
(* takes the wallet below zero.  WalletService implements it; WalletGate   *)
(* is built on it.                                                         *)
(***************************************************************************)
EXTENDS Integers, Sequences

CONSTANTS
    Tenants,
    Calls,      \* the requests made to the service, each made once
    NoWallet,   \* the balance of a tenant with no wallet
    Amounts,    \* what a posting may add to a balance, in quanta
    Opening     \* [Tenants -> balance in quanta or NoWallet]

VARIABLES
    balance,    \* [Tenants -> quanta or NoWallet]
    hard,       \* [Tenants -> is_hard_stop]
    entries,    \* [Tenants -> Seq of ledger entries], oldest first
    outcome     \* [Calls -> what the caller has been told]

ledgerVars == <<balance, hard, entries, outcome>>

Kinds == {"debit", "credit", "grant"}
Refusals == {"insufficient", "no_wallet", "zero"}

HasWallet(t) == balance[t] # NoWallet

LedgerInit ==
    /\ balance = Opening
    /\ hard \in [Tenants -> BOOLEAN]
    /\ entries = [t \in Tenants |-> <<>>]
    /\ outcome = [c \in Calls |-> "pending"]

(* A posting that rounds the balance and the amount apart may be off by a  *)
(* quantum, a debit, whose charge is quantized, never is.                  *)
AddsUp(kind, before, amount, after) ==
    IF kind = "debit" THEN after = before + amount
                      ELSE after - before - amount \in {-1, 0, 1}

(* What a posting needs: a wallet, and under a hard stop funds for a debit. *)
MayPost(t, kind, amount, after) ==
    /\ HasWallet(t)
    /\ AddsUp(kind, balance[t], amount, after)
    /\ kind = "debit" /\ hard[t] => after >= 0

Post(c, t, kind, amount, after) ==
    /\ outcome[c] = "pending"
    /\ MayPost(t, kind, amount, after)
    /\ balance' = [balance EXCEPT ![t] = after]
    /\ entries' = [entries EXCEPT ![t] = Append(@,
                      [by |-> c, kind |-> kind, amount |-> amount, after |-> after])]
    /\ outcome' \in {[outcome EXCEPT ![c] = o] : o \in {"ok", "error"}}
    /\ UNCHANGED hard

(* A refused call changes nothing, and is refused for a reason that holds. *)
Refuse(c, t, why) ==
    /\ outcome[c] = "pending"
    /\ why = "no_wallet" => ~HasWallet(t)
    /\ why = "insufficient" => HasWallet(t) /\ hard[t]
    /\ outcome' = [outcome EXCEPT ![c] = why]
    /\ UNCHANGED <<balance, hard, entries>>

Lose(c) ==
    /\ outcome[c] = "pending"
    /\ outcome' = [outcome EXCEPT ![c] = "error"]
    /\ UNCHANGED <<balance, hard, entries>>

Open(t) ==
    /\ ~HasWallet(t)
    /\ balance' = [balance EXCEPT ![t] = 0]
    /\ hard' = [hard EXCEPT ![t] = TRUE]
    /\ UNCHANGED <<entries, outcome>>

(* The operator's emergency stop, outside the ledger.                      *)
Block(t) ==
    /\ HasWallet(t)
    /\ balance' = [balance EXCEPT ![t] = 0]
    /\ hard' = [hard EXCEPT ![t] = TRUE]
    /\ UNCHANGED <<entries, outcome>>

LedgerNext ==
    \/ \E c \in Calls, t \in Tenants, kind \in Kinds :
           \E amount \in Amounts, rounding \in {-1, 0, 1} :
               Post(c, t, kind, amount, balance[t] + amount + rounding)
    \/ \E c \in Calls, t \in Tenants, why \in Refusals : Refuse(c, t, why)
    \/ \E c \in Calls : Lose(c)
    \/ \E t \in Tenants : Open(t) \/ Block(t)

LedgerSpec == LedgerInit /\ [][LedgerNext]_ledgerVars
=============================================================================
