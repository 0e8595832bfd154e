----------------------------- MODULE WalletGate -----------------------------
(***************************************************************************)
(* WalletGate (src/services/wallet_gate.py) over the wallet's ledger and   *)
(* the asyncpg pool (src/db/session.py): check before an LLM call, debit   *)
(* after it.  The balance is read and the call paid for in different       *)
(* transactions, each on a connection of its own, so calls that were let   *)
(* through together are charged one after another; and a check that finds  *)
(* no wallet asks the pool for a second connection while it holds one.     *)
(* What lies between check and debit is the caller's, and outside src/.    *)
(* The wallet is WalletLedger, which WalletService implements.             *)
(***************************************************************************)
EXTENDS WalletLedger, FiniteSets

CONSTANTS
    PoolSize,     \* max_size of the pool
    Slots,        \* requests the server works on at a time
    SlotOf,       \* [Calls -> Slots]: calls of one slot follow each other
    TenantOf,     \* [Calls -> Tenants]
    MaxCharge,    \* no call is charged more, in quanta
    Charges,      \* what calls turn out to be charged
    TopUps        \* what the top-up endpoint is asked for, of either sign

ASSUME CallsAssumption == IsFiniteSet(Calls)
ASSUME PoolAssumption == PoolSize \in Nat \ {0}
ASSUME SlotsAssumption == IsFiniteSet(Slots) /\ SlotOf \in [Calls -> Slots]
ASSUME TenantOfAssumption == TenantOf \in [Calls -> Tenants]
ASSUME ChargesAssumption == MaxCharge \in Nat /\ Charges \subseteq 0..MaxCharge
ASSUME TopUpsAssumption == TopUps \subseteq Int
ASSUME NoWalletAssumption == NoWallet \notin Int
ASSUME OpeningFundedAssumption == Opening \in [Tenants -> Nat \cup {NoWallet}]

VARIABLES
    pc,       \* [Calls -> where its coroutine is]
    charge,   \* [Calls -> what the call was charged], once it is known
    idle,     \* connections in the pool
    withdrawn \* [Tenants -> what top-ups took from the wallet since it was
              \*  last not below zero]: history, for OverdraftBounded

gateVars == <<pc, charge, idle, withdrawn>>
vars == <<ledgerVars, gateVars>>

(* Coroutines that hold a connection, and those that hold a second one.    *)
HoldOne == {"reading", "wait_create", "creating", "debiting", "crediting"}
HoldTwo == {"creating"}
Waiting == {"wait_check", "wait_create", "wait_debit", "wait_credit"}
InFlight == {"admitted", "wait_debit", "debiting"}
Ended == {"refused", "failed", "done"}

At(pcs) == {c \in Calls : pc[c] \in pcs}
Active == {c \in Calls : pc[c] \notin Ended \cup {"new"}}

TypeOK ==
    /\ balance \in [Tenants -> Int \cup {NoWallet}]
    /\ hard \in [Tenants -> BOOLEAN]
    /\ outcome \in [Calls -> {"pending", "ok", "error"} \cup Refusals]
    /\ pc \in [Calls -> {"new"} \cup HoldOne \cup Waiting \cup InFlight \cup Ended]
    /\ charge \in [Calls -> 0..MaxCharge]
    /\ idle \in 0..PoolSize
    /\ withdrawn \in [Tenants -> Nat]

Init ==
    /\ LedgerInit
    /\ pc = [c \in Calls |-> "new"]
    /\ charge = [c \in Calls |-> 0]
    /\ idle = PoolSize
    /\ withdrawn = [t \in Tenants |-> 0]

Goto(c, l) == pc' = [pc EXCEPT ![c] = l]

Acquire == idle > 0 /\ idle' = idle - 1
(* Mutation: a connection is not given back.                               *)
LeakConnection == UNCHANGED idle

Release == idle' = idle + 1

-----------------------------------------------------------------------------
(* WalletGate.check                                                        *)
SlotFree(c) == \A d \in Active : SlotOf[d] # SlotOf[c]

Check(c) ==
    /\ pc[c] = "new" /\ SlotFree(c)
    /\ Goto(c, "wait_check")
    /\ UNCHANGED <<ledgerVars, charge, idle, withdrawn>>

AcquireForCheck(c) ==
    /\ pc[c] = "wait_check" /\ Acquire /\ Goto(c, "reading")
    /\ UNCHANGED <<ledgerVars, charge, withdrawn>>

(* Mutation: what the docstring of check says.                             *)
ReadBalanceAndHardStop(c) ==
    LET t == TenantOf[c] IN
    /\ pc[c] = "reading" /\ HasWallet(t)
    /\ Goto(c, IF balance[t] > 0 \/ ~hard[t] THEN "admitted" ELSE "refused")
    /\ Release
    /\ UNCHANGED <<ledgerVars, charge, withdrawn>>

(* A balance above zero admits the call, whatever is_hard_stop says.       *)
ReadBalance(c) ==
    LET t == TenantOf[c] IN
    /\ pc[c] = "reading" /\ HasWallet(t)
    /\ Goto(c, IF balance[t] > 0 THEN "admitted" ELSE "refused")
    /\ Release
    /\ UNCHANGED <<ledgerVars, charge, withdrawn>>

FindNoWallet(c) ==
    /\ pc[c] = "reading" /\ ~HasWallet(TenantOf[c])
    /\ Goto(c, "wait_create")
    /\ UNCHANGED <<ledgerVars, charge, idle, withdrawn>>

(* An error of the query, or a request that goes away, leaves check as an  *)
(* exception.                                                              *)
CheckFails(c) ==
    /\ pc[c] = "reading" /\ Goto(c, "failed") /\ Release
    /\ UNCHANGED <<ledgerVars, charge, withdrawn>>

AcquireForCreate(c) ==
    /\ pc[c] = "wait_create" /\ Acquire /\ Goto(c, "creating")
    /\ UNCHANGED <<ledgerVars, charge, withdrawn>>

(* _create_wallet: INSERT ... ON CONFLICT DO NOTHING.                      *)
InsertWallet(t) ==
    Open(t) \/ (HasWallet(t) /\ UNCHANGED ledgerVars)

(* Both connections go back and check returns False.                       *)
CreateWallet(c) ==
    /\ pc[c] = "creating" /\ InsertWallet(TenantOf[c])
    /\ Goto(c, "refused")
    /\ idle' = idle + 2
    /\ UNCHANGED <<charge, withdrawn>>

(* Mutation: only the inner of the two connections goes back.              *)
CreateFailsKeepsOuter(c) ==
    /\ pc[c] = "creating"
    /\ InsertWallet(TenantOf[c]) \/ UNCHANGED ledgerVars
    /\ Goto(c, "failed") /\ Release
    /\ UNCHANGED <<charge, withdrawn>>

(* The INSERT raises, or took effect and its answer is lost: the exception *)
(* unwinds both async with.                                                *)
CreateFails(c) ==
    /\ pc[c] = "creating"
    /\ InsertWallet(TenantOf[c]) \/ UNCHANGED ledgerVars
    /\ Goto(c, "failed")
    /\ idle' = idle + 2
    /\ UNCHANGED <<charge, withdrawn>>

(* The pool cannot open a connection, or the request goes away while it    *)
(* waits for one (debit_after_call acquires outside its try).  One that    *)
(* waits for its second connection gives back the first.                   *)
AcquireFails(c) ==
    /\ pc[c] \in Waiting /\ Goto(c, "failed")
    /\ IF pc[c] \in HoldOne THEN Release ELSE UNCHANGED idle
    /\ UNCHANGED <<ledgerVars, charge, withdrawn>>

-----------------------------------------------------------------------------
(* Mutation: the cost of a call is counted twice.                          *)
FinishLLMCallTwice(c, cost) ==
    /\ pc[c] = "admitted" /\ Goto(c, "wait_debit")
    /\ charge' = [charge EXCEPT ![c] = cost + cost]
    /\ UNCHANGED <<ledgerVars, idle, withdrawn>>

(* The caller, between check and debit_after_call.                         *)
FinishLLMCall(c, cost) ==
    /\ pc[c] = "admitted" /\ Goto(c, "wait_debit")
    /\ charge' = [charge EXCEPT ![c] = cost]
    /\ UNCHANGED <<ledgerVars, idle, withdrawn>>

Abandon(c) ==
    /\ pc[c] = "admitted" /\ Goto(c, "failed")
    /\ UNCHANGED <<ledgerVars, charge, idle, withdrawn>>

-----------------------------------------------------------------------------
(* WalletGate.debit_after_call: no exception of the debit gets out.  (The  *)
(* wallet is there: check saw it, and nothing in src/ deletes one.)        *)
AcquireForDebit(c) ==
    /\ pc[c] = "wait_debit" /\ Acquire /\ Goto(c, "debiting")
    /\ UNCHANGED <<ledgerVars, charge, withdrawn>>

DebitAfterCall(c) ==
    LET t == TenantOf[c] IN
    /\ pc[c] = "debiting"
    /\ \/ HasWallet(t) /\ Post(c, t, "debit", -charge[c], balance[t] - charge[c])
       \/ HasWallet(t) /\ balance[t] < charge[c] /\ Refuse(c, t, "insufficient")
       \/ Lose(c)
    /\ Goto(c, "done") /\ Release
    /\ UNCHANGED <<charge, withdrawn>>

-----------------------------------------------------------------------------
(* POST .../wallet/topup: a request like the others, on a connection of    *)
(* its own, for whatever amount the body names.                            *)
AskTopUp(c) ==
    /\ pc[c] = "new" /\ SlotFree(c)
    /\ Goto(c, "wait_credit")
    /\ UNCHANGED <<ledgerVars, charge, idle, withdrawn>>

AcquireForCredit(c) ==
    /\ pc[c] = "wait_credit" /\ Acquire /\ Goto(c, "crediting")
    /\ UNCHANGED <<ledgerVars, charge, withdrawn>>

(* WalletService.credit, which rounds the balance and the amount apart.    *)
TopUp(c, amount, rounding) ==
    LET t == TenantOf[c]
        after == balance[t] + amount + rounding
        taken == IF after < balance[t] THEN balance[t] - after ELSE 0 IN
    /\ pc[c] = "crediting" /\ HasWallet(t)
    /\ Post(c, t, "credit", amount, after)
    /\ withdrawn' = [withdrawn EXCEPT ![t] = IF after >= 0 THEN 0 ELSE @ + taken]
    /\ Goto(c, "done") /\ Release
    /\ UNCHANGED charge

(* 404 without a wallet; a lost connection.                                *)
TopUpFails(c) ==
    /\ pc[c] = "crediting"
    /\ Refuse(c, TenantOf[c], "no_wallet") \/ Lose(c)
    /\ Goto(c, "failed") /\ Release
    /\ UNCHANGED <<charge, withdrawn>>

FinishTopUp(c) ==
    \/ TopUpFails(c)
    \/ \E amount \in TopUps, rounding \in {-1, 0, 1} : TopUp(c, amount, rounding)

Proceed(c) ==
    \/ ReadBalance(c) \/ FindNoWallet(c) \/ CreateWallet(c)
    \/ DebitAfterCall(c) \/ FinishTopUp(c)

TakeConnection(c) ==
    \/ AcquireForCheck(c) \/ AcquireForCreate(c)
    \/ AcquireForDebit(c) \/ AcquireForCredit(c)

Fail(c) == CheckFails(c) \/ CreateFails(c) \/ AcquireFails(c)

Next ==
    \E c \in Calls :
        \/ Check(c) \/ AskTopUp(c) \/ Abandon(c) \/ Fail(c)
        \/ \E cost \in Charges : FinishLLMCall(c, cost)
        \/ Proceed(c) \/ TakeConnection(c)

(* Every coroutine runs on, and the pool serves those that wait in turn.   *)
Fairness ==
    \A c \in Calls : WF_vars(Proceed(c)) /\ SF_vars(TakeConnection(c))

Spec == Init /\ [][Next]_vars
FairSpec == Spec /\ Fairness

-----------------------------------------------------------------------------
CallsOf(t) == {c \in Calls : TenantOf[c] = t}

(* Every connection is in the pool or held by the coroutines that took it: *)
(* no path through check, _create_wallet, debit_after_call and the top-up  *)
(* endpoint, an exception that unwinds two connections included, leaks one *)
(* or returns it twice.                                                    *)
PoolConserved ==
    idle + Cardinality(At(HoldOne)) + Cardinality(At(HoldTwo)) = PoolSize

(* Calls are let through on a balance that others are still to be charged  *)
(* against.  However many calls follow each other, the overdraft this      *)
(* leaves is at most a charge for each call that can be in flight at once, *)
(* less those that still are.  (Top-ups are not validated: what negative   *)
(* ones took since the wallet was last not below zero comes on top.)       *)
OverdraftBounded ==
    \A t \in Tenants : HasWallet(t) =>
        balance[t] >= - MaxCharge *
            (Cardinality(Slots) - Cardinality(CallsOf(t) \cap At(InFlight)))
            - withdrawn[t]

(* Whoever waits for a connection does so while one is idle or is held by  *)
(* a coroutine that will give it back without waiting for another.         *)
SomeoneCanGiveBack ==
    At(Waiting) # {} => idle > 0 \/ At(HoldOne \ Waiting) # {}

(* Every coroutine that asks for a connection gets past it.                *)
WaitersProceed ==
    \A c \in Calls : pc[c] \in Waiting ~> pc[c] \in Ended \cup {"admitted"}

(* wallet_gate.py:29 (check): a tenant without a wallet gets one, unless   *)
(* the check fails with an error.                                          *)
MissingWalletIsCreated ==
    \A c \in Calls : pc[c] = "wait_create" ~> HasWallet(TenantOf[c]) \/ pc[c] = "failed"
=============================================================================
