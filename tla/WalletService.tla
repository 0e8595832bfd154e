--------------------------- MODULE WalletService ---------------------------
(***************************************************************************)
(* WalletService (src/services/wallet.py): concurrent calls of debit,      *)
(* credit and grant_monthly, each a PostgreSQL transaction that locks the  *)
(* tenant's row with SELECT ... FOR UPDATE, computes in Python from what   *)
(* it read, writes the new balance back and inserts a ledger entry.  A     *)
(* call is a process: every await is a step of its own, and before each    *)
(* one the connection can be lost, which rolls the transaction back; at    *)
(* the commit the acknowledgement alone can be lost.                       *)
(***************************************************************************)
EXTENDS Money, Sequences

CONSTANTS
    Tenants,
    Calls,           \* the requests served, each made once
    NoRow,           \* what SELECT finds for a tenant without a wallet
    NoCall,          \* the holder of a free row lock
    OpeningRows,     \* [Tenants -> Rows \cup {NoRow}]: the table at the start
    Costs,           \* costs of LLM calls, in micros
    Credits,         \* amounts of top-ups, in micros: never validated
    BalanceLimit,    \* NUMERIC(12,4) holds |x| < BalanceLimit quanta
    AppBypassesRls,  \* the database role is exempt from row-level security
    Amounts          \* postings of the abstract ledger, in quanta

Rows == [balance : Int, monthly_grant : Nat, markup_rate : Nat, is_hard_stop : BOOLEAN]

ASSUME OpeningAssumption == OpeningRows \in [Tenants -> Rows \cup {NoRow}]
ASSUME NoRowAssumption == NoRow \notin Rows
ASSUME NoCallAssumption == NoCall \notin Calls
ASSUME CostsAssumption == Costs \subseteq Nat
ASSUME CreditsAssumption == Credits \subseteq Int
ASSUME LimitAssumption == BalanceLimit \in Nat
ASSUME RlsAssumption == AppBypassesRls \in BOOLEAN

VARIABLES
    row,       \* [Tenants -> committed tenant_wallets row or NoRow]
    entries,   \* [Tenants -> Seq of committed credit_transactions rows]
    lock,      \* [Tenants -> the call whose transaction locks the row]
    call,      \* [Calls -> the coroutine's local state]
    wiped      \* history: [Tenants -> ledger lengths at which an operator
               \* overwrote the balance]

vars == <<row, entries, lock, call, wiped>>

-----------------------------------------------------------------------------
(* The coroutine's locals.  amount is the quantized cost of a debit (in    *)
(* quanta) or what a credit adds (in micros); read is the locked row;      *)
(* after and change are the values written and not yet committed.          *)
Pending == {"grant", "select", "locked", "updated", "inserted"}
Holding == {"locked", "updated", "inserted"}

CallState ==
    [pc : {"new", "returned"} \cup Pending,
     kind : {"debit", "credit", "grant"}, tenant : Tenants, amount : Int,
     read : Rows \cup {NoRow}, after : Int, change : Int,
     result : {"pending", "ok", "insufficient", "no_wallet", "zero", "error"}]

Entries == [by : Calls, kind : {"debit", "credit", "grant"}, amount : Int, after : Int]

TypeOK ==
    /\ row \in [Tenants -> Rows \cup {NoRow}]
    /\ entries \in [Tenants -> Seq(Entries)]
    /\ lock \in [Tenants -> Calls \cup {NoCall}]
    /\ call \in [Calls -> CallState]
    /\ wiped \in [Tenants -> SUBSET Nat]

Init ==
    /\ row = OpeningRows
    /\ entries = [t \in Tenants |-> <<>>]
    /\ lock = [t \in Tenants |-> NoCall]
    /\ call \in [Calls -> {[pc |-> "new", kind |-> "credit", tenant |-> t, amount |-> 0,
                            read |-> NoRow, after |-> 0, change |-> 0,
                            result |-> "pending"] : t \in Tenants}]
    /\ wiped = [t \in Tenants |-> {}]

-----------------------------------------------------------------------------
(* The service never sets app.current_tenant, so under a role that the     *)
(* policy of migration 007 applies to, no row is visible to it.  (On a     *)
(* connection on which the setting was once made and has ended it is the   *)
(* empty string, and its cast to UUID fails: LoseConnection stands for     *)
(* that too.)                                                              *)
Visible(t) == row[t] # NoRow /\ AppBypassesRls

(* Mutation: a transaction ends and its lock stays.                        *)
UnlockNothing(c) == UNCHANGED lock

(* The lock a call's transaction holds goes with the transaction.          *)
Unlock(c) == lock' = [t \in Tenants |-> IF lock[t] = c THEN NoCall ELSE lock[t]]

Become(c, state) == call' = [call EXCEPT ![c] = state]

Return(c, result) ==
    Become(c, [call[c] EXCEPT !.pc = "returned", !.result = result])

(* The balance an open transaction is about to write, in micros.           *)
Delta(s) == IF s.kind = "debit"
            THEN - Quantum * HalfEven(s.amount * s.read.markup_rate, 100)
            ELSE s.amount

NewBalance(s) == Quantum * s.read.balance + Delta(s)

Fits(n) == Abs(n) < BalanceLimit

(* Mutation: the funds are tested before the charge is taken off.          *)
RefusedOnOldBalance(s) ==
    s.kind = "debit" /\ s.read.is_hard_stop /\ s.read.balance < 0

Refused(s) ==
    s.kind = "debit" /\ s.read.is_hard_stop /\ NewBalance(s) < 0

-----------------------------------------------------------------------------
Debit(c, cost) ==
    /\ call[c].pc = "new"
    /\ Become(c, [call[c] EXCEPT !.pc = "select", !.kind = "debit",
                                 !.amount = Quantize(cost)])
    /\ UNCHANGED <<row, entries, lock, wiped>>

Credit(c, amount) ==
    /\ call[c].pc = "new"
    /\ Become(c, [call[c] EXCEPT !.pc = "select", !.kind = "credit",
                                 !.amount = amount])
    /\ UNCHANGED <<row, entries, lock, wiped>>

GrantMonthly(c) ==
    /\ call[c].pc = "new"
    /\ Become(c, [call[c] EXCEPT !.pc = "grant", !.kind = "grant"])
    /\ UNCHANGED <<row, entries, lock, wiped>>

(* grant_monthly reads the grant before, and outside, credit's transaction. *)
ReadGrant(c) ==
    LET t == call[c].tenant IN
    /\ call[c].pc = "grant"
    /\ \/ /\ Visible(t) => row[t].monthly_grant = 0
          /\ Return(c, "zero")
       \/ /\ Visible(t) /\ row[t].monthly_grant # 0
          /\ Become(c, [call[c] EXCEPT !.pc = "select",
                                       !.amount = Quantum * row[t].monthly_grant])
    /\ UNCHANGED <<row, entries, lock, wiped>>

NotFound(c) ==
    /\ call[c].pc = "select"
    /\ ~Visible(call[c].tenant)
    /\ Return(c, "no_wallet")
    /\ UNCHANGED <<row, entries, lock, wiped>>

(* Mutation: a plain SELECT, which waits for nobody.                       *)
SelectWithoutLock(c) ==
    LET t == call[c].tenant IN
    /\ call[c].pc = "select" /\ Visible(t)
    /\ lock' = [lock EXCEPT ![t] = c]
    /\ Become(c, [call[c] EXCEPT !.pc = "locked", !.read = row[t]])
    /\ UNCHANGED <<row, entries, wiped>>

(* Mutation: a column is left out of the SELECT.                           *)
SelectTooFewColumns(c) ==
    LET t == call[c].tenant IN
    /\ call[c].pc = "select" /\ Visible(t) /\ lock[t] = NoCall
    /\ lock' = [lock EXCEPT ![t] = c]
    /\ Become(c, [call[c] EXCEPT !.pc = "locked",
           !.read = [balance |-> row[t].balance, markup_rate |-> row[t].markup_rate]])
    /\ UNCHANGED <<row, entries, wiped>>

SelectForUpdate(c) ==
    LET t == call[c].tenant IN
    /\ call[c].pc = "select"
    /\ Visible(t) /\ lock[t] = NoCall
    /\ lock' = [lock EXCEPT ![t] = c]
    /\ Become(c, [call[c] EXCEPT !.pc = "locked", !.read = row[t]])
    /\ UNCHANGED <<row, entries, wiped>>

RefuseDebit(c) ==
    /\ call[c].pc = "locked" /\ Refused(call[c])
    /\ Return(c, "insufficient")
    /\ Unlock(c)
    /\ UNCHANGED <<row, entries, wiped>>

(* Mutation: no transaction around UPDATE and INSERT.                      *)
UpdateOutsideTransaction(c) ==
    LET t == call[c].tenant IN
    /\ call[c].pc = "locked" /\ ~Refused(call[c])
    /\ \E n \in Stored(NewBalance(call[c])) :
           /\ Fits(n)
           /\ row' = [row EXCEPT ![t] = [@ EXCEPT !.balance = n]]
           /\ Become(c, [call[c] EXCEPT !.pc = "updated", !.after = n])
    /\ UNCHANGED <<entries, lock, wiped>>

UpdateBalance(c) ==
    /\ call[c].pc = "locked" /\ ~Refused(call[c])
    /\ \E n \in Stored(NewBalance(call[c])) :
           /\ Fits(n)
           /\ Become(c, [call[c] EXCEPT !.pc = "updated", !.after = n])
    /\ UNCHANGED <<row, entries, lock, wiped>>

InsertEntry(c) ==
    /\ call[c].pc = "updated"
    /\ \E n \in Stored(Delta(call[c])) :
           /\ Fits(n)
           /\ Become(c, [call[c] EXCEPT !.pc = "inserted", !.change = n])
    /\ UNCHANGED <<row, entries, lock, wiped>>

(* A value too large for its column: the statement fails and the           *)
(* transaction rolls back.                                                 *)
Overflow(c) ==
    /\ \/ /\ call[c].pc = "locked" /\ ~Refused(call[c])
          /\ \A n \in Stored(NewBalance(call[c])) : ~Fits(n)
       \/ /\ call[c].pc = "updated"
          /\ \A n \in Stored(Delta(call[c])) : ~Fits(n)
    /\ Return(c, "error")
    /\ Unlock(c)
    /\ UNCHANGED <<row, entries, wiped>>

(* COMMIT publishes the row and the entry together and frees the lock; the *)
(* caller is told so, or loses the connection first.                       *)
Commit(c) ==
    LET s == call[c] IN
    /\ s.pc = "inserted"
    /\ row' = [row EXCEPT ![s.tenant] = [@ EXCEPT !.balance = s.after]]
    /\ entries' = [entries EXCEPT ![s.tenant] = Append(@,
                      [by |-> c, kind |-> s.kind, amount |-> s.change, after |-> s.after])]
    /\ Unlock(c)
    /\ Return(c, "ok") \/ Return(c, "error")
    /\ UNCHANGED wiped

(* Mutation: the caller of a lost transaction is told that it succeeded.   *)
LoseConnectionSilently(c) ==
    /\ call[c].pc \in Pending
    /\ Return(c, "ok")
    /\ Unlock(c)
    /\ UNCHANGED <<row, entries, wiped>>

(* The connection or the process is lost, or command_timeout expires.      *)
LoseConnection(c) ==
    /\ call[c].pc \in Pending
    /\ Return(c, "error")
    /\ Unlock(c)
    /\ UNCHANGED <<row, entries, wiped>>

-----------------------------------------------------------------------------
(* WalletGate._create_wallet: INSERT ... ON CONFLICT DO NOTHING, with the  *)
(* column defaults of migration 007.                                       *)
CreateWallet(t) ==
    /\ AppBypassesRls
    /\ row[t] = NoRow
    /\ row' = [row EXCEPT ![t] = [balance |-> 0, monthly_grant |-> 0,
                                  markup_rate |-> 150, is_hard_stop |-> TRUE]]
    /\ UNCHANGED <<entries, lock, call, wiped>>

(* The runbook's statement to block a tenant, run by hand: it waits for    *)
(* the row lock like any UPDATE, and writes no ledger entry.               *)
BlockTenant(t) ==
    /\ row[t] # NoRow /\ lock[t] = NoCall
    /\ row' = [row EXCEPT ![t] = [@ EXCEPT !.balance = 0, !.is_hard_stop = TRUE]]
    /\ wiped' = [wiped EXCEPT ![t] = @ \cup {Len(entries[t])}]
    /\ UNCHANGED <<entries, lock, call>>

Request(c) ==
    \/ \E cost \in Costs : Debit(c, cost)
    \/ \E amount \in Credits : Credit(c, amount)
    \/ GrantMonthly(c)

Proceed(c) ==
    \/ ReadGrant(c) \/ NotFound(c) \/ SelectForUpdate(c) \/ RefuseDebit(c)
    \/ UpdateBalance(c) \/ InsertEntry(c) \/ Overflow(c) \/ Commit(c)

Next ==
    \/ \E c \in Calls : Request(c) \/ Proceed(c) \/ LoseConnection(c)
    \/ \E t \in Tenants : CreateWallet(t) \/ BlockTenant(t)

(* The event loop runs every coroutine that can run, and PostgreSQL queues *)
(* the waiters of a row lock, so a call that waits gets the row in turn.   *)
Fairness == \A c \in Calls : WF_vars(Proceed(c)) /\ SF_vars(SelectForUpdate(c))

Spec == Init /\ [][Next]_vars
FairSpec == Spec /\ Fairness

-----------------------------------------------------------------------------
(* The balance of a tenant once its first n ledger entries are posted: what *)
(* the last of them recorded, unless an operator has overwritten it since.  *)
OpeningBalance(t) == IF OpeningRows[t] = NoRow THEN 0 ELSE OpeningRows[t].balance

BalanceAfter(t, n) ==
    IF n \in wiped[t] THEN 0
    ELSE IF n = 0 THEN OpeningBalance(t) ELSE entries[t][n].after

AddsUp(kind, before, amount, after) ==
    IF kind = "debit" THEN after = before + amount
                      ELSE after - before - amount \in {-1, 0, 1}

(* The wallet's balance is the balance_after of its newest ledger entry:    *)
(* UPDATE and INSERT are published together or not at all.                  *)
LedgerMatchesBalance ==
    \A t \in Tenants : row[t] # NoRow => row[t].balance = BalanceAfter(t, Len(entries[t]))

(* No update is lost: each entry was computed from the balance the entry    *)
(* before it left, so balance_after follows from it by the entry's amount,  *)
(* exactly for a debit and within the rounding of the two NUMERIC columns   *)
(* for a credit.                                                            *)
LedgerAddsUp ==
    \A t \in Tenants : \A i \in 1..Len(entries[t]) :
        LET e == entries[t][i]
        IN  AddsUp(e.kind, BalanceAfter(t, i - 1), e.amount, e.after)

(* No call is posted twice, to another tenant's wallet or as another kind;  *)
(* a call told "ok" has its entry, one refused has none, and only a call    *)
(* that ended in an error leaves its caller in doubt.                       *)
ResultsAreTrue ==
    /\ \A t, u \in Tenants : \A i \in 1..Len(entries[t]), j \in 1..Len(entries[u]) :
           entries[t][i].by = entries[u][j].by => t = u /\ i = j
    /\ \A t \in Tenants : \A i \in 1..Len(entries[t]) :
           LET c == entries[t][i].by
           IN  /\ call[c].tenant = t /\ call[c].kind = entries[t][i].kind
               /\ call[c].result \in {"ok", "error"}
    /\ \A c \in Calls : call[c].result = "ok" =>
           \E i \in 1..Len(entries[call[c].tenant]) :
               entries[call[c].tenant][i].by = c

(* Under is_hard_stop no debit leaves the wallet below zero, whatever       *)
(* operators and other calls do between the check and the commit.           *)
HardStopHolds ==
    [][\A t \in Tenants :
          /\ Len(entries'[t]) > Len(entries[t])
          /\ entries'[t][Len(entries'[t])].kind = "debit"
          /\ row[t].is_hard_stop
          => row'[t].balance >= 0]_vars

(* Every request is answered: no transaction waits for a lock for ever.     *)
EveryCallReturns ==
    \A c \in Calls : call[c].pc \in Pending ~> call[c].pc = "returned"

(* The transactions implement the ledger of WalletLedger: every call takes  *)
(* effect at its commit, in one step, or never.                             *)
Ledger == INSTANCE WalletLedger WITH
    NoWallet <- NoRow,
    Opening <- [t \in Tenants |-> IF OpeningRows[t] = NoRow THEN NoRow
                                  ELSE OpeningRows[t].balance],
    balance <- [t \in Tenants |-> IF row[t] = NoRow THEN NoRow ELSE row[t].balance],
    hard <- [t \in Tenants |-> row[t] # NoRow /\ row[t].is_hard_stop],
    outcome <- [c \in Calls |-> call[c].result]

ImplementsLedger == Ledger!LedgerSpec
=============================================================================
