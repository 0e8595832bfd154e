------------------------ MODULE WalletService_proofs ------------------------
(***************************************************************************)
(* That WalletService keeps its ledger, for any tenants, calls, amounts    *)
(* and opening rows.  The inductive invariant Inv adds to the properties   *)
(* of WalletService what an open transaction has staged (computed from the *)
(* row it locked) and what holds before a wallet exists.  That waits for   *)
(* locks form no circle, and that the transactions implement WalletLedger, *)
(* follows in parts of their own.                                          *)
(***************************************************************************)
EXTENDS WalletService, TLAPS, SequenceTheorems

(* An open transaction holds its row's lock, and what it read under the     *)
(* lock is still what the table holds.                                      *)
LockedReadIsCurrent ==
    \A c \in Calls : call[c].pc \in Holding =>
        /\ lock[call[c].tenant] = c
        /\ call[c].read = row[call[c].tenant]

(* What a transaction has staged comes from the row it read.               *)
StagedFromRead ==
    \A c \in Calls : LET s == call[c] IN
        /\ s.pc \in Holding => s.read # NoRow
        /\ s.pc \in {"updated", "inserted"} =>
               ~Refused(s) /\ s.after \in Stored(NewBalance(s))
        /\ s.pc = "inserted" => s.change \in Stored(Delta(s))

PendingUntilReturned ==
    \A c \in Calls : call[c].pc # "returned" => call[c].result = "pending"

HistoryOK ==
    \A t \in Tenants :
        /\ wiped[t] \subseteq 0..Len(entries[t])
        /\ row[t] = NoRow =>
               entries[t] = <<>> /\ wiped[t] = {} /\ OpeningRows[t] = NoRow

Inv ==
    /\ TypeOK
    /\ LockedReadIsCurrent
    /\ StagedFromRead
    /\ PendingUntilReturned
    /\ HistoryOK
    /\ LedgerMatchesBalance
    /\ LedgerAddsUp
    /\ ResultsAreTrue

-----------------------------------------------------------------------------
(* Arithmetic.                                                             *)

(* Rounding an integer gives an integer.                                   *)
LEMMA HalfEvenInt == \A x \in Int : HalfEven(x, 100) \in Int
BY DEF HalfEven

(* A stored value is within half a quantum of the value written.           *)
LEMMA StoredIsNear ==
    \A x \in Int : \A n \in Stored(x) :
        n \in Int /\ 100 * n - x <= 50 /\ x - 100 * n <= 50
BY DEF Stored, Quantum, Abs

(* What a transaction adds is an integer, and for a debit a whole number   *)
(* of quanta.                                                              *)
LEMMA DeltaInt ==
    ASSUME NEW s \in CallState, s.read # NoRow
    PROVE  /\ Delta(s) \in Int
           /\ NewBalance(s) \in Int
           /\ s.read.balance \in Int
           /\ s.kind = "debit" => \E k \in Int : Delta(s) = 100 * k
<1>1. s.read \in Rows
  BY DEF CallState
<1>2. s.read.balance \in Int /\ s.read.markup_rate \in Int /\ s.amount \in Int
  BY <1>1 DEF CallState, Rows
<1>3. s.amount * s.read.markup_rate \in Int
  BY <1>2
<1> DEFINE charge == HalfEven(s.amount * s.read.markup_rate, 100)
<1>4. charge \in Int
  BY <1>3, HalfEvenInt
<1>5. s.kind = "debit" => Delta(s) = 100 * (- charge)
  <2>1. s.kind = "debit" => Delta(s) = - Quantum * charge
    BY DEF Delta
  <2> HIDE DEF charge
  <2> QED
    BY <1>4, <2>1 DEF Quantum
<1>6. Delta(s) \in Int
  <2>1. s.kind # "debit" => Delta(s) = s.amount
    BY DEF Delta
  <2> HIDE DEF charge
  <2> QED
    BY <1>2, <1>4, <1>5, <2>1
<1>7. NewBalance(s) \in Int
  BY <1>2, <1>6 DEF NewBalance, Quantum
<1>8. - charge \in Int
  <2> HIDE DEF charge
  <2> QED
    BY <1>4
<1> QED
  BY <1>2, <1>5, <1>6, <1>7, <1>8

(* What the two statements of a transaction store is an integer.           *)
LEMMA StoredInt ==
    ASSUME NEW s \in CallState, s.read # NoRow, NEW n,
           n \in Stored(NewBalance(s)) \cup Stored(Delta(s))
    PROVE  n \in Int
BY DeltaInt, StoredIsNear

(* The two writes of a transaction agree: the balance moves by the amount  *)
(* of the entry, up to the rounding of a credit.                           *)
LEMMA StagedAddsUp ==
    ASSUME NEW s \in CallState, s.read # NoRow,
           s.after \in Stored(NewBalance(s)), s.change \in Stored(Delta(s))
    PROVE  AddsUp(s.kind, s.read.balance, s.change, s.after)
<1> DEFINE b == s.read.balance
           d == Delta(s)
<1>1. b \in Int /\ d \in Int /\ NewBalance(s) = 100 * b + d
  BY DeltaInt DEF NewBalance, Quantum
<1>2. s.after \in Int /\ s.change \in Int
  BY <1>1, DeltaInt, StoredIsNear
<1>3. /\ 100 * s.after - (100 * b + d) <= 50 /\ (100 * b + d) - 100 * s.after <= 50
      /\ 100 * s.change - d <= 50 /\ d - 100 * s.change <= 50
  BY <1>1, DeltaInt, StoredIsNear
<1> HIDE DEF b, d
<1>4. CASE s.kind = "debit"
  <2>1. PICK k \in Int : d = 100 * k
    BY <1>4, DeltaInt DEF d
  <2>2. s.change = k /\ s.after = b + k
    BY <1>1, <1>2, <1>3, <2>1
  <2> QED
    BY <1>4, <2>2 DEF AddsUp, b
<1>5. CASE s.kind # "debit"
  <2> DEFINE x == s.after - b - s.change
  <2>1. x \in Int /\ 100 * x <= 100 /\ -100 <= 100 * x
    BY <1>1, <1>2, <1>3
  <2>2. \A y \in Int : 100 * y <= 100 /\ -100 <= 100 * y => y \in {-1, 0, 1}
    OBVIOUS
  <2>3. x \in {-1, 0, 1}
    BY <2>1, <2>2
  <2> QED
    BY <1>5, <2>3 DEF AddsUp, b
<1> QED
  BY <1>4, <1>5

(* A debit that is not refused leaves a hard-stopped wallet at zero or     *)
(* above.                                                                  *)
LEMMA UnrefusedCovers ==
    ASSUME NEW s \in CallState, s.read # NoRow, s.kind = "debit",
           s.read.is_hard_stop, ~Refused(s), s.after \in Stored(NewBalance(s))
    PROVE  s.after >= 0
<1>1. NewBalance(s) \in Int /\ NewBalance(s) >= 0
  BY DeltaInt DEF Refused
<1>2. s.after \in Int /\ NewBalance(s) - 100 * s.after <= 50
  BY <1>1, StoredIsNear
<1> QED
  BY <1>1, <1>2

-----------------------------------------------------------------------------
(* Type correctness.                                                       *)

(* A call moves to a state that is a call state.                            *)
LEMMA BecomeTyped ==
    ASSUME call \in [Calls -> CallState], NEW c \in Calls, NEW s \in CallState, Become(c, s)
    PROVE  call' \in [Calls -> CallState]
BY DEF Become

(* Returning is typed, and so is giving up the locks.                      *)
LEMMA ReturnTyped ==
    ASSUME TypeOK, NEW c \in Calls,
           NEW r \in {"pending", "ok", "insufficient", "no_wallet", "zero", "error"},
           Return(c, r)
    PROVE  call' \in [Calls -> CallState]
<1>1. [call[c] EXCEPT !.pc = "returned", !.result = r] \in CallState
  BY DEF TypeOK, CallState
<1> QED
  BY <1>1, BecomeTyped DEF Return, TypeOK

(* Ending a transaction leaves every lock with a call or with nobody.      *)
LEMMA UnlockTyped ==
    ASSUME TypeOK, NEW c \in Calls, Unlock(c)
    PROVE  lock' \in [Tenants -> Calls \cup {NoCall}]
BY DEF Unlock, TypeOK

(* Every variable, the staged values included, keeps its type.             *)
LEMMA TypeStep == Inv /\ [Next]_vars => TypeOK'
<1> SUFFICES ASSUME Inv, [Next]_vars PROVE TypeOK'
  OBVIOUS
<1> TypeOK
  BY DEF Inv
<1>r. ASSUME NEW c \in Calls, call[c].pc \in Holding
      PROVE  /\ call[c].read # NoRow
             /\ call[c].read = row[call[c].tenant]
  BY <1>r DEF Inv, StagedFromRead, LockedReadIsCurrent
<1>0. /\ row \in [Tenants -> Rows \cup {NoRow}]
      /\ entries \in [Tenants -> Seq(Entries)]
      /\ lock \in [Tenants -> Calls \cup {NoCall}]
      /\ call \in [Calls -> CallState]
      /\ wiped \in [Tenants -> SUBSET Nat]
  BY DEF TypeOK
<1>1. ASSUME NEW c \in Calls, Request(c) PROVE TypeOK'
  <2>0. call[c] \in CallState
    BY <1>0
  <2>1. ASSUME NEW cost \in Costs, Debit(c, cost) PROVE TypeOK'
    <3>1. Quantize(cost) \in Int
      BY HalfEvenInt, CostsAssumption DEF Quantize, Quantum
    <3>2. [call[c] EXCEPT !.pc = "select", !.kind = "debit",
                          !.amount = Quantize(cost)] \in CallState
      BY <2>0, <3>1 DEF CallState, Pending
    <3> QED
      BY <1>0, <2>1, <3>2, BecomeTyped DEF Debit, TypeOK
  <2>2. ASSUME NEW amount \in Credits, Credit(c, amount) PROVE TypeOK'
    <3>1. [call[c] EXCEPT !.pc = "select", !.kind = "credit",
                          !.amount = amount] \in CallState
      BY <2>0, CreditsAssumption DEF CallState, Pending
    <3> QED
      BY <1>0, <2>2, <3>1, BecomeTyped DEF Credit, TypeOK
  <2>3. CASE GrantMonthly(c)
    <3>1. [call[c] EXCEPT !.pc = "grant", !.kind = "grant"] \in CallState
      BY <2>0 DEF CallState, Pending
    <3> QED
      BY <1>0, <2>3, <3>1, BecomeTyped DEF GrantMonthly, TypeOK
  <2> QED
    BY <1>1, <2>1, <2>2, <2>3 DEF Request
<1>2. ASSUME NEW c \in Calls, ReadGrant(c) PROVE TypeOK'
  <2> DEFINE t == call[c].tenant
  <2>0. call[c] \in CallState /\ t \in Tenants
    BY <1>0 DEF CallState
  <2>1. CASE Return(c, "zero")
    BY <1>0, <1>2, <2>1, ReturnTyped DEF ReadGrant, TypeOK
  <2>2. CASE Visible(t) /\ Become(c, [call[c] EXCEPT !.pc = "select",
                                        !.amount = Quantum * row[t].monthly_grant])
    <3>1. Quantum * row[t].monthly_grant \in Int
      BY <1>0, <2>0, <2>2 DEF Visible, Rows, Quantum
    <3>2. [call[c] EXCEPT !.pc = "select",
                          !.amount = Quantum * row[t].monthly_grant] \in CallState
      BY <2>0, <3>1 DEF CallState, Pending
    <3> QED
      BY <1>0, <1>2, <2>2, <3>2, BecomeTyped DEF ReadGrant, TypeOK
  <2> QED
    BY <1>2, <2>1, <2>2 DEF ReadGrant
<1>3. ASSUME NEW c \in Calls, NotFound(c) PROVE TypeOK'
  BY <1>0, <1>3, ReturnTyped DEF NotFound, TypeOK
<1>4. ASSUME NEW c \in Calls, SelectForUpdate(c) PROVE TypeOK'
  <2>1. call[c] \in CallState /\ call[c].tenant \in Tenants
    BY <1>0 DEF CallState
  <2>2. [call[c] EXCEPT !.pc = "locked", !.read = row[call[c].tenant]] \in CallState
    BY <1>0, <2>1 DEF CallState, Pending
  <2> QED
    BY <1>0, <1>4, <2>1, <2>2, BecomeTyped DEF SelectForUpdate, TypeOK
<1>5. ASSUME NEW c \in Calls, RefuseDebit(c) PROVE TypeOK'
  BY <1>0, <1>5, ReturnTyped, UnlockTyped DEF RefuseDebit, TypeOK
<1>6. ASSUME NEW c \in Calls, UpdateBalance(c) PROVE TypeOK'
  <2>1. PICK n \in Stored(NewBalance(call[c])) :
            Fits(n) /\ Become(c, [call[c] EXCEPT !.pc = "updated", !.after = n])
    BY <1>6 DEF UpdateBalance
  <2>2. call[c] \in CallState
    BY <1>0
  <2>3. n \in Int
    BY <1>6, <1>r, <2>1, <2>2, StoredInt DEF UpdateBalance, Holding
  <2>4. [call[c] EXCEPT !.pc = "updated", !.after = n] \in CallState
    BY <2>2, <2>3 DEF CallState, Pending
  <2> QED
    BY <1>0, <1>6, <2>1, <2>4, BecomeTyped DEF UpdateBalance, TypeOK
<1>7. ASSUME NEW c \in Calls, InsertEntry(c) PROVE TypeOK'
  <2>1. PICK n \in Stored(Delta(call[c])) :
            Fits(n) /\ Become(c, [call[c] EXCEPT !.pc = "inserted", !.change = n])
    BY <1>7 DEF InsertEntry
  <2>2. call[c] \in CallState
    BY <1>0
  <2>3. n \in Int
    BY <1>7, <1>r, <2>1, <2>2, StoredInt DEF InsertEntry, Holding
  <2>4. [call[c] EXCEPT !.pc = "inserted", !.change = n] \in CallState
    BY <2>2, <2>3 DEF CallState, Pending
  <2> QED
    BY <1>0, <1>7, <2>1, <2>4, BecomeTyped DEF InsertEntry, TypeOK
<1>8. ASSUME NEW c \in Calls, Overflow(c) PROVE TypeOK'
  BY <1>0, <1>8, ReturnTyped, UnlockTyped DEF Overflow, TypeOK
<1>9. ASSUME NEW c \in Calls, Commit(c) PROVE TypeOK'
  <2> DEFINE s == call[c]
             e == [by |-> c, kind |-> s.kind, amount |-> s.change, after |-> s.after]
  <2>1. s \in CallState /\ s.tenant \in Tenants
    BY <1>0 DEF CallState
  <2>2. row[s.tenant] \in Rows
    BY <1>0, <1>9, <1>r, <2>1 DEF Commit, Holding
  <2>3. [row[s.tenant] EXCEPT !.balance = s.after] \in Rows
    BY <2>1, <2>2 DEF CallState, Rows
  <2>4. e \in Entries
    BY <2>1 DEF CallState, Entries
  <2>5. Append(entries[s.tenant], e) \in Seq(Entries)
    BY <1>0, <2>1, <2>4, AppendProperties
  <2>6. row' \in [Tenants -> Rows \cup {NoRow}]
    BY <1>0, <1>9, <2>3 DEF Commit
  <2>7. entries' \in [Tenants -> Seq(Entries)]
    BY <1>0, <1>9, <2>5 DEF Commit
  <2>8. call' \in [Calls -> CallState]
    BY <1>9, ReturnTyped DEF Commit
  <2> QED
    BY <1>0, <1>9, <2>6, <2>7, <2>8, UnlockTyped DEF Commit, TypeOK
<1>10. ASSUME NEW c \in Calls, LoseConnection(c) PROVE TypeOK'
  BY <1>0, <1>10, ReturnTyped, UnlockTyped DEF LoseConnection, TypeOK
<1>11. ASSUME NEW t \in Tenants, CreateWallet(t) PROVE TypeOK'
  BY <1>0, <1>11 DEF CreateWallet, Rows, TypeOK
<1>12. ASSUME NEW t \in Tenants, BlockTenant(t) PROVE TypeOK'
  <2>0. row[t] \in Rows
    BY <1>0, <1>12 DEF BlockTenant
  <2>1. [row[t] EXCEPT !.balance = 0] \in Rows
    BY <2>0 DEF Rows
  <2>3. [[row[t] EXCEPT !.balance = 0] EXCEPT !.is_hard_stop = TRUE] \in Rows
    BY <2>1, Zenon DEF Rows
  <2>2. Len(entries[t]) \in Nat
    BY <1>0, LenProperties
  <2> QED
    BY <1>0, <1>12, <2>2, <2>3 DEF BlockTenant, TypeOK
<1>13. CASE UNCHANGED vars
  BY <1>0, <1>13 DEF vars, TypeOK
<1> QED
  BY <1>1, <1>2, <1>3, <1>4, <1>5, <1>6, <1>7, <1>8, <1>9, <1>10, <1>11, <1>12, <1>13
     DEF Next, Proceed

-----------------------------------------------------------------------------
(* Locks and staged values.                                                *)

(* A step of call c that leaves the tables alone: only c's own state       *)
(* changes, and no other call gains or loses a lock.                       *)
Local(c) ==
    /\ call' = [call EXCEPT ![c] = call'[c]]
    /\ UNCHANGED <<row, entries, wiped>>
    /\ \A t \in Tenants : lock[t] \in Calls \ {c} => lock'[t] = lock[t]

KeepsToItself(c) ==
    /\ Local(c)
    /\ call[c].pc # "returned"
    /\ call'[c].tenant = call[c].tenant
    /\ call'[c].result # "ok"
    /\ call'[c].pc # "returned" => call'[c].result = call[c].result

(* Every step of a call but its commit is local, and keeps the request.    *)
LEMMA LocalStep ==
    ASSUME Inv, TypeOK', NEW c \in Calls,
           Request(c) \/ (Proceed(c) /\ ~Commit(c)) \/ LoseConnection(c)
    PROVE  KeepsToItself(c)
<1> USE DEF KeepsToItself
<1>0. /\ call \in [Calls -> CallState] /\ call' \in [Calls -> CallState]
      /\ lock \in [Tenants -> Calls \cup {NoCall}]
      /\ call[c] \in CallState
      /\ call[c].pc # "returned" => call[c].result = "pending"
  BY DEF Inv, TypeOK, PendingUntilReturned
<1>1. CASE Request(c)
  <2>1. ASSUME NEW cost \in Costs, Debit(c, cost) PROVE KeepsToItself(c)
    BY <1>0, <2>1 DEF Debit, Become, Local, CallState
  <2>2. ASSUME NEW amount \in Credits, Credit(c, amount) PROVE KeepsToItself(c)
    BY <1>0, <2>2 DEF Credit, Become, Local, CallState
  <2>3. CASE GrantMonthly(c)
    BY <1>0, <2>3 DEF GrantMonthly, Become, Local, CallState
  <2> QED
    BY <1>1, <2>1, <2>2, <2>3 DEF Request
<1>2. CASE ReadGrant(c)
  <2>0. call[c].pc = "grant" /\ UNCHANGED <<row, entries, lock, wiped>>
    BY <1>2 DEF ReadGrant
  <2>1. CASE Return(c, "zero")
    BY <1>0, <2>0, <2>1 DEF Return, Become, Local, CallState
  <2>2. ASSUME NEW n, Become(c, [call[c] EXCEPT !.pc = "select", !.amount = n])
        PROVE  KeepsToItself(c)
    BY <1>0, <2>0, <2>2 DEF Become, Local, CallState
  <2> QED
    BY <1>2, <2>1, <2>2 DEF ReadGrant
<1>3. CASE NotFound(c)
  BY <1>0, <1>3 DEF NotFound, Return, Become, Local, CallState
<1>4. CASE SelectForUpdate(c)
  BY <1>0, <1>4, NoCallAssumption DEF SelectForUpdate, Become, Local, CallState
<1>5. CASE RefuseDebit(c)
  BY <1>0, <1>5 DEF RefuseDebit, Return, Become, Unlock, Local, CallState
<1>6. CASE UpdateBalance(c)
  <2>1. PICK n : Become(c, [call[c] EXCEPT !.pc = "updated", !.after = n])
    BY <1>6 DEF UpdateBalance
  <2>2. call[c].pc = "locked" /\ UNCHANGED <<row, entries, lock, wiped>>
    BY <1>6 DEF UpdateBalance
  <2> QED
    BY <1>0, <2>1, <2>2 DEF Become, Local, CallState
<1>7. CASE InsertEntry(c)
  <2>1. PICK n : Become(c, [call[c] EXCEPT !.pc = "inserted", !.change = n])
    BY <1>7 DEF InsertEntry
  <2>2. call[c].pc = "updated" /\ UNCHANGED <<row, entries, lock, wiped>>
    BY <1>7 DEF InsertEntry
  <2> QED
    BY <1>0, <2>1, <2>2 DEF Become, Local, CallState
<1>8. CASE Overflow(c)
  BY <1>0, <1>8 DEF Overflow, Return, Become, Unlock, Local, CallState
<1>9. CASE LoseConnection(c)
  BY <1>0, <1>9 DEF LoseConnection, Pending, Return, Become, Unlock, Local, CallState
<1> QED
  BY <1>1, <1>2, <1>3, <1>4, <1>5, <1>6, <1>7, <1>8, <1>9 DEF Proceed

(* A call that returns is at its end, with its result and its request.     *)
LEMMA Returned ==
    ASSUME call \in [Calls -> CallState], NEW c \in Calls, NEW r, Return(c, r)
    PROVE  /\ call'[c].pc = "returned" /\ call'[c].result = r
           /\ call'[c].tenant = call[c].tenant /\ call'[c].kind = call[c].kind
           /\ \A d \in Calls \ {c} : call'[d] = call[d]
BY DEF Return, Become, CallState

(* What an open transaction stages depends on its request and its read.    *)
LEMMA SameRequestSameDelta ==
    ASSUME NEW s, NEW u, u.kind = s.kind, u.amount = s.amount, u.read = s.read
    PROVE  /\ Delta(u) = Delta(s)
           /\ NewBalance(u) = NewBalance(s)
           /\ Refused(u) = Refused(s)
BY DEF Delta, NewBalance, Refused

(* One call's part of the invariants of open transactions.                 *)
OpenTransactionOK(c) ==
    LET s == call[c] IN
    /\ s.pc \in Holding => /\ lock[s.tenant] = c
                           /\ s.read = row[s.tenant]
                           /\ s.read # NoRow
    /\ s.pc \in {"updated", "inserted"} =>
           ~Refused(s) /\ s.after \in Stored(NewBalance(s))
    /\ s.pc = "inserted" => s.change \in Stored(Delta(s))
    /\ s.pc # "returned" => s.result = "pending"

(* What the invariant says of open transactions, one call at a time.       *)
LEMMA OpenTransactions ==
    (\A c \in Calls : OpenTransactionOK(c))
        <=> LockedReadIsCurrent /\ StagedFromRead /\ PendingUntilReturned
BY Zenon DEF OpenTransactionOK, LockedReadIsCurrent, StagedFromRead, PendingUntilReturned

(* A local step of c leaves the other calls' transactions as they were.    *)
LEMMA OthersKeep ==
    ASSUME Inv, NEW c \in Calls, Local(c), NEW d \in Calls, d # c
    PROVE  OpenTransactionOK(d)'
<1>1. OpenTransactionOK(d)
  BY OpenTransactions DEF Inv
<1>2. call'[d] = call[d] /\ call[d] \in CallState
  BY DEF Local, Inv, TypeOK
<1>3. call[d].tenant \in Tenants
  BY <1>2 DEF CallState
<1>4. lock[call[d].tenant] = d => lock'[call'[d].tenant] = d
  BY <1>2, <1>3 DEF Local
<1> QED
  BY <1>1, <1>2, <1>4 DEF OpenTransactionOK, Local

(* Each step leaves every open transaction with its lock, a current read   *)
(* and staged values computed from that read.                              *)
LEMMA OpenTransactionsStep ==
    Inv /\ TypeOK' /\ [Next]_vars =>
        LockedReadIsCurrent' /\ StagedFromRead' /\ PendingUntilReturned'
<1>p. ((\A c \in Calls : OpenTransactionOK(c))
          <=> LockedReadIsCurrent /\ StagedFromRead /\ PendingUntilReturned)'
  BY OpenTransactions, PTL
<1> SUFFICES ASSUME Inv, TypeOK', [Next]_vars, NEW d \in Calls
             PROVE  OpenTransactionOK(d)'
  BY <1>p, Zenon
<1>0. /\ call \in [Calls -> CallState] /\ call' \in [Calls -> CallState]
      /\ row \in [Tenants -> Rows \cup {NoRow}]
      /\ lock \in [Tenants -> Calls \cup {NoCall}]
      /\ call[d] \in CallState /\ call[d].tenant \in Tenants
  BY DEF Inv, TypeOK, CallState
<1>1. \A c \in Calls : OpenTransactionOK(c)
  BY OpenTransactions DEF Inv
<1>2. ASSUME NEW c \in Calls,
             Request(c) \/ (Proceed(c) /\ ~Commit(c)) \/ LoseConnection(c)
      PROVE  OpenTransactionOK(d)'
  <2>1. KeepsToItself(c)
    BY <1>2, LocalStep
  <2>2. CASE c # d
    BY <2>1, <2>2, OthersKeep DEF KeepsToItself
  <2>3. CASE c = d
    <3>1. OpenTransactionOK(d) /\ (call'[d].pc # "returned" => call'[d].result = "pending")
      BY <1>1, <2>1, <2>3 DEF KeepsToItself, OpenTransactionOK
    <3>2. ASSUME call'[d].pc \notin Holding PROVE OpenTransactionOK(d)'
      BY <3>1, <3>2 DEF OpenTransactionOK, Holding
    <3>3. CASE SelectForUpdate(d)
      BY <1>0, <3>1, <3>3 DEF SelectForUpdate, Become, CallState, Visible, OpenTransactionOK
    <3>4. CASE UpdateBalance(d)
      <4>1. PICK n \in Stored(NewBalance(call[d])) :
                Become(d, [call[d] EXCEPT !.pc = "updated", !.after = n])
        BY <3>4 DEF UpdateBalance
      <4>2. /\ call[d].pc = "locked" /\ ~Refused(call[d])
            /\ UNCHANGED <<row, entries, lock, wiped>>
        BY <3>4 DEF UpdateBalance
      <4>3. /\ call'[d].pc = "updated" /\ call'[d].after = n
            /\ call'[d].kind = call[d].kind /\ call'[d].amount = call[d].amount
            /\ call'[d].read = call[d].read /\ call'[d].tenant = call[d].tenant
        BY <1>0, <4>1 DEF Become, CallState
      <4>4. Refused(call'[d]) = Refused(call[d]) /\ NewBalance(call'[d]) = NewBalance(call[d])
        BY <4>3, SameRequestSameDelta
      <4> QED
        BY <3>1, <4>1, <4>2, <4>3, <4>4 DEF OpenTransactionOK, Holding
    <3>5. CASE InsertEntry(d)
      <4>1. PICK n \in Stored(Delta(call[d])) :
                Become(d, [call[d] EXCEPT !.pc = "inserted", !.change = n])
        BY <3>5 DEF InsertEntry
      <4>2. call[d].pc = "updated" /\ UNCHANGED <<row, entries, lock, wiped>>
        BY <3>5 DEF InsertEntry
      <4>3. /\ call'[d].pc = "inserted" /\ call'[d].change = n
            /\ call'[d].kind = call[d].kind /\ call'[d].amount = call[d].amount
            /\ call'[d].read = call[d].read /\ call'[d].tenant = call[d].tenant
            /\ call'[d].after = call[d].after
        BY <1>0, <4>1 DEF Become, CallState
      <4>4. /\ Refused(call'[d]) = Refused(call[d])
            /\ NewBalance(call'[d]) = NewBalance(call[d])
            /\ Delta(call'[d]) = Delta(call[d])
        BY <4>3, SameRequestSameDelta
      <4> QED
        BY <3>1, <4>1, <4>2, <4>3, <4>4 DEF OpenTransactionOK, Holding
    <3>6. CASE Request(d)
      <4>1. call'[d].pc \in {"select", "grant"}
        <5>1. ASSUME NEW cost \in Costs, Debit(d, cost) PROVE call'[d].pc = "select"
          BY <1>0, <5>1 DEF Debit, Become, CallState
        <5>2. ASSUME NEW amount \in Credits, Credit(d, amount) PROVE call'[d].pc = "select"
          BY <1>0, <5>2 DEF Credit, Become, CallState
        <5>3. GrantMonthly(d) => call'[d].pc = "grant"
          BY <1>0 DEF GrantMonthly, Become, CallState
        <5> QED
          BY <3>6, <5>1, <5>2, <5>3 DEF Request
      <4> QED
        BY <3>2, <4>1 DEF Holding
    <3>7. CASE ReadGrant(d)
      <4>1. call'[d].pc \in {"select", "returned"}
        <5>1. Return(d, "zero") => call'[d].pc = "returned"
          BY <1>0, Returned
        <5>2. ASSUME NEW n, Become(d, [call[d] EXCEPT !.pc = "select", !.amount = n])
              PROVE  call'[d].pc = "select"
          BY <1>0, <5>2 DEF Become, CallState
        <5> QED
          BY <3>7, <5>1, <5>2 DEF ReadGrant
      <4> QED
        BY <3>2, <4>1 DEF Holding
    <3>8. CASE NotFound(d) \/ RefuseDebit(d) \/ Overflow(d) \/ LoseConnection(d)
      <4>1. call'[d].pc = "returned"
        BY <1>0, <3>8, Returned DEF NotFound, RefuseDebit, Overflow, LoseConnection
      <4> QED
        BY <3>2, <4>1 DEF Holding
    <3> QED
      BY <1>2, <2>3, <3>3, <3>4, <3>5, <3>6, <3>7, <3>8 DEF Proceed
  <2> QED
    BY <2>2, <2>3
<1>3. ASSUME NEW c \in Calls, Commit(c) PROVE OpenTransactionOK(d)'
  <2>1. CASE c = d
    <3>1. call'[d].pc = "returned"
      BY <1>0, <1>3, <2>1, Returned DEF Commit
    <3> QED
      BY <3>1 DEF OpenTransactionOK, Holding
  <2>2. CASE c # d
    <3>1. call'[d] = call[d]
      BY <1>0, <1>3, <2>2, Returned DEF Commit
    <3>2. lock[call[c].tenant] = c
      BY <1>1, <1>3 DEF OpenTransactionOK, Commit, Holding
    <3>3. ASSUME call[d].pc \in Holding
          PROVE  /\ row'[call[d].tenant] = row[call[d].tenant]
                 /\ lock'[call[d].tenant] = lock[call[d].tenant]
      <4>1. lock[call[d].tenant] = d
        BY <1>1, <3>3 DEF OpenTransactionOK
      <4>2. call[c].tenant # call[d].tenant
        BY <2>2, <3>2, <4>1
      <4> QED
        BY <1>0, <1>3, <2>2, <4>1, <4>2 DEF Commit, Unlock
    <3> QED
      BY <1>1, <3>1, <3>3 DEF OpenTransactionOK
  <2> QED
    BY <2>1, <2>2
<1>4. ASSUME NEW t \in Tenants, CreateWallet(t) PROVE OpenTransactionOK(d)'
  BY <1>0, <1>1, <1>4 DEF CreateWallet, OpenTransactionOK
<1>5. ASSUME NEW t \in Tenants, BlockTenant(t) PROVE OpenTransactionOK(d)'
  BY <1>0, <1>1, <1>5, NoCallAssumption DEF BlockTenant, OpenTransactionOK
<1>6. CASE UNCHANGED vars
  BY <1>1, <1>6 DEF vars, OpenTransactionOK
<1> QED
  BY <1>2, <1>3, <1>4, <1>5, <1>6 DEF Next, Proceed

-----------------------------------------------------------------------------
(* The ledger.                                                             *)

LedgerOK == HistoryOK /\ LedgerMatchesBalance /\ LedgerAddsUp /\ ResultsAreTrue

(* A step that leaves the tables alone and gives the calling coroutine no  *)
(* "ok" leaves the ledger right.                                           *)
LEMMA LedgerLocalStep ==
    ASSUME Inv, NEW c \in Calls, KeepsToItself(c) PROVE LedgerOK'
<1>0. /\ call \in [Calls -> CallState] /\ entries \in [Tenants -> Seq(Entries)]
      /\ \A d \in Calls \ {c} : call'[d] = call[d]
      /\ UNCHANGED <<row, entries, wiped>>
      /\ call[c].result = "pending" /\ call'[c].result # "ok"
  BY DEF Inv, TypeOK, KeepsToItself, Local, PendingUntilReturned
<1>1. HistoryOK' /\ LedgerMatchesBalance' /\ LedgerAddsUp'
  BY <1>0 DEF Inv, HistoryOK, LedgerMatchesBalance, LedgerAddsUp, BalanceAfter
<1>2. ASSUME NEW t \in Tenants, NEW i \in 1..Len(entries[t])
      PROVE  entries[t][i].by \in Calls \ {c}
  <2>1. entries[t][i] \in Entries
    BY <1>0, ElementOfSeq
  <2>2. call[entries[t][i].by].result \in {"ok", "error"}
    BY DEF Inv, ResultsAreTrue
  <2> QED
    BY <1>0, <2>1, <2>2 DEF Entries
<1>3. ResultsAreTrue'
  <2>1. \A t, u \in Tenants : \A i \in 1..Len(entries[t]), j \in 1..Len(entries[u]) :
            entries[t][i].by = entries[u][j].by => t = u /\ i = j
    BY DEF Inv, ResultsAreTrue
  <2>2. ASSUME NEW t \in Tenants, NEW i \in 1..Len(entries[t])
        PROVE  LET d == entries[t][i].by
               IN  /\ call'[d].tenant = t /\ call'[d].kind = entries[t][i].kind
                   /\ call'[d].result \in {"ok", "error"}
    BY <1>0, <1>2 DEF Inv, ResultsAreTrue
  <2>3. ASSUME NEW d \in Calls, call'[d].result = "ok"
        PROVE  \E i \in 1..Len(entries[call'[d].tenant]) :
                   entries[call'[d].tenant][i].by = d
    BY <1>0, <2>3 DEF Inv, ResultsAreTrue
  <2> QED
    BY <1>0, <2>1, <2>2, <2>3 DEF ResultsAreTrue
<1> QED
  BY <1>1, <1>3 DEF LedgerOK

(* What a commit does to the balances the ledger records.                  *)
LEMMA CommitExtends ==
    ASSUME Inv, NEW c \in Calls, Commit(c)
    PROVE  LET s == call[c]
               t == s.tenant
               e == [by |-> c, kind |-> s.kind, amount |-> s.change, after |-> s.after]
               n == Len(entries[t])
           IN  /\ s \in CallState /\ t \in Tenants /\ n \in Nat
               /\ s.read # NoRow /\ row[t] = s.read /\ row[t] \in Rows
               /\ row'[t].balance = s.after
               /\ row'[t] # NoRow
               /\ Len(entries'[t]) = n + 1
               /\ \A i \in 1..n : entries'[t][i] = entries[t][i]
               /\ entries'[t][n + 1] = e
               /\ \A u \in Tenants \ {t} : entries'[u] = entries[u] /\ row'[u] = row[u]
               /\ AddsUp(s.kind, s.read.balance, s.change, s.after)
               /\ s.result = "pending"
<1> DEFINE s == call[c]
           t == s.tenant
           e == [by |-> c, kind |-> s.kind, amount |-> s.change, after |-> s.after]
<1>1. /\ s \in CallState /\ t \in Tenants
      /\ row \in [Tenants -> Rows \cup {NoRow}] /\ entries \in [Tenants -> Seq(Entries)]
  BY DEF Inv, TypeOK, CallState
<1>2. s.pc = "inserted"
  BY DEF Commit
<1>3. s.read # NoRow /\ row[t] = s.read
  BY <1>2 DEF Inv, LockedReadIsCurrent, StagedFromRead, Holding
<1>4. s.after \in Stored(NewBalance(s)) /\ s.change \in Stored(Delta(s))
  BY <1>2 DEF Inv, StagedFromRead
<1>5. AddsUp(s.kind, s.read.balance, s.change, s.after)
  BY <1>1, <1>3, <1>4, StagedAddsUp
<1>6. row[t] \in Rows /\ [row[t] EXCEPT !.balance = s.after] \in Rows
  <2>1. row[t] \in Rows
    BY <1>1, <1>3
  <2>2. s.after \in Int
    BY <1>1 DEF CallState
  <2> QED
    BY <2>1, <2>2 DEF Rows
<1>7. row'[t] = [row[t] EXCEPT !.balance = s.after]
  BY <1>1 DEF Commit
<1>8. row'[t].balance = s.after
  BY <1>6, <1>7 DEF Rows
<1>9. row'[t] # NoRow
  BY <1>6, <1>7, NoRowAssumption
<1>10. e \in Entries /\ entries[t] \in Seq(Entries)
  BY <1>1 DEF CallState, Entries
<1>11. entries'[t] = Append(entries[t], e)
  BY <1>1 DEF Commit
<1>12. /\ Len(entries[t]) \in Nat
       /\ Len(entries'[t]) = Len(entries[t]) + 1
       /\ \A i \in 1..Len(entries[t]) : entries'[t][i] = entries[t][i]
       /\ entries'[t][Len(entries[t]) + 1] = e
  <2> HIDE DEF e
  <2> QED
    BY <1>10, <1>11, AppendProperties, LenProperties
<1>13. \A u \in Tenants \ {t} : entries'[u] = entries[u] /\ row'[u] = row[u]
  BY <1>1 DEF Commit
<1>14. s.result = "pending"
  BY <1>2 DEF Inv, PendingUntilReturned
<1> QED
  BY <1>1, <1>3, <1>5, <1>6, <1>8, <1>9, <1>12, <1>13, <1>14

(* A commit keeps the ledger right: its entry continues the chain, and it  *)
(* is the only entry of its call.                                          *)
LEMMA LedgerCommitStep ==
    ASSUME Inv, NEW c \in Calls, Commit(c) PROVE LedgerOK'
<1>0. /\ call[c] \in CallState /\ call[c].tenant \in Tenants
      /\ Len(entries[call[c].tenant]) \in Nat
  BY CommitExtends
<1> SUFFICES ASSUME NEW s \in CallState, s = call[c],
                    NEW t \in Tenants, t = s.tenant,
                    NEW n \in Nat, n = Len(entries[t]),
                    NEW e, e = [by |-> c, kind |-> s.kind, amount |-> s.change,
                                after |-> s.after]
             PROVE  LedgerOK'
  BY <1>0
<1>1. /\ s \in CallState /\ t \in Tenants /\ n \in Nat
      /\ s.read # NoRow /\ row[t] = s.read
      /\ row'[t].balance = s.after /\ row'[t] # NoRow
      /\ Len(entries'[t]) = n + 1
      /\ \A i \in 1..n : entries'[t][i] = entries[t][i]
      /\ entries'[t][n + 1] = e
      /\ \A u \in Tenants \ {t} : entries'[u] = entries[u] /\ row'[u] = row[u]
      /\ AddsUp(s.kind, s.read.balance, s.change, s.after)
      /\ s.result = "pending"
  BY CommitExtends
<1>2. /\ wiped' = wiped
      /\ call'[c].result \in {"ok", "error"}
      /\ call'[c].tenant = t /\ call'[c].kind = s.kind
      /\ \A d \in Calls \ {c} : call'[d] = call[d]
  BY Returned DEF Commit, Inv, TypeOK
<1>3. /\ \A u \in Tenants : wiped[u] \subseteq 0..Len(entries[u])
      /\ \A u \in Tenants : Len(entries[u]) \in Nat
      /\ call \in [Calls -> CallState] /\ entries \in [Tenants -> Seq(Entries)]
  <2>1. \A u \in Tenants : Len(entries[u]) \in Nat
    BY LenProperties DEF Inv, TypeOK
  <2> QED
    BY <2>1 DEF Inv, HistoryOK, TypeOK
<1>4. e.after = s.after /\ e.kind = s.kind /\ e.amount = s.change /\ e.by = c
  OBVIOUS
<1>5. HistoryOK'
  <2>1. ASSUME NEW u \in Tenants
        PROVE  /\ wiped'[u] \subseteq 0..Len(entries'[u])
               /\ row'[u] = NoRow =>
                      entries'[u] = <<>> /\ wiped'[u] = {} /\ OpeningRows[u] = NoRow
    <3>1. CASE u = t
      <4>1. wiped[t] \subseteq 0..n
        BY <1>1, <1>3
      <4> QED
        BY <1>1, <1>2, <3>1, <4>1
    <3>2. CASE u # t
      BY <1>1, <1>2, <1>3, <3>2 DEF Inv, HistoryOK
    <3> QED
      BY <3>1, <3>2
  <2> QED
    BY <2>1 DEF HistoryOK
<1>6. ASSUME NEW u \in Tenants, NEW i \in 0..Len(entries[u])
      PROVE  BalanceAfter(u, i)' = BalanceAfter(u, i)
  <2>1. CASE i = 0
    BY <1>2, <2>1 DEF BalanceAfter
  <2>2. CASE i # 0
    <3>1. i \in 1..Len(entries[u])
      BY <1>3, <2>2
    <3>2. entries'[u][i] = entries[u][i]
      BY <1>1, <3>1
    <3> QED
      BY <1>2, <2>2, <3>2 DEF BalanceAfter
  <2> QED
    BY <2>1, <2>2
<1>7. BalanceAfter(t, n)' = BalanceAfter(t, n) /\ BalanceAfter(t, n) = s.read.balance
  <2>1. n \in 0..Len(entries[t])
    BY <1>1
  <2>2. row[t].balance = BalanceAfter(t, n)
    BY <1>1 DEF Inv, LedgerMatchesBalance
  <2> QED
    BY <1>1, <1>6, <2>1, <2>2
<1>8. LedgerMatchesBalance'
  <2>1. ASSUME NEW u \in Tenants, row'[u] # NoRow
        PROVE  row'[u].balance = BalanceAfter(u, Len(entries[u]))'
    <3>1. CASE u = t
      <4>1. n + 1 \notin wiped[t] /\ n + 1 # 0
        BY <1>1, <1>3
      <4>2. BalanceAfter(t, Len(entries[t]))' = s.after
        BY <1>1, <1>2, <1>4, <4>1 DEF BalanceAfter
      <4> QED
        BY <1>1, <3>1, <4>2
    <3>2. CASE u # t
      <4>1. Len(entries[u]) \in 0..Len(entries[u]) /\ entries'[u] = entries[u]
        BY <1>1, <1>3, <3>2
      <4>2. row[u].balance = BalanceAfter(u, Len(entries[u]))
        BY <1>1, <2>1, <3>2 DEF Inv, LedgerMatchesBalance
      <4>3. BalanceAfter(u, Len(entries[u]))' = BalanceAfter(u, Len(entries[u]))
        BY <1>2, <4>1 DEF BalanceAfter
      <4> QED
        BY <1>1, <3>2, <4>2, <4>3
    <3> QED
      BY <3>1, <3>2
  <2> QED
    BY <2>1 DEF LedgerMatchesBalance
<1>9. LedgerAddsUp'
  <2>1. ASSUME NEW u \in Tenants, NEW i \in 1..Len(entries'[u])
        PROVE  AddsUp(entries'[u][i].kind, BalanceAfter(u, i - 1)',
                      entries'[u][i].amount, entries'[u][i].after)
    <3>1. CASE u = t /\ i = n + 1
      <4>1. i - 1 = n
        BY <1>1, <3>1
      <4> QED
        BY <1>1, <1>4, <1>7, <3>1, <4>1
    <3>2. CASE ~(u = t /\ i = n + 1)
      <4>1. i \in 1..Len(entries[u]) /\ entries'[u][i] = entries[u][i]
        BY <1>1, <1>3, <3>2
      <4>2. i - 1 \in 0..Len(entries[u])
        BY <1>3, <4>1
      <4>3. AddsUp(entries[u][i].kind, BalanceAfter(u, i - 1),
                   entries[u][i].amount, entries[u][i].after)
        BY <4>1 DEF Inv, LedgerAddsUp
      <4> QED
        BY <1>6, <4>1, <4>2, <4>3
    <3> QED
      BY <3>1, <3>2
  <2> QED
    BY <2>1 DEF LedgerAddsUp
<1>10. \A u \in Tenants : \A i \in 1..Len(entries[u]) :
           entries[u][i].by \in Calls /\ entries[u][i].by # c
  <2>1. ASSUME NEW u \in Tenants, NEW i \in 1..Len(entries[u])
        PROVE  entries[u][i].by \in Calls /\ entries[u][i].by # c
    <3>1. entries[u][i] \in Entries
      BY <1>3, ElementOfSeq
    <3>2. call[entries[u][i].by].result \in {"ok", "error"}
      BY DEF Inv, ResultsAreTrue
    <3> QED
      BY <1>1, <3>1, <3>2 DEF Entries
  <2> QED
    BY <2>1
<1>11. \A u \in Tenants : \A i \in 1..Len(entries'[u]) :
           \/ u = t /\ i = n + 1 /\ entries'[u][i].by = c
           \/ i \in 1..Len(entries[u]) /\ entries'[u][i] = entries[u][i]
  BY <1>1, <1>3, <1>4
<1>12. ResultsAreTrue'
  <2>1. ASSUME NEW u \in Tenants, NEW v \in Tenants, NEW i \in 1..Len(entries'[u]),
               NEW j \in 1..Len(entries'[v]), entries'[u][i].by = entries'[v][j].by
        PROVE  u = v /\ i = j
    <3>1. CASE i \in 1..Len(entries[u]) /\ j \in 1..Len(entries[v])
               /\ entries'[u][i] = entries[u][i] /\ entries'[v][j] = entries[v][j]
      BY <2>1, <3>1 DEF Inv, ResultsAreTrue
    <3>2. /\ \/ u = t /\ i = n + 1 /\ entries'[u][i].by = c
             \/ i \in 1..Len(entries[u]) /\ entries'[u][i] = entries[u][i]
          /\ \/ v = t /\ j = n + 1 /\ entries'[v][j].by = c
             \/ j \in 1..Len(entries[v]) /\ entries'[v][j] = entries[v][j]
      BY <1>11
    <3>3. /\ i \in 1..Len(entries[u]) => entries[u][i].by # c
          /\ j \in 1..Len(entries[v]) => entries[v][j].by # c
      BY <1>10
    <3> QED
      BY <2>1, <3>1, <3>2, <3>3, Zenon
  <2>2. ASSUME NEW u \in Tenants, NEW i \in 1..Len(entries'[u])
        PROVE  LET d == entries'[u][i].by
               IN  /\ call'[d].tenant = u /\ call'[d].kind = entries'[u][i].kind
                   /\ call'[d].result \in {"ok", "error"}
    <3>1. CASE u = t /\ i = n + 1 /\ entries'[u][i].by = c
      BY <1>1, <1>2, <1>4, <3>1
    <3>2. CASE i \in 1..Len(entries[u]) /\ entries'[u][i] = entries[u][i]
      BY <1>2, <1>10, <3>2 DEF Inv, ResultsAreTrue
    <3> QED
      BY <1>11, <3>1, <3>2
  <2>3. ASSUME NEW d \in Calls, call'[d].result = "ok"
        PROVE  \E i \in 1..Len(entries'[call'[d].tenant]) :
                   entries'[call'[d].tenant][i].by = d
    <3>1. CASE d = c
      <4>1. n + 1 \in 1..Len(entries'[t])
        BY <1>1
      <4>2. call'[d].tenant = t /\ entries'[t][n + 1].by = d
        BY <1>1, <1>2, <1>4, <3>1
      <4>3. \E k \in 1..Len(entries'[t]) : entries'[t][k].by = d
        BY <4>1, <4>2
      <4> QED
        BY <4>2, <4>3, Zenon
    <3>2. CASE d # c
      <4>1. call'[d] = call[d] /\ call[d].tenant \in Tenants
        BY <1>2, <1>3, <3>2 DEF CallState
      <4>2. PICK w \in Tenants : w = call[d].tenant
        BY <4>1
      <4>3. PICK i \in 1..Len(entries[w]) : entries[w][i].by = d
        BY <2>3, <4>1, <4>2 DEF Inv, ResultsAreTrue
      <4>4. i \in 1..Len(entries'[w]) /\ entries'[w][i] = entries[w][i]
        <5>1. CASE w = t
          BY <1>1, <4>3, <5>1
        <5>2. CASE w # t
          BY <1>1, <4>3, <5>2
        <5> QED
          BY <5>1, <5>2
      <4>5. call'[d].tenant = w
        BY <4>1, <4>2
      <4>6. \E k \in 1..Len(entries'[w]) : entries'[w][k].by = d
        BY <4>3, <4>4
      <4> QED
        BY <4>5, <4>6, Zenon
    <3> QED
      BY <3>1, <3>2
  <2> QED
    BY <2>1, <2>2, <2>3 DEF ResultsAreTrue
<1> QED
  BY <1>5, <1>8, <1>9, <1>12 DEF LedgerOK

(* A wallet that is created has no ledger yet.                             *)
LEMMA LedgerCreateStep ==
    ASSUME Inv, NEW t \in Tenants, CreateWallet(t) PROVE LedgerOK'
<1>0. /\ UNCHANGED <<entries, call, wiped>> /\ row[t] = NoRow
      /\ \A u \in Tenants \ {t} : row'[u] = row[u]
      /\ row'[t].balance = 0
      /\ row'[t] \in Rows
  BY DEF CreateWallet, Inv, TypeOK, Rows
<1>1. entries[t] = <<>> /\ wiped[t] = {} /\ OpeningRows[t] = NoRow
  BY <1>0 DEF Inv, HistoryOK
<1>2. HistoryOK'
  BY <1>0, NoRowAssumption DEF Inv, HistoryOK
<1>3. LedgerAddsUp' /\ ResultsAreTrue'
  BY <1>0 DEF Inv, LedgerAddsUp, BalanceAfter, ResultsAreTrue
<1>4. LedgerMatchesBalance'
  <2>1. ASSUME NEW u \in Tenants, row'[u] # NoRow
        PROVE  row'[u].balance = BalanceAfter(u, Len(entries[u]))'
    <3>1. CASE u = t
      <4>1. Len(entries'[t]) = 0
        BY <1>0, <1>1
      <4> QED
        BY <1>0, <1>1, <3>1, <4>1 DEF BalanceAfter, OpeningBalance
    <3>2. CASE u # t
      BY <1>0, <2>1, <3>2 DEF Inv, LedgerMatchesBalance, BalanceAfter
    <3> QED
      BY <3>1, <3>2
  <2> QED
    BY <2>1 DEF LedgerMatchesBalance
<1> QED
  BY <1>2, <1>3, <1>4 DEF LedgerOK

(* An operator's block is remembered at the ledger's present length, which *)
(* no entry of the chain looks behind.                                     *)
LEMMA LedgerBlockStep ==
    ASSUME Inv, NEW t \in Tenants, BlockTenant(t) PROVE LedgerOK'
<1>0. /\ UNCHANGED <<entries, call>>
      /\ row[t] \in Rows
      /\ \A u \in Tenants \ {t} : row'[u] = row[u] /\ wiped'[u] = wiped[u]
      /\ wiped'[t] = wiped[t] \cup {Len(entries[t])}
      /\ row'[t] = [row[t] EXCEPT !.balance = 0, !.is_hard_stop = TRUE]
      /\ \A u \in Tenants : Len(entries[u]) \in Nat
  BY LenProperties DEF BlockTenant, Inv, TypeOK
<1>1. row'[t].balance = 0 /\ row[t] # NoRow
  BY <1>0, NoRowAssumption DEF Rows
<1>2. HistoryOK'
  <2>1. ASSUME NEW u \in Tenants
        PROVE  /\ wiped'[u] \subseteq 0..Len(entries'[u])
               /\ row'[u] = NoRow =>
                      entries'[u] = <<>> /\ wiped'[u] = {} /\ OpeningRows[u] = NoRow
    <3>1. CASE u = t
      <4>1. wiped[t] \subseteq 0..Len(entries[t]) /\ Len(entries[t]) \in 0..Len(entries[t])
        BY <1>0 DEF Inv, HistoryOK
      <4>2. row'[t] # NoRow
        <5>1. row'[t] \in Rows
          <6>1. [row[t] EXCEPT !.balance = 0] \in Rows
            BY <1>0 DEF Rows
          <6>2. [[row[t] EXCEPT !.balance = 0] EXCEPT !.is_hard_stop = TRUE] \in Rows
            BY <6>1, Zenon DEF Rows
          <6> QED
            BY <1>0, <6>2
        <5> QED
          BY <5>1, NoRowAssumption
      <4> QED
        BY <1>0, <3>1, <4>1, <4>2
    <3>2. CASE u # t
      BY <1>0, <3>2 DEF Inv, HistoryOK
    <3> QED
      BY <3>1, <3>2
  <2> QED
    BY <2>1 DEF HistoryOK
<1>3. ResultsAreTrue'
  BY <1>0 DEF Inv, ResultsAreTrue
<1>4. LedgerMatchesBalance'
  <2>1. ASSUME NEW u \in Tenants, row'[u] # NoRow
        PROVE  row'[u].balance = BalanceAfter(u, Len(entries[u]))'
    <3>1. CASE u = t
      BY <1>0, <1>1, <3>1 DEF BalanceAfter
    <3>2. CASE u # t
      BY <1>0, <2>1, <3>2 DEF Inv, LedgerMatchesBalance, BalanceAfter
    <3> QED
      BY <3>1, <3>2
  <2> QED
    BY <2>1 DEF LedgerMatchesBalance
<1>5. LedgerAddsUp'
  <2>1. ASSUME NEW u \in Tenants, NEW i \in 1..Len(entries[u])
        PROVE  BalanceAfter(u, i - 1)' = BalanceAfter(u, i - 1)
    <3>1. i - 1 # Len(entries[u])
      BY <1>0
    <3>2. i - 1 \in wiped'[u] <=> i - 1 \in wiped[u]
      BY <1>0, <3>1
    <3> QED
      BY <1>0, <3>2 DEF BalanceAfter
  <2> QED
    BY <1>0, <2>1 DEF Inv, LedgerAddsUp
<1> QED
  BY <1>2, <1>3, <1>4, <1>5 DEF LedgerOK

(* So does every step.                                                     *)
LEMMA LedgerStep == Inv /\ TypeOK' /\ [Next]_vars => LedgerOK'
<1> SUFFICES ASSUME Inv, TypeOK', [Next]_vars PROVE LedgerOK'
  OBVIOUS
<1>1. ASSUME NEW c \in Calls,
             Request(c) \/ (Proceed(c) /\ ~Commit(c)) \/ LoseConnection(c)
      PROVE  LedgerOK'
  BY <1>1, LocalStep, LedgerLocalStep
<1>2. ASSUME NEW c \in Calls, Commit(c) PROVE LedgerOK'
  BY <1>2, LedgerCommitStep
<1>3. ASSUME NEW t \in Tenants, CreateWallet(t) \/ BlockTenant(t) PROVE LedgerOK'
  BY <1>3, LedgerCreateStep, LedgerBlockStep
<1>4. CASE UNCHANGED vars
  BY <1>4 DEF vars, Inv, LedgerOK, HistoryOK, LedgerMatchesBalance, LedgerAddsUp,
              ResultsAreTrue, BalanceAfter
<1> QED
  BY <1>1, <1>2, <1>3, <1>4 DEF Next

-----------------------------------------------------------------------------
(* The wallets of OpeningRows, with nothing posted, satisfy the invariant. *)
LEMMA InitInv == Init => Inv
<1> SUFFICES ASSUME Init PROVE Inv
  OBVIOUS
<1>1. \A c \in Calls : /\ call[c] \in CallState /\ call[c].pc = "new"
                       /\ call[c].result = "pending"
  BY DEF Init, CallState
<1>2. call \in [Calls -> CallState]
  BY <1>1 DEF Init
<1>3. TypeOK
  BY <1>2, OpeningAssumption, EmptySeq DEF Init, TypeOK
<1>4. LockedReadIsCurrent /\ StagedFromRead /\ PendingUntilReturned
  BY <1>1 DEF LockedReadIsCurrent, StagedFromRead, PendingUntilReturned, Holding
<1>5. \A t \in Tenants : entries[t] = <<>> /\ Len(entries[t]) = 0 /\ wiped[t] = {}
  BY EmptySeq DEF Init
<1>6. HistoryOK /\ LedgerMatchesBalance /\ LedgerAddsUp
  BY <1>5 DEF Init, HistoryOK, LedgerMatchesBalance, LedgerAddsUp, BalanceAfter,
              OpeningBalance
<1>7. ResultsAreTrue
  BY <1>1, <1>5 DEF ResultsAreTrue
<1> QED
  BY <1>3, <1>4, <1>6, <1>7 DEF Inv

(* Inv is inductive.                                                       *)
THEOREM Invariance == Spec => []Inv
<1>1. Init => Inv
  BY InitInv
<1>2. Inv /\ [Next]_vars => Inv'
  BY TypeStep, OpenTransactionsStep, LedgerStep DEF Inv, LedgerOK
<1> QED
  BY <1>1, <1>2, PTL DEF Spec

(* The variables keep their types: every balance, charge and ledger entry  *)
(* stays a number, whatever the calls and their interleaving.              *)
THEOREM TypeCorrect == Spec => []TypeOK
BY Invariance, PTL DEF Inv

(* No update is lost and no entry is left out: the wallet's balance is     *)
(* what its newest entry recorded, each entry follows from the one before  *)
(* by its amount, and an open transaction's read is current.               *)
THEOREM LedgerCorrect ==
    Spec => [](LedgerMatchesBalance /\ LedgerAddsUp /\ LockedReadIsCurrent)
BY Invariance, PTL DEF Inv

(* A call is posted at most once, and what its caller is told is true.     *)
THEOREM ResultsCorrect == Spec => []ResultsAreTrue
BY Invariance, PTL DEF Inv

(* A row's lock is held by an open transaction on that row.                *)
LocksAreHeld ==
    \A t \in Tenants : lock[t] # NoCall =>
        /\ lock[t] \in Calls
        /\ call[lock[t]].pc \in Holding /\ call[lock[t]].tenant = t

LEMMA LocksAreHeldStep == Inv /\ LocksAreHeld /\ [Next]_vars => LocksAreHeld'
<1> SUFFICES ASSUME Inv, LocksAreHeld, [Next]_vars PROVE LocksAreHeld'
  OBVIOUS
<1>0. call \in [Calls -> CallState] /\ lock \in [Tenants -> Calls \cup {NoCall}]
  BY DEF Inv, TypeOK
<1>1. ASSUME NEW c \in Calls, call[c].pc \notin Holding, UNCHANGED lock,
             \A d \in Calls \ {c} : call'[d] = call[d]
      PROVE  LocksAreHeld'
  BY <1>1 DEF LocksAreHeld
<1>2. ASSUME NEW c \in Calls, NEW r, Return(c, r), Unlock(c) PROVE LocksAreHeld'
  <2>1. \A d \in Calls \ {c} : call'[d] = call[d]
    BY <1>0, <1>2, Returned
  <2>2. \A t \in Tenants : lock'[t] # NoCall => lock'[t] = lock[t] /\ lock[t] # c
    BY <1>2 DEF Unlock
  <2> QED
    BY <2>1, <2>2 DEF LocksAreHeld
<1>3. ASSUME NEW c \in Calls, Request(c) PROVE LocksAreHeld'
  <2>1. call[c].pc = "new" /\ UNCHANGED lock /\ \E s : Become(c, s)
    BY <1>3 DEF Request, Debit, Credit, GrantMonthly
  <2> QED
    BY <1>0, <1>1, <2>1 DEF Holding, Become
<1>4. ASSUME NEW c \in Calls, ReadGrant(c) \/ NotFound(c) PROVE LocksAreHeld'
  <2>1. call[c].pc \in {"grant", "select"} /\ UNCHANGED lock /\ \E s : Become(c, s)
    BY <1>4 DEF ReadGrant, NotFound, Return
  <2> QED
    BY <1>0, <1>1, <2>1 DEF Holding, Become
<1>5. ASSUME NEW c \in Calls, SelectForUpdate(c) PROVE LocksAreHeld'
  <2>1. PICK u \in Tenants : u = call[c].tenant
    BY <1>0 DEF CallState
  <2>2. /\ call[c].pc = "select" /\ lock' = [lock EXCEPT ![u] = c]
        /\ Become(c, [call[c] EXCEPT !.pc = "locked", !.read = row[u]])
    BY <1>5, <2>1 DEF SelectForUpdate
  <2>3. call'[c].pc = "locked" /\ call'[c].tenant = u /\ \A d \in Calls \ {c} : call'[d] = call[d]
    BY <1>0, <2>1, <2>2 DEF Become, CallState
  <2>4. lock'[u] = c /\ \A t \in Tenants \ {u} : lock'[t] = lock[t] /\ lock[t] # c
    BY <1>0, <2>2, NoCallAssumption DEF LocksAreHeld, Holding
  <2> QED
    BY <2>3, <2>4 DEF LocksAreHeld, Holding
<1>6. ASSUME NEW c \in Calls, UpdateBalance(c) \/ InsertEntry(c) PROVE LocksAreHeld'
  <2>1. UNCHANGED lock
    BY <1>6 DEF UpdateBalance, InsertEntry
  <2>2. call'[c].pc \in Holding /\ call'[c].tenant = call[c].tenant
        /\ \A d \in Calls \ {c} : call'[d] = call[d]
    <3>1. ASSUME NEW n, Become(c, [call[c] EXCEPT !.pc = "updated", !.after = n])
          PROVE  call'[c].pc \in Holding /\ call'[c].tenant = call[c].tenant
      BY <1>0, <3>1 DEF Become, CallState, Holding
    <3>2. ASSUME NEW n, Become(c, [call[c] EXCEPT !.pc = "inserted", !.change = n])
          PROVE  call'[c].pc \in Holding /\ call'[c].tenant = call[c].tenant
      BY <1>0, <3>2 DEF Become, CallState, Holding
    <3>3. \A d \in Calls \ {c} : call'[d] = call[d]
      BY <1>0, <1>6 DEF UpdateBalance, InsertEntry, Become
    <3> QED
      BY <1>6, <3>1, <3>2, <3>3 DEF UpdateBalance, InsertEntry
  <2> QED
    BY <2>1, <2>2 DEF LocksAreHeld
<1>7. ASSUME NEW c \in Calls,
             RefuseDebit(c) \/ Overflow(c) \/ Commit(c) \/ LoseConnection(c)
      PROVE  LocksAreHeld'
  <2>1. Unlock(c) /\ \E r : Return(c, r)
    BY <1>7 DEF RefuseDebit, Overflow, Commit, LoseConnection
  <2> QED
    BY <1>2, <2>1
<1>8. ASSUME UNCHANGED <<lock, call>> PROVE LocksAreHeld'
  BY <1>8 DEF LocksAreHeld
<1> QED
  BY <1>3, <1>4, <1>5, <1>6, <1>7, <1>8 DEF Next, Proceed, CreateWallet, BlockTenant, vars

(* No lock outlives its transaction, and nobody waits in a circle: a call  *)
(* that waits for its row waits for one that is past its SELECT and asks   *)
(* for no other lock.                                                      *)
THEOREM WaitersWaitForHolders ==
    Spec => [](\A c \in Calls :
                   LET t == call[c].tenant
                   IN  call[c].pc = "select" /\ lock[t] # NoCall =>
                           \E d \in Calls \ {c} : /\ lock[t] = d /\ call[d].tenant = t
                                                  /\ call[d].pc \in Holding)
<1>1. Init => LocksAreHeld
  BY DEF Init, LocksAreHeld
<1>2. TypeOK /\ LocksAreHeld =>
          \A c \in Calls :
              LET t == call[c].tenant
              IN  call[c].pc = "select" /\ lock[t] # NoCall =>
                      \E d \in Calls \ {c} : /\ lock[t] = d /\ call[d].tenant = t
                                             /\ call[d].pc \in Holding
  BY DEF TypeOK, CallState, LocksAreHeld, Holding
<1>3. Inv => TypeOK
  BY DEF Inv
<1> QED
  BY <1>1, <1>2, <1>3, LocksAreHeldStep, Invariance, PTL DEF Spec

(* No debit takes a hard-stopped wallet below zero.                        *)
THEOREM HardStop == Spec => HardStopHolds
<1> DEFINE Covered ==
        \A t \in Tenants :
          /\ Len(entries'[t]) > Len(entries[t])
          /\ entries'[t][Len(entries'[t])].kind = "debit"
          /\ row[t].is_hard_stop
          => row'[t].balance >= 0
<1>1. Inv /\ [Next]_vars => Covered
  <2> SUFFICES ASSUME Inv, [Next]_vars, NEW u \in Tenants,
                      Len(entries'[u]) > Len(entries[u]),
                      entries'[u][Len(entries'[u])].kind = "debit",
                      row[u].is_hard_stop
               PROVE  row'[u].balance >= 0
    OBVIOUS
  <2>1. Len(entries[u]) \in Nat
    BY LenProperties DEF Inv, TypeOK
  <2>2. entries' # entries
    BY <2>1
  <2>3. PICK c \in Calls : Commit(c)
    BY <2>2, TypeStep, LocalStep
       DEF Next, CreateWallet, BlockTenant, vars, KeepsToItself, Local
  <2> DEFINE s == call[c]
  <2>4. PICK t \in Tenants : t = s.tenant
    BY <2>3, CommitExtends
  <2>5. /\ s \in CallState /\ s.read # NoRow
        /\ row[t] = s.read /\ row'[t].balance = s.after
        /\ Len(entries'[t]) = Len(entries[t]) + 1
        /\ \A v \in Tenants \ {t} : entries'[v] = entries[v]
    BY <2>3, <2>4, CommitExtends
  <2>6. u = t
    BY <2>1, <2>5
  <2>7. s.kind = "debit" /\ s.read.is_hard_stop
    <3>1. entries'[t][Len(entries[t]) + 1] =
              [by |-> c, kind |-> s.kind, amount |-> s.change, after |-> s.after]
      BY <2>3, <2>4, CommitExtends
    <3>2. entries'[t][Len(entries[t]) + 1].kind = s.kind
      BY <3>1
    <3> QED
      BY <2>5, <2>6, <3>2
  <2>8. ~Refused(s) /\ s.after \in Stored(NewBalance(s))
    BY <2>3 DEF Commit, Inv, StagedFromRead
  <2> QED
    BY <2>5, <2>6, <2>7, <2>8, UnrefusedCovers
<1> QED
  BY <1>1, Invariance, PTL DEF Spec, HardStopHolds

-----------------------------------------------------------------------------
(* Refinement.  The transactions implement the ledger of WalletLedger:     *)
(* each step of a transaction is a stutter of the ledger, except the one   *)
(* that answers the call.  It takes a database role that sees the wallets, *)
(* and a NoRow that is no balance; the ledger's postings may be any        *)
(* integers.                                                               *)
Balances == [t \in Tenants |-> IF row[t] = NoRow THEN NoRow ELSE row[t].balance]
HardStops == [t \in Tenants |-> row[t] # NoRow /\ row[t].is_hard_stop]
Outcomes == [c \in Calls |-> call[c].result]

-----------------------------------------------------------------------------
(* What the caller is told is all that returning changes of the outcomes.  *)
LEMMA ReturnTells ==
    ASSUME TypeOK, NEW c \in Calls, NEW r, Return(c, r)
    PROVE  Outcomes' = [Outcomes EXCEPT ![c] = r]
<1>1. call'[c].result = r /\ \A d \in Calls \ {c} : call'[d] = call[d]
  BY Returned DEF TypeOK
<1> QED
  BY <1>1 DEF Outcomes

(* A step that answers nobody and writes nothing is a stutter.             *)
LEMMA SilentStep ==
    ASSUME row' = row, entries' = entries, \A c \in Calls : call'[c].result = call[c].result
    PROVE  UNCHANGED Ledger!ledgerVars
BY DEF Ledger!ledgerVars

(* A call that returns without writing is refused or lost.                 *)
LEMMA RefuseStep ==
    ASSUME Inv, NEW c \in Calls, call[c].pc # "returned",
           row' = row, entries' = entries,
           NEW t \in Tenants, NEW why \in Ledger!Refusals, Return(c, why),
           why = "no_wallet" => row[t] = NoRow,
           why = "insufficient" => row[t] \in Rows /\ row[t].is_hard_stop, NoRow \notin Int
    PROVE  Ledger!LedgerNext
<1>1. Outcomes' = [Outcomes EXCEPT ![c] = why] /\ Outcomes[c] = "pending"
  BY ReturnTells DEF Inv, PendingUntilReturned, Outcomes
<1>2. row[t] \in Rows => row[t].balance \in Int /\ row[t] # NoRow
  BY NoRowAssumption DEF Rows
<1>3. Balances' = Balances /\ HardStops' = HardStops
  BY DEF Balances, HardStops
<1>4. Ledger!Refuse(c, t, why)
  BY <1>1, <1>2, <1>3 DEF Ledger!Refuse, Ledger!HasWallet, Balances, HardStops, Outcomes
<1> QED
  BY <1>4 DEF Ledger!LedgerNext

(* A call told of an error, nothing written, is lost.                      *)
LEMMA LoseStep ==
    ASSUME Inv, NEW c \in Calls, call[c].pc # "returned",
           row' = row, entries' = entries, Return(c, "error")
    PROVE  Ledger!LedgerNext
<1>1. Outcomes' = [Outcomes EXCEPT ![c] = "error"] /\ Outcomes[c] = "pending"
  BY ReturnTells DEF Inv, PendingUntilReturned, Outcomes
<1>2. Ledger!Lose(c)
  BY <1>1 DEF Ledger!Lose, Outcomes
<1> QED
  BY <1>2 DEF Ledger!LedgerNext

(* A commit posts to the ledger: the balance moves by the amount of the    *)
(* new entry, up to a rounding, and never below zero for a debit of a      *)
(* hard-stopped wallet.                                                    *)
LEMMA CommitPosts ==
    ASSUME Inv, NEW c \in Calls, Commit(c), Amounts = Int, NoRow \notin Int
    PROVE  Ledger!LedgerNext
<1> DEFINE s == call[c]
<1>0. /\ s \in CallState /\ s.tenant \in Tenants
      /\ s.read # NoRow /\ row[s.tenant] = s.read /\ row[s.tenant] \in Rows
  BY CommitExtends
<1>1. PICK t \in Tenants : t = s.tenant
  BY <1>0
<1> DEFINE e == [by |-> c, kind |-> s.kind, amount |-> s.change, after |-> s.after]
<1>2. /\ row' = [row EXCEPT ![t] = [@ EXCEPT !.balance = s.after]]
      /\ entries' = [entries EXCEPT ![t] = Append(@, e)]
      /\ Return(c, "ok") \/ Return(c, "error")
  BY <1>1 DEF Commit
<1>3. ~Refused(s) /\ s.after \in Stored(NewBalance(s)) /\ s.change \in Stored(Delta(s))
  BY DEF Commit, Inv, StagedFromRead
<1>4. AddsUp(s.kind, s.read.balance, s.change, s.after)
  BY <1>0, <1>3, StagedAddsUp
<1>5. s.after \in Int /\ s.change \in Int /\ s.read.balance \in Int
  BY <1>0, <1>3, StoredInt, DeltaInt
<1>6. s.kind = "debit" /\ s.read.is_hard_stop => s.after >= 0
  BY <1>0, <1>3, UnrefusedCovers
<1> HIDE DEF s
<1>7. Balances[t] = s.read.balance /\ Balances[t] # NoRow
  BY <1>0, <1>1, <1>5 DEF Balances
<1>8. HardStops[t] <=> s.read.is_hard_stop
  BY <1>0, <1>1, Zenon DEF HardStops
<1>9. row'[t].balance = s.after /\ row'[t] # NoRow /\ row'[t].is_hard_stop = row[t].is_hard_stop
  <2>1. row'[t] = [row[t] EXCEPT !.balance = s.after]
    BY <1>2 DEF Inv, TypeOK
  <2>2. [row[t] EXCEPT !.balance = s.after] \in Rows
    BY <1>0, <1>1, <1>5 DEF Rows
  <2>3. [row[t] EXCEPT !.balance = s.after].is_hard_stop = row[t].is_hard_stop
    BY <1>0, <1>1 DEF Rows
  <2>4. [row[t] EXCEPT !.balance = s.after].balance = s.after
    BY <1>0, <1>1 DEF Rows
  <2> QED
    BY <2>1, <2>2, <2>3, <2>4, NoRowAssumption
<1>10. \A u \in Tenants \ {t} : row'[u] = row[u]
  BY <1>2 DEF Inv, TypeOK
<1>11. row[t] # NoRow
  BY <1>0, <1>1
<1>12. Balances' = [Balances EXCEPT ![t] = s.after]
  BY <1>9, <1>10 DEF Balances
<1>13. HardStops' = HardStops
  <2>1. \A u \in Tenants : (row'[u] # NoRow /\ row'[u].is_hard_stop)
                             = (row[u] # NoRow /\ row[u].is_hard_stop)
    BY <1>9, <1>10, <1>11, Zenon
  <2> QED
    BY <2>1, Zenon DEF HardStops
<1>14. PICK o \in {"ok", "error"} : Outcomes' = [Outcomes EXCEPT ![c] = o]
  BY <1>2, ReturnTells DEF Inv
<1>15. Outcomes[c] = "pending"
  BY DEF Outcomes, Inv, PendingUntilReturned, Commit
<1>16. s.kind \in Ledger!Kinds
  BY <1>0 DEF CallState, Ledger!Kinds
<1>17. PICK rounding \in {-1, 0, 1} : s.after = Balances[t] + s.change + rounding
  BY <1>4, <1>5, <1>7 DEF AddsUp
<1>18. Ledger!MayPost(t, s.kind, s.change, s.after)
  <2>1. Ledger!AddsUp(s.kind, Balances[t], s.change, s.after)
    BY <1>4, <1>7 DEF AddsUp, Ledger!AddsUp
  <2>2. s.kind = "debit" /\ HardStops[t] => s.after >= 0
    BY <1>6, <1>8
  <2> QED
    BY <1>7, <2>1, <2>2 DEF Ledger!MayPost, Ledger!HasWallet, Balances, HardStops
<1>19. PICK kind \in Ledger!Kinds, amount \in Amounts : kind = s.kind /\ amount = s.change
  BY <1>5, <1>16
<1>20. Ledger!Post(c, t, kind, amount, Balances[t] + amount + rounding)
  BY <1>2, <1>12, <1>13, <1>14, <1>15, <1>17, <1>18, <1>19
     DEF Ledger!Post, Ledger!MayPost, Balances, HardStops, Outcomes
<1> QED
  BY <1>17, <1>20 DEF Ledger!LedgerNext, Balances

-----------------------------------------------------------------------------
(* The statement of WalletGate that opens a wallet opens it in the ledger. *)
LEMMA CreateOpens ==
    ASSUME Inv, NEW t \in Tenants, CreateWallet(t), NoRow \notin Int
    PROVE  Ledger!LedgerNext
<1>1. row[t] = NoRow /\ entries' = entries /\ Outcomes' = Outcomes
  BY DEF CreateWallet, Outcomes
<1> DEFINE r == [balance |-> 0, monthly_grant |-> 0, markup_rate |-> 150, is_hard_stop |-> TRUE]
<1>2. row' = [row EXCEPT ![t] = r] /\ r \in Rows
  BY DEF CreateWallet, Rows
<1>3. r.balance = 0 /\ r.is_hard_stop = TRUE /\ r # NoRow
  BY <1>2, NoRowAssumption
<1> HIDE DEF r
<1>4. Balances' = [Balances EXCEPT ![t] = 0] /\ HardStops' = [HardStops EXCEPT ![t] = TRUE]
  BY <1>2, <1>3 DEF Balances, HardStops, Inv, TypeOK
<1>5. Ledger!Open(t)
  BY <1>1, <1>4 DEF Ledger!Open, Ledger!HasWallet, Balances, HardStops, Outcomes
<1> QED
  BY <1>5 DEF Ledger!LedgerNext

(* The runbook's statement empties and stops the wallet.                   *)
LEMMA BlockBlocks ==
    ASSUME Inv, NEW t \in Tenants, BlockTenant(t), NoRow \notin Int
    PROVE  Ledger!LedgerNext
<1>1. row[t] \in Rows /\ entries' = entries /\ Outcomes' = Outcomes /\ row[t] # NoRow
  BY DEF BlockTenant, Outcomes, Inv, TypeOK
<1> DEFINE r == [row[t] EXCEPT !.balance = 0, !.is_hard_stop = TRUE]
<1>2. row' = [row EXCEPT ![t] = r]
  BY DEF BlockTenant
<1>3. r \in Rows /\ r.balance = 0 /\ r.is_hard_stop = TRUE
  <2>1. [row[t] EXCEPT !.balance = 0] \in Rows
    BY <1>1 DEF Rows
  <2>2. [[row[t] EXCEPT !.balance = 0] EXCEPT !.is_hard_stop = TRUE] \in Rows
    BY <2>1, Zenon DEF Rows
  <2>3. r.balance = 0 /\ r.is_hard_stop = TRUE
    BY <1>1 DEF Rows
  <2> QED
    BY <2>2, <2>3
<1> HIDE DEF r
<1>4. r # NoRow
  BY <1>3, NoRowAssumption
<1>5. Balances' = [Balances EXCEPT ![t] = 0] /\ HardStops' = [HardStops EXCEPT ![t] = TRUE]
  BY <1>2, <1>3, <1>4 DEF Balances, HardStops, Inv, TypeOK
<1>6. Balances[t] # NoRow
  BY <1>1 DEF Balances, Rows
<1>7. Ledger!Block(t)
  BY <1>1, <1>5, <1>6 DEF Ledger!Block, Ledger!HasWallet, Balances, HardStops, Outcomes
<1> QED
  BY <1>7 DEF Ledger!LedgerNext

(* The tables at the start are the ledger's opening.                       *)
LEMMA InitOpens == Init => Ledger!LedgerInit
<1> SUFFICES ASSUME Init PROVE Ledger!LedgerInit
  OBVIOUS
<1>1. \A c \in Calls : call[c].result = "pending"
  BY DEF Init
<1>2. HardStops \in [Tenants -> BOOLEAN]
  <2>1. \A t \in Tenants : (row[t] # NoRow /\ row[t].is_hard_stop) \in BOOLEAN
    OBVIOUS
  <2> QED
    BY <2>1 DEF HardStops
<1> QED
  BY <1>1, <1>2 DEF Init, Ledger!LedgerInit, HardStops

(* Every step of the service is a step of the ledger or a stutter.         *)
LEMMA StepRefines ==
    ASSUME AppBypassesRls, Amounts = Int, NoRow \notin Int, Inv, [Next]_vars
    PROVE  [Ledger!LedgerNext]_(Ledger!ledgerVars)
<1>1. ASSUME NEW c \in Calls, NEW s, Become(c, s), s.result = call[c].result,
             row' = row, entries' = entries
      PROVE  UNCHANGED Ledger!ledgerVars
  <2>1. \A d \in Calls : call'[d].result = call[d].result
    BY <1>1 DEF Become, Inv, TypeOK
  <2> QED
    BY <1>1, <2>1, SilentStep
<1>2. \A c \in Calls : call[c] \in CallState /\ call[c].tenant \in Tenants
  BY DEF Inv, TypeOK, CallState
<1>3. ASSUME NEW c \in Calls,
             \/ \E cost \in Costs : Debit(c, cost)
             \/ \E amount \in Credits : Credit(c, amount)
             \/ GrantMonthly(c) \/ SelectForUpdate(c)
      PROVE  UNCHANGED Ledger!ledgerVars
  <2>1. \A k, a : [call[c] EXCEPT !.pc = "select", !.kind = k, !.amount = a].result = call[c].result
    BY <1>2 DEF CallState
  <2>2. \A k : [call[c] EXCEPT !.pc = "grant", !.kind = k].result = call[c].result
    BY <1>2 DEF CallState
  <2>3. \A r : [call[c] EXCEPT !.pc = "locked", !.read = r].result = call[c].result
    BY <1>2 DEF CallState
  <2> QED
    BY <1>1, <1>3, <2>1, <2>2, <2>3 DEF Debit, Credit, GrantMonthly, SelectForUpdate
<1>4. ASSUME NEW c \in Calls, UpdateBalance(c) \/ InsertEntry(c)
      PROVE  UNCHANGED Ledger!ledgerVars
  <2>1. \A n : /\ [call[c] EXCEPT !.pc = "updated", !.after = n].result = call[c].result
               /\ [call[c] EXCEPT !.pc = "inserted", !.change = n].result = call[c].result
    BY <1>2 DEF CallState
  <2> QED
    BY <1>1, <1>4, <2>1 DEF UpdateBalance, InsertEntry
<1>5. ASSUME NEW c \in Calls, ReadGrant(c)
      PROVE  [Ledger!LedgerNext]_(Ledger!ledgerVars)
  <2>1. \A a : [call[c] EXCEPT !.pc = "select", !.amount = a].result = call[c].result
    BY <1>2 DEF CallState
  <2>2. row' = row /\ entries' = entries /\ call[c].pc # "returned"
    BY <1>5 DEF ReadGrant
  <2>3. CASE Return(c, "zero")
    BY <1>2, <2>2, <2>3, RefuseStep DEF Ledger!Refusals
  <2>4. CASE ~ Return(c, "zero")
    BY <1>1, <1>5, <2>1, <2>2, <2>4 DEF ReadGrant
  <2> QED
    BY <2>3, <2>4
<1>6. ASSUME NEW c \in Calls, NotFound(c) PROVE Ledger!LedgerNext
  <2>1. row' = row /\ entries' = entries /\ call[c].pc # "returned"
        /\ Return(c, "no_wallet") /\ row[call[c].tenant] = NoRow
    BY <1>6 DEF NotFound, Visible
  <2> QED
    BY <1>2, <2>1, RefuseStep DEF Ledger!Refusals
<1>7. ASSUME NEW c \in Calls, RefuseDebit(c) PROVE Ledger!LedgerNext
  <2>1. row' = row /\ entries' = entries /\ call[c].pc # "returned"
        /\ Return(c, "insufficient") /\ call[c].read.is_hard_stop
    BY <1>7 DEF RefuseDebit, Refused
  <2>2. row[call[c].tenant] = call[c].read /\ call[c].read \in Rows
    BY <1>2, <1>7 DEF RefuseDebit, Inv, LockedReadIsCurrent, StagedFromRead, Holding, CallState
  <2> QED
    BY <1>2, <2>1, <2>2, RefuseStep DEF Ledger!Refusals
<1>8. ASSUME NEW c \in Calls, Overflow(c) \/ LoseConnection(c) PROVE Ledger!LedgerNext
  <2>1. row' = row /\ entries' = entries /\ call[c].pc # "returned" /\ Return(c, "error")
    BY <1>8 DEF Overflow, LoseConnection, Pending
  <2> QED
    BY <2>1, LoseStep
<1>9. CASE UNCHANGED vars
  BY <1>9, SilentStep DEF vars
<1> QED
  BY <1>3, <1>4, <1>5, <1>6, <1>7, <1>8, <1>9, CommitPosts, CreateOpens, BlockBlocks
     DEF Next, Request, Proceed

(* The transactions of WalletService implement the ledger.                 *)
THEOREM Refinement ==
    ASSUME AppBypassesRls, Amounts = Int, NoRow \notin Int
    PROVE  Spec => ImplementsLedger
<1>1. Inv /\ [Next]_vars => [Ledger!LedgerNext]_(Ledger!ledgerVars)
  BY StepRefines
<1> QED
  BY <1>1, InitOpens, Invariance, PTL DEF Spec, ImplementsLedger, Ledger!LedgerSpec
=============================================================================
