------------------------- MODULE WalletGate_proofs -------------------------
(***************************************************************************)
(* That WalletGate conserves the pool and bounds the overdraft, for any    *)
(* tenants, calls, slots, charges and pool size.  Both count coroutines,   *)
(* and both rest on the same two facts: a step moves one coroutine, so it  *)
(* changes a count by at most one (MoveCount), and the active coroutines   *)
(* are at most as many as the slots (ActiveFitSlots).  The last part shows *)
(* that the gate's steps are the ledger's.                                 *)
(***************************************************************************)
EXTENDS WalletGate, TLAPS, FiniteSetTheorems

(* A slot works on one call at a time.                                     *)
SlotsExclusive == \A c, d \in Active : SlotOf[c] = SlotOf[d] => c = d

Inv ==
    /\ TypeOK
    /\ SlotsExclusive
    /\ PoolConserved
    /\ OverdraftBounded

PCs == {"new"} \cup HoldOne \cup Waiting \cup InFlight \cup Ended

-----------------------------------------------------------------------------
(* How a step that moves one coroutine changes the number of those at P.   *)
LEMMA MoveCount ==
    ASSUME NEW c \in Calls, NEW l, NEW P, NEW T \in SUBSET Calls, c \in T,
           pc \in [Calls -> PCs], Goto(c, l)
    PROVE  Cardinality((T \cap At(P))') = Cardinality(T \cap At(P))
               + (IF l \in P THEN 1 ELSE 0) - (IF pc[c] \in P THEN 1 ELSE 0)
<1>1. \A d \in Calls : pc'[d] = IF d = c THEN l ELSE pc[d]
  BY DEF Goto
<1>2. IsFiniteSet(T \cap At(P))
  BY CallsAssumption, FS_Subset
<1>3. Cardinality(T \cap At(P)) \in Nat
  BY <1>2, FS_CardinalityType
<1>4. CASE l \in P /\ pc[c] \in P
  <2>1. (T \cap At(P))' = T \cap At(P)
    BY <1>1, <1>4 DEF At
  <2> QED
    BY <1>3, <1>4, <2>1
<1>5. CASE l \in P /\ pc[c] \notin P
  <2>1. (T \cap At(P))' = (T \cap At(P)) \cup {c} /\ c \notin T \cap At(P)
    BY <1>1, <1>5 DEF At
  <2>2. Cardinality((T \cap At(P)) \cup {c}) = Cardinality(T \cap At(P)) + 1
    BY <1>2, <2>1, FS_AddElement
  <2>3. Cardinality((T \cap At(P))') = Cardinality(T \cap At(P)) + 1
    BY <2>1, <2>2, Zenon
  <2> QED
    BY <1>3, <1>5, <2>3
<1>6. CASE l \notin P /\ pc[c] \in P
  <2>1. (T \cap At(P))' = (T \cap At(P)) \ {c} /\ c \in T \cap At(P)
    BY <1>1, <1>6 DEF At
  <2>2. Cardinality((T \cap At(P)) \ {c}) = Cardinality(T \cap At(P)) - 1
    BY <1>2, <2>1, FS_RemoveElement
  <2>3. Cardinality((T \cap At(P))') = Cardinality(T \cap At(P)) - 1
    BY <2>1, <2>2, Zenon
  <2> QED
    BY <1>3, <1>6, <2>3
<1>7. CASE l \notin P /\ pc[c] \notin P
  <2>1. (T \cap At(P))' = T \cap At(P)
    BY <1>1, <1>7 DEF At
  <2> QED
    BY <1>3, <1>7, <2>1
<1> QED
  BY <1>4, <1>5, <1>6, <1>7

(* The calls that are active at once are at most as many as the slots.     *)
LEMMA ActiveFitSlots ==
    ASSUME SlotsExclusive, NEW T \in SUBSET Active
    PROVE  /\ IsFiniteSet(T) /\ Cardinality(T) \in Nat /\ Cardinality(Slots) \in Nat
           /\ Cardinality(T) <= Cardinality(Slots)
<1>1. T \subseteq Calls
  BY DEF Active
<1> DEFINE f == [c \in T |-> SlotOf[c]]
<1>2. f \in Injection(T, Slots)
  <2>1. f \in [T -> Slots]
    BY <1>1, SlotsAssumption
  <2>2. \A c, d \in T : f[c] = f[d] => c = d
    BY DEF SlotsExclusive
  <2> QED
    BY <2>1, <2>2 DEF Injection, IsInjective
<1>3. IsFiniteSet(Slots)
  BY SlotsAssumption
<1> HIDE DEF f
<1>4. IsFiniteSet(T) /\ Cardinality(T) <= Cardinality(Slots)
  BY <1>2, <1>3, FS_Injection
<1> QED
  BY <1>3, <1>4, FS_CardinalityType

-----------------------------------------------------------------------------
(* What a step does to the coroutines: it moves one, to where TypeOK lets  *)
(* it be, and only one that begins becomes active, on a slot that is free. *)
Begun == {"wait_check", "wait_credit"}

LEMMA StepMoves ==
    ASSUME TypeOK, Next
    PROVE  \E c \in Calls, l \in PCs :
               /\ Goto(c, l)
               /\ pc[c] \notin Ended
               /\ pc[c] = "new" => l \in Begun /\ SlotFree(c)
<1>1. PICK c \in Calls :
          \/ Check(c) \/ AskTopUp(c) \/ Abandon(c) \/ Fail(c)
          \/ \E cost \in Charges : FinishLLMCall(c, cost)
          \/ Proceed(c) \/ TakeConnection(c)
  BY DEF Next
<1>2. CASE Check(c) \/ AskTopUp(c)
  BY <1>2 DEF Check, AskTopUp, Begun, PCs, Waiting, Ended
<1>3. CASE Abandon(c) \/ Fail(c)
  BY <1>3 DEF Abandon, Fail, CheckFails, CreateFails, AcquireFails, PCs, Waiting, Ended
<1>4. CASE \E cost \in Charges : FinishLLMCall(c, cost)
  BY <1>4 DEF FinishLLMCall, PCs, Waiting, Ended
<1>5. CASE FinishTopUp(c)
  BY <1>5 DEF FinishTopUp, TopUp, TopUpFails, PCs, Ended
<1>6. CASE ReadBalance(c) \/ FindNoWallet(c) \/ CreateWallet(c) \/ DebitAfterCall(c)
  BY <1>6 DEF ReadBalance, FindNoWallet, CreateWallet, DebitAfterCall,
              PCs, Waiting, InFlight, Ended
<1>7. CASE TakeConnection(c)
  BY <1>7 DEF TakeConnection, AcquireForCheck, AcquireForCreate, AcquireForDebit,
              AcquireForCredit, PCs, HoldOne, Ended
<1> QED
  BY <1>1, <1>2, <1>3, <1>4, <1>5, <1>6, <1>7 DEF Proceed

(* A slot that is taken stays one call's.                                  *)
LEMMA NextSlots == TypeOK /\ SlotsExclusive /\ [Next]_vars => SlotsExclusive'
<1> SUFFICES ASSUME TypeOK, SlotsExclusive, [Next]_vars PROVE SlotsExclusive'
  OBVIOUS
<1>1. CASE Next
  <2>1. PICK c \in Calls, l \in PCs :
            /\ Goto(c, l)
            /\ pc[c] \notin Ended
            /\ pc[c] = "new" => l \in Begun /\ SlotFree(c)
    BY <1>1, StepMoves
  <2>2. \A d \in Calls : pc'[d] = IF d = c THEN l ELSE pc[d]
    BY <2>1 DEF TypeOK, Goto
  <2>3. \A d \in Active' : d \in Active \/ (d = c /\ pc[c] = "new")
    BY <2>1, <2>2 DEF Active
  <2>4. CASE pc[c] = "new"
    BY <2>1, <2>3, <2>4 DEF SlotsExclusive, SlotFree
  <2>5. CASE pc[c] # "new"
    BY <2>3, <2>5 DEF SlotsExclusive
  <2> QED
    BY <2>4, <2>5
<1>2. CASE UNCHANGED vars
  BY <1>2 DEF vars, gateVars, SlotsExclusive, Active
<1> QED
  BY <1>1, <1>2

-----------------------------------------------------------------------------
(* Connections taken and given back balance on every path.                 *)
LEMMA NextPool ==
    TypeOK /\ PoolConserved /\ [Next]_vars => PoolConserved' /\ idle' \in 0..PoolSize
<1> SUFFICES ASSUME TypeOK, PoolConserved, [Next]_vars
             PROVE  PoolConserved' /\ idle' \in 0..PoolSize
  OBVIOUS
<1> DEFINE held(l) == (IF l \in HoldOne THEN 1 ELSE 0) + (IF l \in HoldTwo THEN 1 ELSE 0)
<1>1. \A P : Calls \cap At(P) = At(P) /\ (Calls \cap At(P))' = At(P)'
  BY DEF At
<1>2. \A P : Cardinality(At(P)) \in Nat /\ Cardinality(At(P)') \in Nat
  <2> TAKE P
  <2>1. At(P) \in SUBSET Calls /\ At(P)' \in SUBSET Calls
    BY DEF At
  <2> QED
    BY <2>1, CallsAssumption, FS_Subset, FS_CardinalityType
<1>3. idle \in 0..PoolSize /\ PoolSize \in Nat /\ pc \in [Calls -> PCs]
  BY PoolAssumption DEF TypeOK, PCs
<1>4. ASSUME NEW c \in Calls, NEW l, Goto(c, l),
             idle' = idle + held(pc[c]) - held(l), idle' >= 0
      PROVE  PoolConserved' /\ idle' \in 0..PoolSize
  <2>1. \A P : Cardinality(At(P)') = Cardinality(At(P))
                  + (IF l \in P THEN 1 ELSE 0) - (IF pc[c] \in P THEN 1 ELSE 0)
    <3> TAKE P
    <3>1. Cardinality((Calls \cap At(P))') = Cardinality(Calls \cap At(P))
              + (IF l \in P THEN 1 ELSE 0) - (IF pc[c] \in P THEN 1 ELSE 0)
      BY <1>3, <1>4, MoveCount
    <3> QED
      BY <1>1, <3>1
  <2>2. HoldOne' = HoldOne /\ HoldTwo' = HoldTwo
    BY DEF HoldOne, HoldTwo
  <2>3. idle' + Cardinality(At(HoldOne)') + Cardinality(At(HoldTwo)') = PoolSize
    BY <1>2, <1>3, <1>4, <2>1 DEF PoolConserved
  <2> QED
    BY <1>2, <1>3, <1>4, <2>2, <2>3 DEF PoolConserved
<1>5. ASSUME NEW c \in Calls, Check(c) \/ AskTopUp(c) \/ Abandon(c)
      PROVE  PoolConserved' /\ idle' \in 0..PoolSize
  BY <1>3, <1>4, <1>5 DEF Check, AskTopUp, Abandon, HoldOne, HoldTwo
<1>6. ASSUME NEW c \in Calls, NEW cost \in Charges, FinishLLMCall(c, cost)
      PROVE  PoolConserved' /\ idle' \in 0..PoolSize
  BY <1>3, <1>4, <1>6 DEF FinishLLMCall, HoldOne, HoldTwo
<1>7. ASSUME NEW c \in Calls, Fail(c)
      PROVE  PoolConserved' /\ idle' \in 0..PoolSize
  <2>1. CASE CheckFails(c) \/ CreateFails(c)
    BY <1>3, <1>4, <2>1 DEF CheckFails, CreateFails, Release, HoldOne, HoldTwo
  <2>2. CASE AcquireFails(c)
    BY <1>3, <1>4, <2>2 DEF AcquireFails, Release, Waiting, HoldOne, HoldTwo
  <2> QED
    BY <1>7, <2>1, <2>2 DEF Fail
<1>8. ASSUME NEW c \in Calls, Proceed(c)
      PROVE  PoolConserved' /\ idle' \in 0..PoolSize
  <2>1. CASE FinishTopUp(c)
    BY <1>3, <1>4, <2>1 DEF FinishTopUp, TopUp, TopUpFails, Release, HoldOne, HoldTwo
  <2>2. CASE ReadBalance(c) \/ FindNoWallet(c) \/ CreateWallet(c) \/ DebitAfterCall(c)
    BY <1>3, <1>4, <2>2 DEF ReadBalance, FindNoWallet, CreateWallet, DebitAfterCall,
                            Release, HoldOne, HoldTwo
  <2> QED
    BY <1>8, <2>1, <2>2 DEF Proceed
<1>9. ASSUME NEW c \in Calls, TakeConnection(c)
      PROVE  PoolConserved' /\ idle' \in 0..PoolSize
  BY <1>3, <1>4, <1>9 DEF TakeConnection, AcquireForCheck, AcquireForCreate, AcquireForDebit,
                          AcquireForCredit, Acquire, HoldOne, HoldTwo
<1>10. CASE UNCHANGED vars
  BY <1>3, <1>10 DEF vars, gateVars, PoolConserved, At, HoldOne, HoldTwo
<1> QED
  BY <1>5, <1>6, <1>7, <1>8, <1>9, <1>10 DEF Next

(* Every step keeps the types.                                             *)
LEMMA NextTyped == TypeOK /\ PoolConserved /\ [Next]_vars => TypeOK'
<1> SUFFICES ASSUME TypeOK, PoolConserved, [Next]_vars PROVE TypeOK'
  OBVIOUS
<1>1. idle' \in 0..PoolSize
  BY NextPool
<1>2. pc' \in [Calls -> PCs]
  <2>1. CASE Next
    BY <2>1, StepMoves DEF TypeOK, PCs, Goto
  <2> QED
    BY <2>1 DEF TypeOK, PCs, vars, gateVars
<1>3. charge' \in [Calls -> 0..MaxCharge]
  BY ChargesAssumption DEF TypeOK, Next, Check, AskTopUp, Abandon, FinishLLMCall,
     Fail, CheckFails, CreateFails, AcquireFails, FinishTopUp, TopUp, TopUpFails,
     Proceed, ReadBalance, FindNoWallet, CreateWallet, DebitAfterCall, TakeConnection,
     AcquireForCheck, AcquireForCreate, AcquireForDebit, AcquireForCredit, vars, gateVars
<1> DEFINE LedgerTyped ==
        /\ balance' \in [Tenants -> Int \cup {NoWallet}]
        /\ hard' \in [Tenants -> BOOLEAN]
        /\ outcome' \in [Calls -> {"pending", "ok", "error"} \cup Refusals]
<1>4. ASSUME UNCHANGED ledgerVars PROVE LedgerTyped
  BY <1>4 DEF ledgerVars, TypeOK
<1>5. ASSUME NEW c \in Calls, NEW t \in Tenants, NEW kind, NEW amount, NEW after \in Int,
             Post(c, t, kind, amount, after)
      PROVE  LedgerTyped
  BY <1>5 DEF Post, TypeOK
<1>6. ASSUME NEW c \in Calls, NEW t, NEW why \in Refusals, Refuse(c, t, why) \/ Lose(c)
      PROVE  LedgerTyped
  BY <1>6 DEF Refuse, Lose, TypeOK
<1>7. ASSUME NEW t \in Tenants, Open(t) PROVE LedgerTyped
  BY <1>7 DEF Open, TypeOK
<1> HIDE DEF LedgerTyped
<1>8. \A c \in Calls : TenantOf[c] \in Tenants
  BY TenantOfAssumption
<1>9. \A t \in Tenants : HasWallet(t) => balance[t] \in Int
  BY DEF HasWallet, TypeOK
<1>10. ASSUME NEW c \in Calls,
              \/ Check(c) \/ AskTopUp(c) \/ CheckFails(c) \/ AcquireFails(c) \/ Abandon(c)
              \/ TakeConnection(c) \/ ReadBalance(c) \/ FindNoWallet(c)
       PROVE  LedgerTyped
  BY <1>4, <1>10 DEF Check, AskTopUp, CheckFails, AcquireFails, Abandon, ReadBalance,
     FindNoWallet, TakeConnection, AcquireForCheck, AcquireForCreate, AcquireForDebit,
     AcquireForCredit
<1>11. ASSUME NEW c \in Calls, NEW cost, FinishLLMCall(c, cost) PROVE LedgerTyped
  BY <1>4, <1>11 DEF FinishLLMCall
<1>12. ASSUME NEW c \in Calls, FinishTopUp(c) PROVE LedgerTyped
  <2>1. \A amount \in TopUps, rounding \in {-1, 0, 1} :
            HasWallet(TenantOf[c]) => balance[TenantOf[c]] + amount + rounding \in Int
    <3> TAKE amount \in TopUps, rounding \in {-1, 0, 1}
    <3> HAVE HasWallet(TenantOf[c])
    <3>1. PICK b \in Int : b = balance[TenantOf[c]]
      BY <1>8, <1>9
    <3> QED
      BY <3>1, TopUpsAssumption
  <2>2. "no_wallet" \in Refusals
    BY DEF Refusals
  <2> QED
    BY <1>5, <1>6, <1>8, <1>12, <2>1, <2>2 DEF FinishTopUp, TopUp, TopUpFails
<1>13. ASSUME NEW c \in Calls, CreateWallet(c) \/ CreateFails(c) PROVE LedgerTyped
  BY <1>4, <1>7, <1>8, <1>13 DEF CreateWallet, CreateFails, InsertWallet
<1>14. ASSUME NEW c \in Calls, DebitAfterCall(c) PROVE LedgerTyped
  <2>1. HasWallet(TenantOf[c]) => balance[TenantOf[c]] - charge[c] \in Int
    BY <1>8, <1>9, ChargesAssumption DEF TypeOK
  <2>2. "no_wallet" \in Refusals /\ "insufficient" \in Refusals
    BY DEF Refusals
  <2> QED
    BY <1>5, <1>6, <1>8, <1>14, <2>1, <2>2 DEF DebitAfterCall
<1>15. LedgerTyped
  <2>1. CASE UNCHANGED vars
    BY <1>4, <2>1 DEF vars
  <2> QED
    BY <1>10, <1>11, <1>12, <1>13, <1>14, <2>1 DEF Next, Proceed, Fail
<1>16. withdrawn' \in [Tenants -> Nat]
  <2>1. CASE UNCHANGED withdrawn
    BY <2>1 DEF TypeOK
  <2>2. ASSUME NEW c \in Calls, NEW amount \in TopUps, NEW rounding \in {-1, 0, 1},
               TopUp(c, amount, rounding)
        PROVE  withdrawn' \in [Tenants -> Nat]
    <3>1. PICK t \in Tenants : t = TenantOf[c] /\ balance[t] \in Int
      BY <1>8, <1>9, <2>2 DEF TopUp
    <3>2. PICK after \in Int : after = balance[t] + amount + rounding
      BY <3>1, TopUpsAssumption
    <3>3. PICK taken \in Nat : taken = IF after < balance[t] THEN balance[t] - after ELSE 0
      BY <3>1, <3>2
    <3>4. withdrawn' = [withdrawn EXCEPT ![t] = IF after >= 0 THEN 0 ELSE @ + taken]
      BY <2>2, <3>1, <3>2, <3>3 DEF TopUp
    <3> QED
      BY <3>4 DEF TypeOK
  <2>3. (\E c \in Calls : FinishTopUp(c)) \/ UNCHANGED withdrawn
    BY DEF Next, Check, AskTopUp, Abandon, FinishLLMCall, Fail, CheckFails, CreateFails,
       AcquireFails, Proceed, ReadBalance, FindNoWallet, CreateWallet, DebitAfterCall,
       TakeConnection, AcquireForCheck, AcquireForCreate, AcquireForDebit, AcquireForCredit,
       vars, gateVars
  <2> QED
    BY <2>1, <2>2, <2>3 DEF FinishTopUp, TopUpFails
<1> QED
  BY <1>1, <1>2, <1>3, <1>15, <1>16 DEF TypeOK, PCs, LedgerTyped

-----------------------------------------------------------------------------
(* A tenant's calls in flight are counted, and at most as many as slots.   *)
InFlightFits ==
    \A t \in Tenants :
        /\ Cardinality(CallsOf(t) \cap At(InFlight)) \in Nat
        /\ Cardinality(CallsOf(t) \cap At(InFlight)) <= Cardinality(Slots)

(* That they are, since each has a slot to itself.                         *)
LEMMA InFlightCount == SlotsExclusive => InFlightFits
<1> SUFFICES ASSUME SlotsExclusive, NEW t \in Tenants
             PROVE  /\ Cardinality(CallsOf(t) \cap At(InFlight)) \in Nat
                    /\ Cardinality(CallsOf(t) \cap At(InFlight)) <= Cardinality(Slots)
  BY DEF InFlightFits
<1>1. CallsOf(t) \cap At(InFlight) \subseteq Active
  BY DEF CallsOf, At, Active, InFlight, Ended
<1> QED
  BY <1>1, ActiveFitSlots

(* What a step does to the number of a tenant's calls in flight.           *)
LEMMA InFlightMove ==
    ASSUME TypeOK, NEW t \in Tenants, NEW c \in Calls, NEW l, Goto(c, l)
    PROVE  Cardinality((CallsOf(t) \cap At(InFlight))') = Cardinality(CallsOf(t) \cap At(InFlight))
               + IF TenantOf[c] # t THEN 0
                 ELSE (IF l \in InFlight THEN 1 ELSE 0) - (IF pc[c] \in InFlight THEN 1 ELSE 0)
<1> DEFINE T == CallsOf(t)
<1>1. T \in SUBSET Calls /\ T' = T /\ (c \in T <=> TenantOf[c] = t)
  BY DEF CallsOf
<1>2. pc \in [Calls -> PCs] /\ InFlight' = InFlight
  BY DEF TypeOK, PCs, InFlight
<1>3. CASE TenantOf[c] = t
  <2>1. Cardinality((T \cap At(InFlight))') = Cardinality(T \cap At(InFlight))
            + (IF l \in InFlight THEN 1 ELSE 0) - (IF pc[c] \in InFlight THEN 1 ELSE 0)
    BY <1>1, <1>2, <1>3, MoveCount
  <2>2. IsFiniteSet(T \cap At(InFlight))
    BY <1>1, CallsAssumption, FS_Subset
  <2>3. Cardinality(T \cap At(InFlight)) \in Nat
    BY <2>2, FS_CardinalityType
  <2> QED
    BY <1>3, <2>1, <2>3
<1>4. CASE TenantOf[c] # t
  <2>1. \A d \in T : pc'[d] = pc[d]
    BY <1>1, <1>2, <1>4 DEF Goto
  <2>2. (T \cap At(InFlight))' = T \cap At(InFlight)
    BY <1>1, <1>2, <2>1 DEF At
  <2>3. IsFiniteSet(T \cap At(InFlight))
    BY <1>1, CallsAssumption, FS_Subset
  <2>4. Cardinality(T \cap At(InFlight)) \in Nat
    BY <2>3, FS_CardinalityType
  <2> QED
    BY <1>4, <2>2, <2>4
<1> QED
  BY <1>3, <1>4

(* Arithmetic of the bound: it widens with the room left, and by one       *)
(* charge when a call leaves.                                              *)
LEMMA MoreRoom ==
    ASSUME NEW M \in Nat, NEW a \in Nat, NEW b \in Nat, a <= b, NEW bal \in Int, bal >= - M * a
    PROVE  bal >= - M * b
<1>1. PICK d \in Nat : b = a + d
  <2>1. b - a \in Nat /\ b = a + (b - a)
    OBVIOUS
  <2> QED
    BY <2>1
<1>2. M * b = M * a + M * d /\ M * d >= 0 /\ - M * b = - (M * b) /\ - M * a = - (M * a)
  BY <1>1
<1>3. M * a \in Int /\ M * b \in Int /\ M * d \in Int
  BY <1>1
<1> QED
  BY <1>2, <1>3

(* A charge uses up the room of one call.                                  *)
LEMMA OneCharge ==
    ASSUME NEW M \in Nat, NEW a \in Nat, NEW bal \in Int, bal >= - M * a, NEW x \in 0..M
    PROVE  bal - x >= - M * (a + 1)
<1>1. - M * (a + 1) = - M * a - M /\ - M * a \in Int
  OBVIOUS
<1> QED
  BY <1>1

(* A top-up lowers the balance by no more than it adds to what top-ups     *)
(* took, unless it leaves the wallet without a debt.                       *)
LEMMA OneTopUp ==
    ASSUME NEW bal \in Int, NEW w \in Nat, NEW after \in Int, NEW taken \in Nat,
           taken = IF after < bal THEN bal - after ELSE 0
    PROVE  after + (w + taken) >= bal + w
  OBVIOUS

(* The overdraft grows only by the charge of a call that was in flight and *)
(* is so no longer, and a call is let through only on a positive balance.  *)
LEMMA NextOverdraft ==
    TypeOK /\ TypeOK' /\ SlotsExclusive /\ SlotsExclusive' /\ OverdraftBounded /\ [Next]_vars
        => OverdraftBounded'
<1> SUFFICES ASSUME TypeOK, TypeOK', SlotsExclusive, SlotsExclusive', OverdraftBounded,
                    [Next]_vars, NEW t \in Tenants, HasWallet(t)',
                    NEW n, n = Cardinality(CallsOf(t) \cap At(InFlight)),
                    NEW m, m = Cardinality((CallsOf(t) \cap At(InFlight))'),
                    NEW s, s = Cardinality(Slots)
             PROVE  balance'[t] >= - MaxCharge * (s - m) - withdrawn'[t]
  BY DEF OverdraftBounded
<1>1. n \in Nat /\ n <= s
  BY InFlightCount DEF InFlightFits
<1>2. m \in Nat /\ m <= s
  <2>1. InFlightFits'
    BY InFlightCount, PTL
  <2> QED
    BY <2>1 DEF InFlightFits
<1>3. s \in Nat /\ MaxCharge \in Nat
  BY SlotsAssumption, ChargesAssumption, FS_CardinalityType
<1>4. s - n \in Nat /\ s - m \in Nat
  BY <1>1, <1>2, <1>3
<1>w. withdrawn[t] \in Nat /\ withdrawn'[t] \in Nat /\ balance'[t] \in Int
  BY DEF TypeOK, HasWallet
<1>5. HasWallet(t) => /\ balance[t] \in Int
                      /\ balance[t] + withdrawn[t] >= - MaxCharge * (s - n)
  <2> SUFFICES ASSUME HasWallet(t)
               PROVE  /\ balance[t] \in Int
                      /\ balance[t] + withdrawn[t] >= - MaxCharge * (s - n)
    OBVIOUS
  <2>1. balance[t] \in Int /\ balance[t] >= - MaxCharge * (s - n) - withdrawn[t]
    BY DEF OverdraftBounded, TypeOK, HasWallet
  <2>2. PICK b \in Int : b = - MaxCharge * (s - n)
    BY <1>3, <1>4
  <2> QED
    BY <1>w, <2>1, <2>2
<1>g. ASSUME balance'[t] + withdrawn'[t] >= - MaxCharge * (s - m)
      PROVE  balance'[t] >= - MaxCharge * (s - m) - withdrawn'[t]
  <2>1. PICK b \in Int : b = - MaxCharge * (s - m)
    BY <1>3, <1>4
  <2> QED
    BY <1>w, <1>g, <2>1
<1>z. ASSUME balance'[t] >= 0
      PROVE  balance'[t] >= - MaxCharge * (s - m) - withdrawn'[t]
  <2>1. balance'[t] + withdrawn'[t] \in Int /\ balance'[t] + withdrawn'[t] >= - MaxCharge * 0
    BY <1>3, <1>w, <1>z
  <2> QED
    BY <1>3, <1>4, <1>g, <2>1, MoreRoom
<1>6. ASSUME balance'[t] = balance[t], withdrawn'[t] = withdrawn[t], m <= n
      PROVE  balance'[t] >= - MaxCharge * (s - m) - withdrawn'[t]
  <2>1. HasWallet(t)
    BY <1>6 DEF HasWallet
  <2>2. s - n <= s - m
    BY <1>1, <1>2, <1>3, <1>6
  <2>3. balance[t] + withdrawn[t] \in Int
    BY <1>5, <1>w, <2>1
  <2>4. balance[t] + withdrawn[t] >= - MaxCharge * (s - m)
    BY <1>3, <1>4, <1>5, <2>1, <2>2, <2>3, MoreRoom
  <2> QED
    BY <1>6, <1>g, <2>4
<1>7. ASSUME NEW c \in Calls, NEW l, Goto(c, l)
      PROVE  /\ TenantOf[c] # t => m = n
             /\ l \notin InFlight /\ pc[c] \notin InFlight => m = n
             /\ TenantOf[c] = t /\ l \notin InFlight /\ pc[c] \in InFlight => m = n - 1
             /\ (l \in InFlight => pc[c] \in InFlight) => m <= n
  <2> DEFINE to == l \in InFlight
             from == pc[c] \in InFlight
  <2>1. m = n + IF TenantOf[c] # t THEN 0
                ELSE (IF to THEN 1 ELSE 0) - (IF from THEN 1 ELSE 0)
    BY <1>7, InFlightMove
  <2> HIDE DEF to, from
  <2>2. /\ TenantOf[c] # t => m = n
        /\ ~to /\ ~from => m = n
        /\ TenantOf[c] = t /\ ~to /\ from => m = n - 1
        /\ (to => from) => m <= n
    BY <1>1, <2>1
  <2> QED
    BY <2>2 DEF to, from
<1>8. /\ "refused" \notin InFlight /\ "done" \notin InFlight /\ "failed" \notin InFlight
      /\ "creating" \notin InFlight /\ "crediting" \notin InFlight /\ "debiting" \in InFlight
  BY DEF InFlight
<1>9. ASSUME NEW c \in Calls,
             \/ Check(c) \/ AskTopUp(c) \/ CheckFails(c) \/ AcquireFails(c) \/ Abandon(c)
             \/ FindNoWallet(c) \/ TakeConnection(c) \/ TopUpFails(c)
             \/ \E cost \in Charges : FinishLLMCall(c, cost)
      PROVE  balance'[t] >= - MaxCharge * (s - m) - withdrawn'[t]
  <2>1. PICK l : Goto(c, l) /\ (l \in InFlight => pc[c] \in InFlight)
    BY <1>9 DEF Check, AskTopUp, CheckFails, AcquireFails, Abandon, FindNoWallet,
                TakeConnection, AcquireForCheck, AcquireForCreate, AcquireForDebit,
                AcquireForCredit, TopUpFails, FinishLLMCall, InFlight
  <2>2. m <= n
    BY <1>7, <2>1
  <2>3. balance' = balance /\ withdrawn' = withdrawn
    BY <1>9 DEF Check, AskTopUp, CheckFails, AcquireFails, Abandon, FindNoWallet,
                TakeConnection, AcquireForCheck, AcquireForCreate, AcquireForDebit,
                AcquireForCredit, TopUpFails, FinishLLMCall, Refuse, Lose, ledgerVars
  <2> QED
    BY <1>6, <2>2, <2>3
<1>10. ASSUME NEW c \in Calls, ReadBalance(c)
       PROVE  balance'[t] >= - MaxCharge * (s - m) - withdrawn'[t]
  <2>1. balance' = balance /\ withdrawn' = withdrawn
    BY <1>10 DEF ReadBalance, ledgerVars
  <2>2. CASE TenantOf[c] = t /\ balance[t] > 0
    BY <1>w, <1>z, <2>1, <2>2
  <2>3. CASE TenantOf[c] # t
    <3>1. PICK l : Goto(c, l)
      BY <1>10 DEF ReadBalance
    <3>2. m = n
      BY <1>7, <2>3, <3>1
    <3> QED
      BY <1>1, <1>6, <2>1, <3>2
  <2>4. CASE TenantOf[c] = t /\ ~ (balance[t] > 0)
    <3>1. Goto(c, "refused")
      BY <1>10, <2>4 DEF ReadBalance
    <3>2. m <= n
      BY <1>7, <1>8, <3>1
    <3> QED
      BY <1>6, <2>1, <3>2
  <2> QED
    BY <2>2, <2>3, <2>4
<1>11. ASSUME NEW c \in Calls, CreateWallet(c) \/ CreateFails(c)
       PROVE  balance'[t] >= - MaxCharge * (s - m) - withdrawn'[t]
  <2>1. /\ Goto(c, "refused") \/ Goto(c, "failed")
        /\ pc[c] = "creating" /\ withdrawn' = withdrawn
        /\ Open(TenantOf[c]) \/ UNCHANGED ledgerVars
    BY <1>11 DEF CreateWallet, CreateFails, InsertWallet
  <2>2. m <= n
    BY <1>7, <1>8, <2>1
  <2>3. CASE UNCHANGED ledgerVars
    BY <1>6, <2>1, <2>2, <2>3 DEF ledgerVars
  <2>4. CASE Open(TenantOf[c]) /\ TenantOf[c] # t
    <3>1. balance'[t] = balance[t]
      BY <2>4 DEF Open, TypeOK
    <3> QED
      BY <1>6, <2>1, <2>2, <3>1
  <2>5. CASE Open(TenantOf[c]) /\ TenantOf[c] = t
    <3>1. balance'[t] = 0
      BY <2>5 DEF Open, TypeOK
    <3> QED
      BY <1>z, <3>1
  <2> QED
    BY <2>1, <2>3, <2>4, <2>5
<1>12. ASSUME NEW c \in Calls, NEW amount \in TopUps, NEW rounding \in {-1, 0, 1},
              TopUp(c, amount, rounding)
       PROVE  balance'[t] >= - MaxCharge * (s - m) - withdrawn'[t]
  <2>1. Goto(c, "done") /\ pc[c] = "crediting" /\ HasWallet(TenantOf[c])
    BY <1>12 DEF TopUp
  <2>2. m = n
    BY <1>7, <1>8, <2>1
  <2>3. CASE TenantOf[c] # t
    <3>1. balance'[t] = balance[t] /\ withdrawn'[t] = withdrawn[t]
      BY <1>12, <2>3 DEF TopUp, Post, TypeOK
    <3> QED
      BY <1>1, <1>6, <2>2, <3>1
  <2>4. CASE TenantOf[c] = t
    <3>1. balance[t] \in Int /\ balance[t] + withdrawn[t] >= - MaxCharge * (s - n)
      BY <1>5, <2>1, <2>4
    <3>2. PICK after \in Int : after = balance[t] + amount + rounding
      BY <3>1, TopUpsAssumption
    <3>3. PICK taken \in Nat : taken = IF after < balance[t] THEN balance[t] - after ELSE 0
      BY <3>1, <3>2
    <3>4. /\ Post(c, t, "credit", amount, after)
          /\ withdrawn' = [withdrawn EXCEPT ![t] = IF after >= 0 THEN 0 ELSE @ + taken]
      BY <1>12, <2>4, <3>2, <3>3 DEF TopUp
    <3>5. balance'[t] = after
      BY <3>4 DEF Post, TypeOK
    <3>6. CASE after >= 0
      BY <1>z, <3>5, <3>6
    <3>7. CASE ~ (after >= 0)
      <4>1. withdrawn'[t] = withdrawn[t] + taken
        BY <3>4, <3>7 DEF TypeOK
      <4>2. after + (withdrawn[t] + taken) >= balance[t] + withdrawn[t]
        BY <1>w, <3>1, <3>3, OneTopUp
      <4>3. PICK b \in Int : b = - MaxCharge * (s - n) /\ b = - MaxCharge * (s - m)
        BY <1>3, <1>4, <2>2
      <4>4. after + (withdrawn[t] + taken) >= b
        BY <1>w, <3>1, <4>2, <4>3
      <4> QED
        BY <1>g, <3>5, <4>1, <4>3, <4>4
    <3> QED
      BY <3>6, <3>7
  <2> QED
    BY <2>3, <2>4
<1>13. ASSUME NEW c \in Calls, DebitAfterCall(c)
       PROVE  balance'[t] >= - MaxCharge * (s - m) - withdrawn'[t]
  <2> DEFINE u == TenantOf[c]
  <2>1. /\ Goto(c, "done") /\ pc[c] = "debiting" /\ charge[c] \in 0..MaxCharge
        /\ withdrawn' = withdrawn
    BY <1>13 DEF DebitAfterCall, TypeOK
  <2>2. u = t => m = n - 1
    BY <1>7, <1>8, <2>1
  <2>3. m <= n
    BY <1>7, <1>8, <2>1
  <2>4. CASE balance'[t] = balance[t]
    BY <1>6, <2>1, <2>3, <2>4
  <2>5. CASE HasWallet(u) /\ Post(c, u, "debit", -charge[c], balance[u] - charge[c])
    <3>1. CASE u # t
      <4>1. balance'[t] = balance[t]
        BY <2>5, <3>1 DEF Post, TypeOK
      <4> QED
        BY <2>4, <4>1
    <3>2. CASE u = t
      <4>1. balance'[t] = balance[t] - charge[c]
        BY <2>5, <3>2 DEF Post, TypeOK
      <4>2. s - m = (s - n) + 1
        BY <1>1, <1>3, <2>2, <3>2
      <4>3. PICK b \in Int : b = balance[t] + withdrawn[t] /\ b >= - MaxCharge * (s - n)
        BY <1>5, <1>w, <2>5, <3>2
      <4>4. b - charge[c] >= - MaxCharge * ((s - n) + 1)
        BY <1>3, <1>4, <2>1, <4>3, OneCharge
      <4>5. balance[t] \in Int /\ charge[c] \in Nat
        BY <1>3, <1>5, <2>1, <2>5, <3>2
      <4>6. (balance[t] - charge[c]) + withdrawn[t] = b - charge[c]
        BY <1>w, <4>3, <4>5
      <4> QED
        BY <1>g, <2>1, <4>1, <4>2, <4>4, <4>6
    <3> QED
      BY <3>1, <3>2
  <2> QED
    BY <1>13, <2>4, <2>5 DEF DebitAfterCall, Refuse, Lose
<1>14. CASE UNCHANGED vars
  <2>1. m = n /\ balance'[t] = balance[t] /\ withdrawn'[t] = withdrawn[t]
    BY <1>14 DEF vars, ledgerVars, gateVars, CallsOf, At, InFlight
  <2> QED
    BY <1>1, <1>6, <2>1
<1> QED
  BY <1>9, <1>10, <1>11, <1>12, <1>13, <1>14 DEF Next, Proceed, Fail, FinishTopUp

-----------------------------------------------------------------------------
(* Before any request nobody is active and no wallet is overdrawn.         *)
LEMMA InitInv == Init => Inv
<1> SUFFICES ASSUME Init PROVE Inv
  OBVIOUS
<1>1. TypeOK
  <2>1. balance \in [Tenants -> Int \cup {NoWallet}]
    BY OpeningFundedAssumption DEF Init, LedgerInit
  <2> QED
    BY <2>1, PoolAssumption, ChargesAssumption DEF Init, LedgerInit, TypeOK
<1>2. \A c \in Calls : pc[c] = "new"
  BY DEF Init
<1>3. SlotsExclusive
  BY <1>2 DEF SlotsExclusive, Active
<1>4. At(HoldOne) = {} /\ At(HoldTwo) = {} /\ \A t : CallsOf(t) \cap At(InFlight) = {}
  BY <1>2 DEF At, HoldOne, HoldTwo, InFlight
<1>5. PoolConserved
  BY <1>4, PoolAssumption, FS_EmptySet DEF PoolConserved, Init
<1>6. OverdraftBounded
  <2> SUFFICES ASSUME NEW t \in Tenants, HasWallet(t)
               PROVE  balance[t] >= - MaxCharge * (Cardinality(Slots) - 0) - withdrawn[t]
    BY <1>4, FS_EmptySet DEF OverdraftBounded
  <2>1. balance[t] \in Nat
    BY OpeningFundedAssumption DEF Init, LedgerInit, HasWallet
  <2>2. Cardinality(Slots) \in Nat /\ MaxCharge \in Nat
    BY SlotsAssumption, ChargesAssumption, FS_CardinalityType
  <2>3. balance[t] >= - MaxCharge * 0 /\ withdrawn[t] = 0
    BY <2>1, <2>2 DEF Init
  <2>4. balance[t] >= - MaxCharge * Cardinality(Slots)
    BY <2>1, <2>2, <2>3, MoreRoom
  <2>5. PICK b \in Int : b = - MaxCharge * Cardinality(Slots)
    BY <2>2
  <2> QED
    BY <2>1, <2>2, <2>3, <2>4, <2>5
<1> QED
  BY <1>1, <1>3, <1>5, <1>6 DEF Inv

(* The invariant holds throughout.                                         *)
THEOREM Invariance == Spec => []Inv
<1>1. Inv /\ [Next]_vars => Inv'
  BY NextTyped, NextSlots, NextPool, NextOverdraft DEF Inv
<1> QED
  BY InitInv, <1>1, PTL DEF Spec

(* Every variable of the gate keeps its type.                              *)
THEOREM TypeCorrect == Spec => []TypeOK
<1>1. Inv => TypeOK
  BY DEF Inv
<1> QED
  BY Invariance, <1>1, PTL

(* No path through check, _create_wallet, debit_after_call and the top-up  *)
(* endpoint, those of their exceptions included, leaks a connection or     *)
(* gives one back twice.                                                   *)
THEOREM PoolIsConserved == Spec => []PoolConserved
<1>1. Inv => PoolConserved
  BY DEF Inv
<1> QED
  BY Invariance, <1>1, PTL

(* Checking before the call and debiting after it overdraws a wallet by at *)
(* most one charge for each call that can be in flight, however many calls *)
(* are made.                                                               *)
THEOREM OverdraftIsBounded == Spec => []OverdraftBounded
<1>1. Inv => OverdraftBounded
  BY DEF Inv
<1> QED
  BY Invariance, <1>1, PTL

(* A pool with more connections than the server works on requests at a     *)
(* time is never exhausted by coroutines that all wait for a second one.   *)
THEOREM LargePoolSuffices ==
    ASSUME PoolSize > Cardinality(Slots)
    PROVE  Spec => []SomeoneCanGiveBack
<1>1. Inv => SomeoneCanGiveBack
  <2>0. Inv /\ idle # 0 => idle > 0
    BY PoolAssumption DEF Inv, TypeOK
  <2> SUFFICES ASSUME Inv, idle = 0, At(HoldOne \ Waiting) = {}
               PROVE  FALSE
    BY <2>0 DEF SomeoneCanGiveBack
  <2>1. At(HoldTwo) = {}
    BY DEF At, HoldOne, HoldTwo, Waiting
  <2>2. At(HoldOne) \subseteq Active
    BY DEF At, HoldOne, Active, Ended
  <2>3. Cardinality(At(HoldOne)) <= Cardinality(Slots) /\ Cardinality(At(HoldOne)) \in Nat
        /\ Cardinality(Slots) \in Nat
    BY <2>2, ActiveFitSlots DEF Inv
  <2>4. Cardinality(At(HoldOne)) = PoolSize
    BY <2>1, <2>3, FS_EmptySet, PoolAssumption DEF Inv, PoolConserved
  <2> QED
    BY <2>3, <2>4, PoolAssumption
<1> QED
  BY Invariance, <1>1, PTL

-----------------------------------------------------------------------------
(* A posting that adds its amount, give or take a quantum, is one that the *)
(* ledger allows.                                                          *)
LEMMA PostIsLedger ==
    ASSUME NEW c \in Calls, NEW t \in Tenants, NEW kind \in Kinds, NEW amount \in Amounts,
           NEW rounding \in {-1, 0, 1},
           Post(c, t, kind, amount, balance[t] + amount + rounding)
    PROVE  LedgerNext
  BY DEF LedgerNext

(* Every step of the gate is one of the ledger's, or leaves it alone.      *)
LEMMA GateStep ==
    ASSUME TypeOK, [Next]_vars,
           \A n \in 0..MaxCharge : -n \in Amounts, TopUps \subseteq Amounts
    PROVE  LedgerNext \/ UNCHANGED ledgerVars
<1>0. \A c \in Calls : TenantOf[c] \in Tenants
  BY TenantOfAssumption
<1>1. CASE UNCHANGED vars
  BY <1>1 DEF vars
<1>2. ASSUME NEW c \in Calls,
             \/ Check(c) \/ AskTopUp(c) \/ CheckFails(c) \/ AcquireFails(c) \/ Abandon(c)
             \/ TakeConnection(c)
      PROVE  UNCHANGED ledgerVars
  BY <1>2 DEF Check, AskTopUp, CheckFails, AcquireFails, Abandon, TakeConnection,
     AcquireForCheck, AcquireForCreate, AcquireForDebit, AcquireForCredit
<1>3. ASSUME NEW c \in Calls, NEW cost \in Charges, FinishLLMCall(c, cost)
      PROVE  UNCHANGED ledgerVars
  BY <1>3 DEF FinishLLMCall
<1>4. ASSUME NEW c \in Calls, FinishTopUp(c)
      PROVE  LedgerNext
  <2>1. ASSUME NEW amount \in TopUps, NEW rounding \in {-1, 0, 1},
               TopUp(c, amount, rounding)
        PROVE  LedgerNext
    <3>1. TenantOf[c] \in Tenants /\ amount \in Amounts /\ "credit" \in Kinds
      BY <1>0 DEF Kinds
    <3>2. Post(c, TenantOf[c], "credit", amount, balance[TenantOf[c]] + amount + rounding)
      BY <2>1 DEF TopUp
    <3> QED
      BY <3>1, <3>2, PostIsLedger
  <2>2. CASE TopUpFails(c)
    <3>1. "no_wallet" \in Refusals
      BY DEF Refusals
    <3> QED
      BY <1>0, <2>2, <3>1 DEF TopUpFails, LedgerNext
  <2> QED
    BY <1>4, <2>1, <2>2 DEF FinishTopUp
<1>5. ASSUME NEW c \in Calls, ReadBalance(c) \/ FindNoWallet(c)
      PROVE  UNCHANGED ledgerVars
  BY <1>5 DEF ReadBalance, FindNoWallet
<1>6. ASSUME NEW c \in Calls, CreateWallet(c) \/ CreateFails(c)
      PROVE  LedgerNext \/ UNCHANGED ledgerVars
  BY <1>0, <1>6 DEF CreateWallet, CreateFails, InsertWallet, LedgerNext
<1>7. ASSUME NEW c \in Calls, DebitAfterCall(c)
      PROVE  LedgerNext
  <2> DEFINE t == TenantOf[c]
  <2>1. t \in Tenants /\ charge[c] \in 0..MaxCharge /\ "debit" \in Kinds /\ "insufficient" \in Refusals
    BY <1>0 DEF TypeOK, Kinds, Refusals
  <2>2. CASE HasWallet(t) /\ Post(c, t, "debit", -charge[c], balance[t] - charge[c])
    <3>1. PICK n \in Int : n = charge[c]
      BY <2>1, ChargesAssumption
    <3>2. -n \in Amounts
      BY <2>1, <3>1
    <3>3. balance[t] \in Int
      BY <2>1, <2>2 DEF TypeOK, HasWallet
    <3>4. balance[t] - n = balance[t] + (-n) + 0
      BY <3>1, <3>3
    <3>5. Post(c, t, "debit", -n, balance[t] + (-n) + 0)
      BY <2>2, <3>1, <3>4
    <3> QED
      BY <2>1, <2>2, <3>2, <3>5, PostIsLedger
  <2>3. CASE Refuse(c, t, "insufficient")
    BY <2>1, <2>3 DEF LedgerNext
  <2>4. CASE Lose(c)
    BY <2>4 DEF LedgerNext
  <2> QED
    BY <1>7, <2>2, <2>3, <2>4 DEF DebitAfterCall
<1> QED
  BY <1>1, <1>2, <1>3, <1>4, <1>5, <1>6, <1>7 DEF Next, Proceed, Fail

(* Check before the call and debit after it, with top-ups in between, move *)
(* balances only as the ledger allows: by the amount of an entry that they *)
(* append, give or take the quantum a top-up rounds by, and under a hard   *)
(* stop no debit takes one below zero.  The ledger need only know the      *)
(* amounts that are charged and topped up.                                 *)
THEOREM GateKeepsLedger ==
    ASSUME \A n \in 0..MaxCharge : -n \in Amounts, TopUps \subseteq Amounts
    PROVE  Spec => LedgerSpec
<1>1. Init => LedgerInit
  BY DEF Init
<1>2. TypeOK /\ [Next]_vars => [LedgerNext]_ledgerVars
  BY GateStep
<1> QED
  BY <1>1, <1>2, TypeCorrect, PTL DEF Spec, LedgerSpec
=============================================================================
