-------------------------- MODULE Scheduler_proofs --------------------------
(***************************************************************************)
(* The two jobs of the scheduler, for any instance of their models: what   *)
(* reconcile_job compares (UsageAccounting) and what monthly_grant_job     *)
(* posts (MonthlyGrants).                                                  *)
(*                                                                         *)
(* The records of a call are proved to be what the call's usage makes of   *)
(* them (CallOK).  What is logged is then the vendor's bill but for the    *)
(* rounding, and an hour that has the same calls in both tables, priced    *)
(* alike, sums to totals that differ by a quantum a call at most.  The     *)
(* sums are the library's recursion over sets: that it computes a sum is   *)
(* proved from a smallest set for which it would not.                      *)
(***************************************************************************)
EXTENDS MonthlyGrants, UsageAccounting, FiniteSetsExt, TLAPS, FiniteSetTheorems,
        NaturalsInduction, WellFoundedInduction

(* Of some naturals, one is the least.                                     *)
LEMMA SmallestNat ==
    ASSUME NEW N \in SUBSET Nat, N # {}
    PROVE  \E m \in N : \A n \in N : m <= n
<1>1. PICK m \in N : \A n \in N : <<n, m>> \notin OpToRel(<, Nat)
  BY NatLessThanWellFounded, WFMin
<1>2. ASSUME NEW n \in N PROVE m <= n
  <2>1. n \in Nat /\ m \in Nat
    OBVIOUS
  <2>2. ~(n < m)
    BY <1>1, <2>1 DEF OpToRel
  <2> QED
    BY <2>1, <2>2
<1> QED
  BY <1>2


(* A sum's recursion: the element it takes out first, and what it makes of *)
(* a set.                                                                  *)
Some(s) == CHOOSE x \in s : TRUE
Summing(f, g, D) == g = [s \in D |-> IF s = {} THEN 0 ELSE f[Some(s)] + g[s \ {Some(s)}]]

LEMMA SomeIn == ASSUME NEW s, s # {} PROVE Some(s) \in s
BY DEF Some

(* Taking an element out makes a set smaller.                              *)
LEMMA Smaller ==
    ASSUME NEW S, IsFiniteSet(S), NEW s \in SUBSET S, s # {}
    PROVE  /\ Cardinality(s) \in Nat \ {0}
           /\ s \ {Some(s)} \in SUBSET S
           /\ Cardinality(s \ {Some(s)}) = Cardinality(s) - 1
<1>1. IsFiniteSet(s)
  BY FS_Subset
<1>2. Cardinality(s) \in Nat /\ Cardinality(s) # 0
  BY <1>1, FS_CardinalityType, FS_EmptySet
<1>3. Cardinality(s \ {Some(s)}) = Cardinality(s) - 1
  BY <1>1, SomeIn, FS_RemoveElement
<1> QED
  BY <1>2, <1>3

(* There is a function that sums every subset of a finite set: it can be   *)
(* extended from the subsets of one size to those of the next.             *)
LEMMA SummingExists ==
    ASSUME NEW f, NEW S, IsFiniteSet(S)
    PROVE  \E g : Summing(f, g, SUBSET S)
<1> DEFINE D(n) == {s \in SUBSET S : Cardinality(s) <= n}
           N == {n \in Nat : ~ \E g : Summing(f, g, D(n))}
<1>1. SUFFICES ASSUME N # {} PROVE FALSE
  <2>1. Cardinality(S) \in Nat /\ \A s \in SUBSET S : Cardinality(s) <= Cardinality(S)
    BY FS_CardinalityType, FS_Subset
  <2>2. D(Cardinality(S)) = SUBSET S
    BY <2>1
  <2>3. Cardinality(S) \notin N
    BY <1>1
  <2> QED
    BY <2>1, <2>2, <2>3
<1>2. PICK m \in N : \A n \in N : m <= n
  <2> HIDE DEF N
  <2>1. N \in SUBSET Nat
    BY DEF N
  <2> QED
    BY <1>1, <2>1, SmallestNat
<1>3. CASE m = 0
  <2>1. \A s \in D(0) : s = {}
    <3> SUFFICES ASSUME NEW s \in SUBSET S, Cardinality(s) <= 0 PROVE s = {}
      OBVIOUS
    <3>1. ASSUME s # {} PROVE FALSE
      <4>1. Cardinality(s) \in Nat \ {0}
        BY <3>1, Smaller
      <4> QED
        BY <4>1
    <3> QED
      BY <3>1
  <2>2. PICK g : g = [s \in D(0) |-> 0]
    OBVIOUS
  <2> HIDE DEF D
  <2>3. Summing(f, g, D(0))
    BY <2>1, <2>2 DEF Summing
  <2> QED
    BY <1>2, <1>3, <2>3
<1>4. CASE m # 0
  <2>1. m \in Nat /\ m - 1 \in Nat /\ m - 1 \notin N
    <3>1. m \in Nat
      OBVIOUS
    <3> HIDE DEF N
    <3>2. m - 1 \in Nat /\ ~(m <= m - 1)
      BY <1>4, <3>1
    <3> QED
      BY <1>2, <3>1, <3>2
  <2>2. PICK g : Summing(f, g, D(m - 1))
    BY <2>1
  <2>3. PICK h : h = [s \in D(m) |-> IF s = {} THEN 0 ELSE f[Some(s)] + g[s \ {Some(s)}]]
    OBVIOUS
  <2>4. ASSUME NEW s \in D(m), s # {}
        PROVE  s \ {Some(s)} \in D(m - 1)
    BY <2>1, <2>4, Smaller
  <2>5. D(m - 1) \subseteq D(m)
    <3> SUFFICES ASSUME NEW s \in SUBSET S, Cardinality(s) <= m - 1 PROVE Cardinality(s) <= m
      OBVIOUS
    <3>1. Cardinality(s) \in Nat
      BY FS_Subset, FS_CardinalityType
    <3> QED
      BY <2>1, <3>1
  <2> HIDE DEF D
  <2>6. \A s \in D(m - 1) : h[s] = g[s]
    BY <2>2, <2>3, <2>5 DEF Summing
  <2>7. Summing(f, h, D(m))
    BY <2>3, <2>4, <2>6 DEF Summing
  <2> QED
    BY <1>2, <2>7
<1> QED
  BY <1>3, <1>4

(* What the library's sum of a function over a set does.                   *)
LEMMA SumIsSumming ==
    ASSUME NEW f, NEW S, IsFiniteSet(S)
    PROVE  \E g : Summing(f, g, SUBSET S) /\ SumFunctionOnSet(f, S) = g[S]
<1>1. SumFunctionOnSet(f, S) = (CHOOSE g : Summing(f, g, SUBSET S))[S]
  BY DEF SumFunctionOnSet, FoldFunctionOnSet, MapThenFoldSet, Summing, Some
<1>2. Summing(f, CHOOSE g : Summing(f, g, SUBSET S), SUBSET S)
  BY SummingExists
<1> QED
  BY <1>1, <1>2

(* Two sums over a set whose terms differ by at most one differ by at most *)
(* the size of the set.                                                    *)
LEMMA SumsClose ==
    ASSUME NEW S, IsFiniteSet(S), NEW f \in [S -> Int], NEW h \in [S -> Int],
           \A x \in S : f[x] - h[x] <= 1 /\ h[x] - f[x] <= 1
    PROVE  /\ SumFunctionOnSet(f, S) \in Int /\ SumFunctionOnSet(h, S) \in Int
           /\ SumFunctionOnSet(f, S) - SumFunctionOnSet(h, S) <= Cardinality(S)
           /\ SumFunctionOnSet(h, S) - SumFunctionOnSet(f, S) <= Cardinality(S)
<1>1. PICK F : Summing(f, F, SUBSET S) /\ SumFunctionOnSet(f, S) = F[S]
  BY SumIsSumming
<1>2. PICK H : Summing(h, H, SUBSET S) /\ SumFunctionOnSet(h, S) = H[S]
  BY SumIsSumming
<1> DEFINE Close(s) == /\ F[s] \in Int /\ H[s] \in Int
                       /\ F[s] - H[s] <= Cardinality(s) /\ H[s] - F[s] <= Cardinality(s)
           Far == {s \in SUBSET S : ~Close(s)}
           N == {Cardinality(s) : s \in Far}
<1>3. ASSUME Far # {} PROVE FALSE
  <2>1. N \in SUBSET Nat /\ N # {}
    BY <1>3, FS_Subset, FS_CardinalityType
  <2>2. PICK m \in N : \A n \in N : m <= n
    <3> HIDE DEF N
    <3> QED
      BY <2>1, SmallestNat
  <2>3. PICK s \in Far : m = Cardinality(s)
    OBVIOUS
  <2>4. s # {}
    <3>1. F[{}] = 0 /\ H[{}] = 0 /\ Cardinality({}) = 0
      BY <1>1, <1>2, FS_EmptySet DEF Summing
    <3>2. Close({})
      BY <3>1
    <3> QED
      BY <3>2
  <2>5. PICK x \in S : x = Some(s)
    BY <2>4, SomeIn
  <2>6. PICK r \in SUBSET S : r = s \ {x}
    OBVIOUS
  <2>7. F[s] = f[x] + F[r] /\ H[s] = h[x] + H[r]
    BY <1>1, <1>2, <2>4, <2>5, <2>6 DEF Summing
  <2>8. Cardinality(s) \in Nat /\ Cardinality(r) = Cardinality(s) - 1
    BY <2>4, <2>5, <2>6, Smaller
  <2>9. Close(r)
    <3>1. CASE r \in Far
      <4>1. Cardinality(r) \in N
        BY <3>1
      <4> HIDE DEF N
      <4>2. Cardinality(s) <= Cardinality(r)
        BY <2>2, <2>3, <4>1
      <4> QED
        BY <2>8, <4>2
    <3> QED
      BY <3>1
  <2>10. f[x] \in Int /\ h[x] \in Int /\ f[x] - h[x] <= 1 /\ h[x] - f[x] <= 1
    OBVIOUS
  <2>11. Close(s)
    BY <2>7, <2>8, <2>9, <2>10
  <2> QED
    BY <2>11
<1>4. Close(S)
  BY <1>3
<1> QED
  BY <1>1, <1>2, <1>4

-----------------------------------------------------------------------------
(* What rounding to the nearest leaves: half a unit either way at most.    *)
LEMMA CentNear ==
    ASSUME NEW x \in Int
    PROVE  /\ HalfEven(x, 100) \in Int
           /\ 100 * HalfEven(x, 100) - x <= 50
           /\ x - 100 * HalfEven(x, 100) <= 50
           /\ x >= 0 => HalfEven(x, 100) \in Nat
BY DEF HalfEven

LEMMA MicroNear ==
    ASSUME NEW x \in Int
    PROVE  /\ HalfEven(x, 10000) \in Int
           /\ 10000 * HalfEven(x, 10000) - x <= 5000
           /\ x - 10000 * HalfEven(x, 10000) <= 5000
           /\ x >= 0 => HalfEven(x, 10000) \in Nat
BY DEF HalfEven

LEMMA LoggedNear ==
    ASSUME NEW k \in Nat
    PROVE  /\ Logged(k) \in Nat
           /\ 100 * Logged(k) - k <= 50
           /\ k - 100 * Logged(k) <= 50
<1>1. 100 \div 2 = 50
  OBVIOUS
<1>2. Logged(k) = (k + 50) \div 100
  BY <1>1 DEF Logged, Quantum
<1> QED
  BY <1>2

(* A cost that is charged without a markup: the two roundings of it differ *)
(* by a quantum at most.                                                   *)
LEMMA ExactCent ==
    ASSUME NEW q \in Int
    PROVE  HalfEven(q * 100, 100) = q
<1>1. (q * 100) \div 100 = q /\ (q * 100) % 100 = 0
  OBVIOUS
<1> QED
  BY <1>1 DEF HalfEven

LEMMA ChargedNearLogged ==
    ASSUME NEW c \in Calls, NEW k \in Nat, Markup[TenantOf[c]] = 100
    PROVE  /\ Charged(c, k) \in Int /\ Logged(k) \in Int
           /\ Charged(c, k) - Logged(k) <= 1
           /\ Logged(k) - Charged(c, k) <= 1
<1>0. k \in Int
  OBVIOUS
<1>1. PICK q \in Int : q = HalfEven(k, 100) /\ 100 * q - k <= 50 /\ k - 100 * q <= 50
  BY <1>0, CentNear
<1>2. Charged(c, k) = q
  BY <1>1, ExactCent DEF Charged, Quantize, Quantum
<1>3. PICK l \in Nat : l = Logged(k) /\ 100 * l - k <= 50 /\ k - 100 * l <= 50
  BY LoggedNear
<1>4. q - l <= 1 /\ l - q <= 1
  BY <1>1, <1>3
<1> QED
  BY <1>2, <1>3, <1>4

LEMMA ChargedNat ==
    ASSUME NEW c \in Calls, NEW k \in Nat
    PROVE  Charged(c, k) \in Nat
<1>1. PICK q \in Nat : q = HalfEven(k, 100)
  BY CentNear
<1>2. PICK m \in Nat : m = Markup[TenantOf[c]]
  BY MarkupAssumption, TenantOfAssumption
<1>3. q * m \in Int /\ q * m >= 0
  BY <1>1, <1>2
<1> QED
  BY <1>1, <1>2, <1>3, CentNear DEF Charged, Quantize, Quantum

(* The usage that a vendor's counters become, and what is passed on of it. *)
LEMMA ExtractTyped ==
    ASSUME NEW m \in Models, NEW b \in BillRows
    PROVE  Extract(m, b) \in Usages
<1>1. Family[m] \in Families
  BY FamilyAssumption
<1>2. b.fresh \in Nat /\ b.cached \in Nat /\ b.text \in Nat /\ b.thoughts \in Nat
  BY DEF BillRows
<1>3. /\ OpenAIUsage(b) \in Usages /\ GeminiUsage(b) \in Usages
      /\ AnthropicUsage(b) \in Usages
  BY <1>2 DEF OpenAIUsage, GeminiUsage, AnthropicUsage, Usages
<1> QED
  BY <1>1, <1>3 DEF Extract, Families

LEMMA PassOnTyped ==
    ASSUME NEW u \in Usages \cup {NoUsage}
    PROVE  /\ PassOn(u).prompt \in Nat /\ PassOn(u).output \in Nat
           /\ PassOn(u).cached = 0 /\ PassOn(u).thoughts = 0
BY DEF PassOn, ZeroUsage, Usages

(* The price list's row of today, if there is one.                         *)
LEMMA PriceTyped ==
    ASSUME TypeOK, NEW m \in Models
    PROVE  PriceOf(m) \in PriceRows \cup {NoPrice}
<1>1. Today \in Nat
  BY ClockAssumption DEF TypeOK, Today
<1>2. CASE ValidRows(m) = {}
  BY <1>2 DEF PriceOf
<1>3. CASE ValidRows(m) # {}
  <2>1. \A p \in ValidRows(m) : p \in PriceRows /\ p.from \in Nat /\ p.from <= Today
    BY PriceRowsAssumption DEF ValidRows, PriceTable
  <2> DEFINE N == {Today - p.from : p \in ValidRows(m)}
  <2>2. N \in SUBSET Nat /\ N # {}
    <3>1. \A p \in ValidRows(m) : Today - p.from \in Nat
      <4> SUFFICES ASSUME NEW p \in ValidRows(m) PROVE Today - p.from \in Nat
        OBVIOUS
      <4>1. p.from \in Nat /\ p.from <= Today
        BY <2>1
      <4> QED
        BY <1>1, <4>1
    <3> QED
      BY <1>3, <3>1
  <2>3. PICK d \in N : \A n \in N : d <= n
    <3> HIDE DEF N
    <3> QED
      BY <2>2, SmallestNat
  <2>4. PICK p \in ValidRows(m) : d = Today - p.from
    OBVIOUS
  <2>5. ASSUME NEW q \in ValidRows(m) PROVE q.from <= p.from
    <3>1. Today - p.from <= Today - q.from
      BY <2>3, <2>4
    <3>2. p.from \in Nat /\ q.from \in Nat
      BY <2>1
    <3> QED
      BY <1>1, <3>1, <3>2
  <2>6. PriceOf(m) \in ValidRows(m)
    <3>1. PriceOf(m) = CHOOSE r \in ValidRows(m) : \A q \in ValidRows(m) : q.from <= r.from
      BY <1>3 DEF PriceOf
    <3> HIDE DEF ValidRows
    <3> QED
      BY <2>5, <3>1
  <2> QED
    BY <2>1, <2>6
<1> QED
  BY <1>2, <1>3

LEMMA RowTyped ==
    ASSUME NEW p \in PriceRows, p.cached # NoPrice
    PROVE  p.input \in Nat /\ p.output \in Nat /\ p.cached \in Nat /\ p.cached <= p.input
BY PriceRowsAssumption, DiscountAssumption DEF PriceTable

(* What calculate_cost makes of the tokens passed on.                      *)
LEMMA CostOfPrompt ==
    ASSUME NEW u \in Usages \cup {NoUsage}, NEW p \in PriceRows,
           p # NoPrice, p.cached \notin {NoPrice, 0}
    PROVE  Cost(PassOn(u), p) =
               HalfEven(PassOn(u).prompt * p.input + PassOn(u).output * p.output, 10000)
<1>1. p.input \in Nat /\ p.output \in Nat /\ p.cached \in Nat
  BY RowTyped
<1>2. PICK v : v = PassOn(u) /\ v.prompt \in Nat /\ v.output \in Nat /\ v.cached = 0 /\ v.thoughts = 0
  BY PassOnTyped
<1>3. (v.prompt - v.cached) * p.input + v.cached * p.cached + (v.output + v.thoughts) * p.output
          = v.prompt * p.input + v.output * p.output
  <2>1. v.prompt - v.cached = v.prompt /\ v.output + v.thoughts = v.output
    BY <1>2
  <2>2. v.cached * p.cached = 0
    BY <1>1, <1>2
  <2>3. v.prompt * p.input \in Int /\ v.output * p.output \in Int
    BY <1>1, <1>2
  <2> QED
    BY <2>1, <2>2, <2>3
<1> QED
  BY <1>2, <1>3 DEF Cost

LEMMA CostTyped ==
    ASSUME NEW u \in Usages \cup {NoUsage}, NEW p \in PriceRows \cup {NoPrice}
    PROVE  Cost(PassOn(u), p) \in Nat
<1>1. CASE p = NoPrice \/ p.cached \in {NoPrice, 0}
  BY <1>1 DEF Cost
<1>2. CASE p # NoPrice /\ p.cached \notin {NoPrice, 0}
  <2>1. p \in PriceRows /\ p.input \in Nat /\ p.output \in Nat
    BY <1>2, RowTyped
  <2>2. PICK v : v = PassOn(u) /\ v.prompt \in Nat /\ v.output \in Nat
    BY PassOnTyped
  <2>3. v.prompt * p.input \in Nat /\ v.output * p.output \in Nat
    BY <2>1, <2>2
  <2>4. v.prompt * p.input + v.output * p.output \in Nat
    BY <2>3
  <2>5. PICK x \in Int : x = v.prompt * p.input + v.output * p.output /\ x >= 0
    BY <2>4
  <2>6. Cost(PassOn(u), p) = HalfEven(x, 10000)
    BY <1>2, <2>1, <2>2, <2>5, CostOfPrompt
  <2> QED
    BY <2>5, <2>6, MicroNear
<1> QED
  BY <1>1, <1>2

-----------------------------------------------------------------------------
(* The records of a call in the terms of what they were made from.         *)
UsageOK(s) == s.usage \in {Extract(s.model, s.bill), NoUsage}

LogOK(s) ==
    /\ s.log.state \in {"priced", "open", "stored"} =>
           s.log.cost = Cost(PassOn(s.usage), s.log.price)
    /\ s.log.state \in {"open", "stored"} => s.log.amount = Logged(s.log.cost)

DebitOK(c, s) ==
    s.debit.state \in {"open", "stored"} => s.debit.amount = Charged(c, s.debit.cost)

CallOK(c, s) == s \in CallState /\ UsageOK(s) /\ LogOK(s) /\ DebitOK(c, s)

UsageInv == TypeOK /\ \A c \in Calls : CallOK(c, call[c])

LEMMA RecordTyped ==
    ASSUME NEW state \in {"none", "due", "priced", "open", "stored", "lost"},
           NEW k \in Nat, NEW a \in Nat, NEW h \in 0..LastHour, NEW p \in PriceRows \cup {NoPrice}
    PROVE  [state |-> state, cost |-> k, amount |-> a, hour |-> h, price |-> p] \in Records
BY DEF Records

LEMMA StateSet ==
    ASSUME NEW r \in Records, NEW state \in {"none", "due", "priced", "open", "stored", "lost"}
    PROVE  /\ [r EXCEPT !.state = state] \in Records
           /\ [r EXCEPT !.state = state].state = state
           /\ [r EXCEPT !.state = state].cost = r.cost
           /\ [r EXCEPT !.state = state].amount = r.amount
           /\ [r EXCEPT !.state = state].hour = r.hour
           /\ [r EXCEPT !.state = state].price = r.price
BY DEF Records

LEMMA NoRecordTyped == NoRecord \in Records /\ LostRecord \in Records
BY ClockAssumption DEF NoRecord, LostRecord, Records

LEMMA UsageInitOK == Init => UsageInv
<1> SUFFICES ASSUME Init PROVE UsageInv
  OBVIOUS
<1>1. now \in 0..LastHour /\ reported \subseteq Tenants
  BY ClockAssumption DEF Init
<1>2. ASSUME NEW m \in Models, NEW b \in Bills, NEW c \in Calls
      PROVE  CallOK(c, [pc |-> "new", model |-> m, bill |-> b, usage |-> NoUsage,
                        log |-> NoRecord, debit |-> NoRecord])
  <2>1. [pc |-> "new", model |-> m, bill |-> b, usage |-> NoUsage,
         log |-> NoRecord, debit |-> NoRecord] \in CallState
    BY NoRecordTyped DEF CallState
  <2> QED
    BY <2>1 DEF CallOK, UsageOK, LogOK, DebitOK, NoRecord
<1>3. \A c \in Calls : CallOK(c, call[c])
  <2> SUFFICES ASSUME NEW c \in Calls PROVE CallOK(c, call[c])
    OBVIOUS
  <2>1. PICK m \in Models, b \in Bills :
            call[c] = [pc |-> "new", model |-> m, bill |-> b, usage |-> NoUsage,
                       log |-> NoRecord, debit |-> NoRecord]
    BY DEF Init
  <2> QED
    BY <1>2, <2>1
<1>4. call \in [Calls -> CallState]
  <2>1. call = [c \in Calls |-> call[c]]
    BY DEF Init
  <2> QED
    BY <1>3, <2>1 DEF CallOK
<1> QED
  BY <1>1, <1>3, <1>4 DEF UsageInv, TypeOK

(* What becomes of one call is all there is to prove of its steps.         *)
LEMMA CallStep ==
    ASSUME UsageInv, NEW c \in Calls, NEW s, CallOK(c, s), Become(c, s)
    PROVE  UsageInv'
<1>1. s \in CallState /\ call \in [Calls -> CallState]
  BY DEF CallOK, UsageInv, TypeOK
<1>2. call' = [call EXCEPT ![c] = s] /\ UNCHANGED <<now, reported>>
  BY DEF Become
<1>3. TypeOK'
  BY <1>1, <1>2 DEF UsageInv, TypeOK
<1>4. \A d \in Calls : CallOK(d, call'[d])
  <2> SUFFICES ASSUME NEW d \in Calls PROVE CallOK(d, call'[d])
    OBVIOUS
  <2>1. CASE d = c
    BY <1>1, <1>2, <2>1
  <2>2. CASE d # c
    <3>1. call'[d] = call[d]
      BY <1>1, <1>2, <2>2
    <3> QED
      BY <3>1 DEF UsageInv
  <2> QED
    BY <2>1, <2>2
<1> QED
  BY <1>3, <1>4 DEF UsageInv

LEMMA EndStreamOK == ASSUME UsageInv, NEW c \in Calls, EndStream(c) PROVE UsageInv'
<1>1. PICK s \in CallState : s = call[c] /\ CallOK(c, s)
  BY DEF UsageInv, CallOK
<1>2. PICK u \in {Extract(s.model, s.bill), NoUsage} :
          Become(c, [s EXCEPT !.pc = "done", !.usage = u, !.log.state = "due", !.debit.state = "due"])
  BY <1>1 DEF EndStream
<1>3. s.log \in Records /\ s.debit \in Records
  BY DEF CallState
<1>4. PICK l \in Records : l = [s.log EXCEPT !.state = "due"] /\ l.state = "due"
  <2>1. /\ [s.log EXCEPT !.state = "due"] \in Records
        /\ [s.log EXCEPT !.state = "due"].state = "due"
    BY <1>3, StateSet
  <2> QED
    BY <2>1
<1>5. PICK d \in Records : d = [s.debit EXCEPT !.state = "due"] /\ d.state = "due"
  <2>1. /\ [s.debit EXCEPT !.state = "due"] \in Records
        /\ [s.debit EXCEPT !.state = "due"].state = "due"
    BY <1>3, StateSet
  <2> QED
    BY <2>1
<1>6. PICK r : r = [s EXCEPT !.pc = "done", !.usage = u, !.log = l, !.debit = d]
  OBVIOUS
<1>7. u \in Usages \cup {NoUsage}
  <2>1. s.model \in Models /\ s.bill \in BillRows
    BY BillsAssumption DEF CallState
  <2> QED
    BY <2>1, ExtractTyped
<1>8. /\ r \in CallState /\ r.usage = u /\ r.model = s.model /\ r.bill = s.bill
      /\ r.log = l /\ r.debit = d
  BY <1>6, <1>7 DEF CallState
<1>9. CallOK(c, r)
  BY <1>4, <1>5, <1>8 DEF CallOK, UsageOK, LogOK, DebitOK
<1>10. Become(c, r)
  BY <1>2, <1>4, <1>5, <1>6
<1> QED
  BY <1>9, <1>10, CallStep

(* A step of the log's record: the rest of the call is as it was.          *)
LEMMA LogStep ==
    ASSUME UsageInv, NEW c \in Calls, NEW l \in Records, LogOK([call[c] EXCEPT !.log = l]),
           Become(c, [call[c] EXCEPT !.log = l])
    PROVE  UsageInv'
<1>1. PICK s \in CallState : s = call[c] /\ CallOK(c, s)
  BY DEF UsageInv, CallOK
<1>2. PICK r : r = [s EXCEPT !.log = l]
  OBVIOUS
<1>3. /\ r \in CallState /\ r.usage = s.usage /\ r.model = s.model /\ r.bill = s.bill
      /\ r.debit = s.debit
  BY <1>2 DEF CallState
<1>4. CallOK(c, r)
  BY <1>1, <1>2, <1>3 DEF CallOK, UsageOK, DebitOK
<1> QED
  BY <1>1, <1>2, <1>4, CallStep

(* And one of the debit's.                                                 *)
LEMMA DebitStep ==
    ASSUME UsageInv, NEW c \in Calls, NEW d \in Records, DebitOK(c, [call[c] EXCEPT !.debit = d]),
           Become(c, [call[c] EXCEPT !.debit = d])
    PROVE  UsageInv'
<1>1. PICK s \in CallState : s = call[c] /\ CallOK(c, s)
  BY DEF UsageInv, CallOK
<1>2. PICK r : r = [s EXCEPT !.debit = d]
  OBVIOUS
<1>3. /\ r \in CallState /\ r.usage = s.usage /\ r.model = s.model /\ r.bill = s.bill
      /\ r.log = s.log
  BY <1>2 DEF CallState
<1>4. CallOK(c, r)
  BY <1>1, <1>2, <1>3 DEF CallOK, UsageOK, LogOK
<1> QED
  BY <1>1, <1>2, <1>4, CallStep

LEMMA PriceLogOK == ASSUME UsageInv, NEW c \in Calls, PriceLog(c) PROVE UsageInv'
<1>1. PICK s \in CallState : s = call[c] /\ CallOK(c, s)
  BY DEF UsageInv, CallOK
<1>2. PICK p \in {PriceOf(s.model), NoPrice} :
          Become(c, [s EXCEPT !.log.state = "priced", !.log.price = p,
                              !.log.cost = Cost(PassOn(s.usage), p)])
  BY <1>1 DEF PriceLog
<1>3. s.log \in Records /\ s.usage \in Usages \cup {NoUsage} /\ s.model \in Models
  BY DEF CallState
<1>4. p \in PriceRows \cup {NoPrice}
  BY <1>3, PriceTyped DEF UsageInv
<1>5. PICK k \in Nat : k = Cost(PassOn(s.usage), p)
  BY <1>3, <1>4, CostTyped
<1>6. PICK l : l = [s.log EXCEPT !.state = "priced", !.price = p, !.cost = k]
  OBVIOUS
<1>7. l \in Records /\ l.state = "priced" /\ l.cost = k /\ l.price = p
  BY <1>3, <1>4, <1>6 DEF Records
<1>8. PICK r : r = [s EXCEPT !.log = l] /\ r.log = l /\ r.usage = s.usage
  <2>1. [s EXCEPT !.log = l].log = l /\ [s EXCEPT !.log = l].usage = s.usage
    BY DEF CallState
  <2> QED
    BY <2>1
<1>9. LogOK(r)
  BY <1>5, <1>7, <1>8 DEF LogOK
<1>10. Become(c, r)
  BY <1>2, <1>5, <1>6, <1>8
<1> QED
  BY <1>1, <1>7, <1>8, <1>9, <1>10, LogStep

LEMMA BeginLogOK == ASSUME UsageInv, NEW c \in Calls, BeginLog(c) PROVE UsageInv'
<1>1. PICK s \in CallState : s = call[c] /\ CallOK(c, s)
  BY DEF UsageInv, CallOK
<1>2. /\ s.log.state = "priced"
      /\ Become(c, [s EXCEPT !.log.state = "open", !.log.hour = now, !.log.amount = Logged(s.log.cost)])
  BY <1>1 DEF BeginLog
<1>3. s.log \in Records /\ s.log.cost \in Nat
  BY DEF CallState, Records
<1>4. PICK a \in Nat : a = Logged(s.log.cost)
  BY <1>3, LoggedNear
<1>5. PICK l : l = [s.log EXCEPT !.state = "open", !.hour = now, !.amount = a]
  OBVIOUS
<1>6. now \in 0..LastHour
  BY DEF UsageInv, TypeOK
<1>7. /\ l \in Records /\ l.state = "open" /\ l.cost = s.log.cost /\ l.price = s.log.price
      /\ l.amount = a
  BY <1>3, <1>5, <1>6 DEF Records
<1>8. PICK r : r = [s EXCEPT !.log = l] /\ r.log = l /\ r.usage = s.usage
  <2>1. [s EXCEPT !.log = l].log = l /\ [s EXCEPT !.log = l].usage = s.usage
    BY DEF CallState
  <2> QED
    BY <2>1
<1>9. LogOK(r)
  BY <1>1, <1>2, <1>4, <1>7, <1>8 DEF LogOK, CallOK
<1>10. Become(c, r)
  BY <1>2, <1>4, <1>5, <1>8
<1> QED
  BY <1>1, <1>7, <1>8, <1>9, <1>10, LogStep

LEMMA BeginDebitOK == ASSUME UsageInv, NEW c \in Calls, BeginDebit(c) PROVE UsageInv'
<1>1. PICK s \in CallState : s = call[c] /\ CallOK(c, s)
  BY DEF UsageInv, CallOK
<1>2. PICK p \in {PriceOf(s.model), NoPrice} :
          Become(c, [s EXCEPT !.debit =
              [state |-> "open", cost |-> Cost(PassOn(s.usage), p), price |-> p, hour |-> now,
               amount |-> Charged(c, Cost(PassOn(s.usage), p))]])
  BY <1>1 DEF BeginDebit
<1>3. s.usage \in Usages \cup {NoUsage} /\ s.model \in Models
  BY DEF CallState
<1>4. p \in PriceRows \cup {NoPrice}
  BY <1>3, PriceTyped DEF UsageInv
<1>5. PICK k \in Nat : k = Cost(PassOn(s.usage), p)
  BY <1>3, <1>4, CostTyped
<1>6. PICK a \in Nat : a = Charged(c, k)
  BY ChargedNat
<1>7. now \in 0..LastHour
  BY DEF UsageInv, TypeOK
<1>8. PICK d : d = [state |-> "open", cost |-> k, price |-> p, hour |-> now, amount |-> a]
  OBVIOUS
<1>9. d \in Records /\ d.cost = k /\ d.amount = a
  BY <1>4, <1>7, <1>8 DEF Records
<1>10. PICK r : r = [s EXCEPT !.debit = d] /\ r.debit = d
  <2>1. [s EXCEPT !.debit = d].debit = d
    BY DEF CallState
  <2> QED
    BY <2>1
<1>11. DebitOK(c, r)
  BY <1>6, <1>9, <1>10 DEF DebitOK
<1>12. Become(c, r)
  BY <1>2, <1>5, <1>6, <1>8, <1>10
<1> QED
  BY <1>1, <1>9, <1>10, <1>11, <1>12, DebitStep

LEMMA StoreLogOK == ASSUME UsageInv, NEW c \in Calls, StoreLog(c) PROVE UsageInv'
<1>1. PICK s \in CallState : s = call[c] /\ CallOK(c, s)
  BY DEF UsageInv, CallOK
<1>2. s.log \in Records /\ s.log.state = "open"
  BY <1>1 DEF StoreLog, CallState
<1>3. PICK l \in Records :
          /\ Become(c, [s EXCEPT !.log = l])
          /\ \/ l.state = "stored" /\ l.cost = s.log.cost /\ l.amount = s.log.amount /\ l.price = s.log.price
             \/ l.state = "lost"
  <2>1. CASE Become(c, [s EXCEPT !.log.state = "stored"])
    <3>1. PICK l : l = [s.log EXCEPT !.state = "stored"]
      OBVIOUS
    <3>2. /\ l \in Records /\ l.state = "stored" /\ l.cost = s.log.cost
          /\ l.amount = s.log.amount /\ l.price = s.log.price
      BY <1>2, <3>1, StateSet
    <3>3. Become(c, [s EXCEPT !.log = l])
      BY <2>1, <3>1
    <3> QED
      BY <3>2, <3>3
  <2>2. CASE Become(c, [s EXCEPT !.log = LostRecord])
    BY <2>2, NoRecordTyped DEF LostRecord, NoRecord
  <2> QED
    BY <1>1, <2>1, <2>2 DEF StoreLog
<1>4. PICK r : r = [s EXCEPT !.log = l] /\ r.log = l /\ r.usage = s.usage
  <2>1. [s EXCEPT !.log = l].log = l /\ [s EXCEPT !.log = l].usage = s.usage
    BY DEF CallState
  <2> QED
    BY <2>1
<1>5. LogOK(s)
  BY <1>1 DEF CallOK
<1>6. LogOK(r)
  BY <1>2, <1>3, <1>4, <1>5 DEF LogOK
<1> QED
  BY <1>1, <1>3, <1>4, <1>6, LogStep

LEMMA StoreDebitOK == ASSUME UsageInv, NEW c \in Calls, StoreDebit(c) PROVE UsageInv'
<1>1. PICK s \in CallState : s = call[c] /\ CallOK(c, s)
  BY DEF UsageInv, CallOK
<1>2. s.debit \in Records /\ s.debit.state = "open"
  BY <1>1 DEF StoreDebit, CallState
<1>3. PICK d \in Records :
          /\ Become(c, [s EXCEPT !.debit = d])
          /\ \/ d.state = "stored" /\ d.cost = s.debit.cost /\ d.amount = s.debit.amount
             \/ d.state = "lost"
  <2>1. CASE Become(c, [s EXCEPT !.debit.state = "stored"])
    <3>1. PICK d : d = [s.debit EXCEPT !.state = "stored"]
      OBVIOUS
    <3>2. /\ d \in Records /\ d.state = "stored" /\ d.cost = s.debit.cost
          /\ d.amount = s.debit.amount
      BY <1>2, <3>1, StateSet
    <3>3. Become(c, [s EXCEPT !.debit = d])
      BY <2>1, <3>1
    <3> QED
      BY <3>2, <3>3
  <2>2. CASE Become(c, [s EXCEPT !.debit = LostRecord])
    BY <2>2, NoRecordTyped DEF LostRecord, NoRecord
  <2> QED
    BY <1>1, <2>1, <2>2 DEF StoreDebit
<1>4. PICK r : r = [s EXCEPT !.debit = d] /\ r.debit = d
  <2>1. [s EXCEPT !.debit = d].debit = d
    BY DEF CallState
  <2> QED
    BY <2>1
<1>5. DebitOK(c, s)
  BY <1>1 DEF CallOK
<1>6. DebitOK(c, r)
  BY <1>2, <1>3, <1>4, <1>5 DEF DebitOK
<1> QED
  BY <1>1, <1>3, <1>4, <1>6, DebitStep

(* The hour passes.  What a restart finds unfinished is lost.              *)
LEMMA HourTyped == ASSUME UsageInv, NextHour PROVE now' \in 0..LastHour
BY ClockAssumption DEF UsageInv, TypeOK, NextHour

LEMMA ReconcileOK == ASSUME UsageInv, Reconcile \/ ReconcileMissed PROVE UsageInv'
<1>1. now' \in 0..LastHour
  BY HourTyped DEF Reconcile, ReconcileMissed
<1>2. UNCHANGED call /\ reported' \subseteq Tenants
  <2>1. CASE Reconcile
    <3> HIDE DEF DebitsOf, LogsOf, TotalDebited, TotalCost
    <3> QED
      BY <2>1 DEF Reconcile
  <2>2. CASE ReconcileMissed
    BY <2>2 DEF ReconcileMissed
  <2> QED
    BY <2>1, <2>2
<1> QED
  BY <1>1, <1>2 DEF UsageInv, TypeOK

LEMMA AbandonedIs ==
    ASSUME NEW r \in Records
    PROVE  /\ Abandoned(r) \in Records
           /\ \/ Abandoned(r) = r
              \/ Abandoned(r).state = "lost"
BY NoRecordTyped DEF Abandoned, LostRecord, NoRecord

LEMMA RestartOK == ASSUME UsageInv, Restart PROVE UsageInv'
<1>1. now' \in 0..LastHour /\ reported' = {}
  BY HourTyped DEF Restart
<1>2. call' = [c \in Calls |-> [call[c] EXCEPT !.log = Abandoned(call[c].log),
                                               !.debit = Abandoned(call[c].debit)]]
  BY DEF Restart
<1>3. ASSUME NEW c \in Calls PROVE CallOK(c, call'[c])
  <2>1. PICK s \in CallState : s = call[c] /\ CallOK(c, s)
    BY DEF UsageInv, CallOK
  <2>2. s.log \in Records /\ s.debit \in Records
    BY DEF CallState
  <2>3. PICK l \in Records : l = Abandoned(s.log) /\ (l = s.log \/ l.state = "lost")
    BY <2>2, AbandonedIs
  <2>4. PICK d \in Records : d = Abandoned(s.debit) /\ (d = s.debit \/ d.state = "lost")
    BY <2>2, AbandonedIs
  <2>5. PICK r : r = [s EXCEPT !.log = l, !.debit = d]
    OBVIOUS
  <2>6. /\ r \in CallState /\ r.log = l /\ r.debit = d
        /\ r.usage = s.usage /\ r.model = s.model /\ r.bill = s.bill
    BY <2>5 DEF CallState
  <2>7. call'[c] = r
    BY <1>2, <2>1, <2>3, <2>4, <2>5
  <2>8. LogOK(r)
    BY <2>1, <2>3, <2>6 DEF CallOK, LogOK
  <2>9. DebitOK(c, r)
    BY <2>1, <2>4, <2>6 DEF CallOK, DebitOK
  <2>10. UsageOK(r)
    BY <2>1, <2>6 DEF CallOK, UsageOK
  <2> QED
    BY <2>6, <2>7, <2>8, <2>9, <2>10 DEF CallOK
<1>4. call' \in [Calls -> CallState]
  <2>1. call' = [c \in Calls |-> call'[c]]
    BY <1>2
  <2> QED
    BY <1>3, <2>1 DEF CallOK
<1> QED
  BY <1>1, <1>3, <1>4 DEF UsageInv, TypeOK

LEMMA UsageNextOK == UsageInv /\ [Next]_vars => UsageInv'
<1>1. ASSUME UsageInv, UNCHANGED vars PROVE UsageInv'
  BY <1>1 DEF vars, UsageInv, TypeOK
<1>2. ASSUME UsageInv, Next PROVE UsageInv'
  <2>1. ASSUME NEW c \in Calls,
               EndStream(c) \/ PriceLog(c) \/ BeginLog(c) \/ StoreLog(c) \/ BeginDebit(c) \/ StoreDebit(c)
        PROVE  UsageInv'
    BY <1>2, <2>1, EndStreamOK, PriceLogOK, BeginLogOK, StoreLogOK, BeginDebitOK, StoreDebitOK
  <2> QED
    BY <1>2, <2>1, ReconcileOK, RestartOK DEF Next
<1> QED
  BY <1>1, <1>2

LEMMA UsageInvariance == Spec => []UsageInv
BY UsageInitOK, UsageNextOK, PTL DEF Spec

-----------------------------------------------------------------------------
(* Every call and its two records keep their types.                        *)
THEOREM TypeCorrect == Spec => []TypeOK
<1>1. UsageInv => TypeOK
  BY DEF UsageInv
<1> QED
  BY <1>1, UsageInvariance, PTL

-----------------------------------------------------------------------------
(* The tokens passed on, priced, and the vendor's bill: they differ by what *)
(* the log does not see and by the discount on the cache, which it does not *)
(* either.                                                                 *)
LEMMA Tokens ==
    ASSUME NEW fresh \in Nat, NEW cached \in Nat, NEW text \in Nat, NEW thoughts \in Nat,
           NEW input \in Nat, NEW output \in Nat, NEW rate \in Nat, rate <= input
    PROVE  /\ fresh * input \in Nat /\ cached * input \in Nat /\ cached * rate \in Nat
           /\ text * output \in Nat /\ thoughts * output \in Nat
           /\ cached * (input - rate) \in Int
           /\ cached * (input - rate) >= 0
           /\ cached * (input - rate) = cached * input - cached * rate
           /\ (fresh + cached) * input = fresh * input + cached * input
           /\ (text + thoughts) * output = text * output + thoughts * output
<1>1. /\ fresh * input \in Nat /\ cached * input \in Nat /\ cached * rate \in Nat
      /\ text * output \in Nat /\ thoughts * output \in Nat
  OBVIOUS
<1>2. PICK off \in Nat : off = input - rate
  OBVIOUS
<1>3. cached * off \in Int /\ cached * off >= 0
  BY <1>2
<1>4. cached * (input - rate) = cached * input - cached * rate
  OBVIOUS
<1>5. (fresh + cached) * input = fresh * input + cached * input
  OBVIOUS
<1>6. (text + thoughts) * output = text * output + thoughts * output
  OBVIOUS
<1> QED
  BY <1>1, <1>2, <1>3, <1>4, <1>5, <1>6

LEMMA PassedOnCoversBill ==
    ASSUME NEW m \in Models, NEW b \in BillRows, NEW p \in PriceRows,
           p # NoPrice, p.cached \notin {NoPrice, 0}, Extract(m, b) # NoUsage
    PROVE  \E x \in Nat, v \in Int, extra \in Nat :
               /\ x = PassOn(Extract(m, b)).prompt * p.input + PassOn(Extract(m, b)).output * p.output
               /\ v = VendorCost(b, p) - Unseen(Family[m], b, p)
               /\ extra = b.cached * (p.input - p.cached)
               /\ v <= x /\ x <= v + extra
<1>1. PICK fresh \in Nat, cached \in Nat, text \in Nat, thoughts \in Nat :
          b = [fresh |-> fresh, cached |-> cached, text |-> text, thoughts |-> thoughts]
  BY DEF BillRows
<1>2. PICK input \in Nat, output \in Nat, rate \in Nat :
          p.input = input /\ p.output = output /\ p.cached = rate /\ rate <= input
  BY RowTyped
<1>3. PICK fi \in Nat, ci \in Nat, cr \in Nat, to \in Nat, ho \in Nat, extra \in Nat :
          /\ fi = fresh * input /\ ci = cached * input /\ cr = cached * rate
          /\ to = text * output /\ ho = thoughts * output
          /\ extra = cached * (input - rate) /\ extra = ci - cr
          /\ (fresh + cached) * input = fi + ci
          /\ (text + thoughts) * output = to + ho
  BY <1>2, Tokens
<1>4. VendorCost(b, p) = fi + cr + (to + ho)
  BY <1>1, <1>2, <1>3 DEF VendorCost
<1>5. extra = b.cached * (p.input - p.cached)
  BY <1>1, <1>2, <1>3
<1> DEFINE u == Extract(m, b)
<1>6. PassOn(u).prompt = u.prompt /\ PassOn(u).output = u.output
  <2>1. u \in Usages /\ u # NoUsage
    BY ExtractTyped
  <2> HIDE DEF u
  <2> QED
    BY <2>1 DEF PassOn, Usages
<1> DEFINE Covers(x, v) == /\ x = u.prompt * input + u.output * output
                           /\ Unseen(Family[m], b, p) \in Nat
                           /\ v = fi + cr + (to + ho) - Unseen(Family[m], b, p)
                           /\ v <= x /\ x <= v + extra
<1>7. PICK x \in Nat, v \in Int : Covers(x, v)
  <2>1. CASE Family[m] = "openai"
    <3>1. u.prompt = fresh + cached /\ u.output = text + thoughts
      BY <1>1, <2>1 DEF Extract, OpenAIUsage
    <3>2. Unseen(Family[m], b, p) = 0
      BY <2>1 DEF Unseen
    <3>3. PICK x \in Nat, v \in Int : x = fi + ci + (to + ho) /\ v = fi + cr + (to + ho) - 0
      OBVIOUS
    <3>4. v <= x /\ x <= v + extra
      BY <1>3, <3>3
    <3>5. Covers(x, v)
      <4> HIDE DEF u
      <4> QED
        BY <1>3, <3>1, <3>2, <3>3, <3>4
    <3> QED
      BY <3>5
  <2>2. CASE Family[m] = "gemini"
    <3>1. u.prompt = fresh + cached /\ u.output = text
      BY <1>1, <2>2 DEF Extract, GeminiUsage
    <3>2. Unseen(Family[m], b, p) = ho
      BY <1>1, <1>2, <1>3, <2>2 DEF Unseen
    <3>3. PICK x \in Nat, v \in Int : x = fi + ci + to /\ v = fi + cr + (to + ho) - ho
      OBVIOUS
    <3>4. v <= x /\ x <= v + extra
      BY <1>3, <3>3
    <3>5. Covers(x, v)
      <4> HIDE DEF u
      <4> QED
        BY <1>3, <3>1, <3>2, <3>3, <3>4
    <3> QED
      BY <3>5
  <2>3. CASE Family[m] = "anthropic"
    <3>1. u.prompt = fresh /\ u.output = text + thoughts
      BY <1>1, <2>3 DEF Extract, AnthropicUsage
    <3>2. Unseen(Family[m], b, p) = cr
      BY <1>1, <1>2, <1>3, <2>3 DEF Unseen
    <3>3. PICK x \in Nat, v \in Int : x = fi + (to + ho) /\ v = fi + cr + (to + ho) - cr
      OBVIOUS
    <3>4. v <= x /\ x <= v + extra
      BY <1>3, <3>3
    <3>5. Covers(x, v)
      <4> HIDE DEF u
      <4> QED
        BY <1>3, <3>1, <3>2, <3>3, <3>4
    <3> QED
      BY <3>5
  <2>4. Family[m] \in Families
    BY FamilyAssumption
  <2> HIDE DEF Covers
  <2> QED
    BY <2>1, <2>2, <2>3, <2>4 DEF Families
<1>8. x = PassOn(u).prompt * p.input + PassOn(u).output * p.output
  BY <1>2, <1>6, <1>7
<1>9. v = VendorCost(b, p) - Unseen(Family[m], b, p)
  <2>1. PICK w \in Int : w = fi + cr + (to + ho)
    OBVIOUS
  <2>2. PICK h \in Nat : h = Unseen(Family[m], b, p) /\ v = w - h
    BY <1>7, <2>1
  <2>3. w = VendorCost(b, p)
    BY <1>4, <2>1
  <2> QED
    BY <2>2, <2>3
<1>10. v <= x /\ x <= v + extra
  BY <1>7
<1> QED
  BY <1>5, <1>8, <1>9, <1>10

(* A row that was priced is logged for no less than the vendor's bill for  *)
(* what the log sees, to the quantum, and for no more than that with the   *)
(* whole prompt at the full price.                                         *)
LEMMA RoundingCovers ==
    ASSUME NEW x \in Nat, NEW v \in Int, NEW extra \in Nat, v <= x, x <= v + extra
    PROVE  /\ 1000000 * (Logged(HalfEven(x, 10000)) + 1) >= v
           /\ 1000000 * (Logged(HalfEven(x, 10000)) - 1) <= v + extra
<1>1. x \in Int /\ x >= 0
  OBVIOUS
<1>2. PICK k \in Nat : k = HalfEven(x, 10000) /\ 10000 * k - x <= 5000 /\ x - 10000 * k <= 5000
  <2>1. /\ HalfEven(x, 10000) \in Nat /\ 10000 * HalfEven(x, 10000) - x <= 5000
        /\ x - 10000 * HalfEven(x, 10000) <= 5000
    BY <1>1, MicroNear
  <2> QED
    BY <2>1
<1>3. PICK a \in Nat : a = Logged(k) /\ 100 * a - k <= 50 /\ k - 100 * a <= 50
  BY LoggedNear
<1>4. 1000000 * (a + 1) >= v /\ 1000000 * (a - 1) <= v + extra
  BY <1>2, <1>3
<1> QED
  BY <1>2, <1>3, <1>4

(* Every call's usage is logged for what it costs: the vendor's bill for   *)
(* what the log sees of it, and nothing twice.                             *)
THEOREM BillCovered == Spec => []LoggedCoversBill
<1>1. ASSUME UsageInv PROVE LoggedCoversBill
  <2> SUFFICES ASSUME NEW c \in Calls, call[c].log.state = "stored", call[c].usage # NoUsage,
                      call[c].log.price # NoPrice, call[c].log.price.cached \notin {NoPrice, 0}
               PROVE  LET b == call[c].bill
                          p == call[c].log.price
                          unseen == Unseen(Family[call[c].model], b, p)
                          unit == 10000 * Quantum
                      IN  /\ unit * (call[c].log.amount + 1) >= VendorCost(b, p) - unseen
                          /\ unit * (call[c].log.amount - 1) <=
                                 VendorCost(b, p) - unseen + b.cached * (p.input - p.cached)
    BY DEF LoggedCoversBill
  <2>1. PICK s \in CallState : s = call[c] /\ CallOK(c, s)
    BY <1>1 DEF UsageInv, CallOK
  <2>2. PICK m \in Models, b \in BillRows, l \in Records :
            s.model = m /\ s.bill = b /\ s.log = l
    BY BillsAssumption DEF CallState
  <2>3. PICK p \in PriceRows : p = l.price /\ p # NoPrice /\ p.cached \notin {NoPrice, 0}
    BY <2>1, <2>2 DEF Records
  <2>4. s.usage = Extract(m, b) /\ Extract(m, b) # NoUsage /\ Extract(m, b) \in Usages
    BY <2>1, <2>2, ExtractTyped DEF CallOK, UsageOK
  <2>5. l.state = "stored" /\ l.amount = Logged(Cost(PassOn(s.usage), p))
    BY <2>1, <2>2, <2>3 DEF CallOK, LogOK
  <2>6. PICK x \in Nat, v \in Int, extra \in Nat :
            /\ x = PassOn(Extract(m, b)).prompt * p.input + PassOn(Extract(m, b)).output * p.output
            /\ v = VendorCost(b, p) - Unseen(Family[m], b, p)
            /\ extra = b.cached * (p.input - p.cached)
            /\ v <= x /\ x <= v + extra
    BY <2>3, <2>4, PassedOnCoversBill
  <2>7. l.amount = Logged(HalfEven(x, 10000))
    BY <2>3, <2>4, <2>5, <2>6, CostOfPrompt
  <2>8. 1000000 * (l.amount + 1) >= v /\ 1000000 * (l.amount - 1) <= v + extra
    BY <2>6, <2>7, RoundingCovers
  <2>9. 10000 * Quantum = 1000000
    BY DEF Quantum
  <2> QED
    BY <2>1, <2>2, <2>3, <2>6, <2>8, <2>9
<1> QED
  BY <1>1, UsageInvariance, PTL

(* An hour in which a tenant without a markup has the same calls in both   *)
(* tables, at the same costs and no more of them than the tolerance has    *)
(* quanta, balances within the tolerance.                                  *)
LEMMA HourBalances ==
    ASSUME UsageInv, NEW t \in Tenants, Markup[t] = 100,
           ~(Cardinality(DebitsOf(t)) > Tolerance),
           \A c \in Calls : TenantOf[c] = t =>
               /\ LoggedIn(c, now) <=> PostedIn(c, now)
               /\ PostedIn(c, now) => call[c].log.cost = call[c].debit.cost
    PROVE  ~(Abs(TotalDebited(t) - TotalCost(t)) > Tolerance)
<1>1. DebitsOf(t) = LogsOf(t) /\ DebitsOf(t) \subseteq Calls
  BY DEF DebitsOf, LogsOf, LoggedIn, PostedIn
<1>2. PICK S \in SUBSET Calls : S = DebitsOf(t) /\ S = LogsOf(t)
  BY <1>1
<1>3. IsFiniteSet(S) /\ Cardinality(S) \in Nat
  BY ToleranceAssumption, FS_Subset, FS_CardinalityType
<1>4. Tolerance \in Nat /\ Cardinality(S) <= Tolerance
  BY <1>2, <1>3, ToleranceAssumption
<1>5. ASSUME NEW c \in S
      PROVE  /\ call[c].debit.amount \in Int /\ call[c].log.amount \in Int
             /\ call[c].debit.amount - call[c].log.amount <= 1
             /\ call[c].log.amount - call[c].debit.amount <= 1
  <2>1. /\ c \in Calls /\ TenantOf[c] = t
        /\ call[c].debit.state = "stored" /\ call[c].log.state = "stored"
    BY <1>2 DEF DebitsOf, LogsOf
  <2>2. PostedIn(c, now)
    BY <1>2 DEF DebitsOf, PostedIn
  <2>3. PICK s \in CallState : s = call[c] /\ CallOK(c, s)
    BY <2>1 DEF UsageInv, CallOK
  <2>4. PICK l \in Records, d \in Records : s.log = l /\ s.debit = d
    BY DEF CallState
  <2>5. PICK k \in Nat : l.cost = k /\ d.cost = k
    BY <2>1, <2>2, <2>3, <2>4 DEF Records
  <2>6. l.amount = Logged(k) /\ d.amount = Charged(c, k)
    BY <2>1, <2>3, <2>4, <2>5 DEF CallOK, LogOK, DebitOK
  <2>7. /\ Charged(c, k) \in Int /\ Logged(k) \in Int
        /\ Charged(c, k) - Logged(k) <= 1 /\ Logged(k) - Charged(c, k) <= 1
    BY <2>1, ChargedNearLogged
  <2> QED
    BY <2>3, <2>4, <2>6, <2>7
<1>6. PICK f \in [S -> Int] : f = [c \in S |-> call[c].debit.amount]
  BY <1>5
<1>7. PICK h \in [S -> Int] : h = [c \in S |-> call[c].log.amount]
  BY <1>5
<1>8. \A c \in S : f[c] - h[c] <= 1 /\ h[c] - f[c] <= 1
  BY <1>5, <1>6, <1>7
<1>9. PICK x \in Int, y \in Int : /\ x = SumFunctionOnSet(f, S) /\ y = SumFunctionOnSet(h, S)
                                  /\ x - y <= Cardinality(S) /\ y - x <= Cardinality(S)
  BY <1>3, <1>8, SumsClose
<1>10. TotalDebited(t) = x /\ TotalCost(t) = y
  BY <1>2, <1>6, <1>7, <1>9 DEF TotalDebited, TotalCost, SumFunction
<1>11. x - y <= Tolerance /\ y - x <= Tolerance
  BY <1>3, <1>4, <1>9
<1> QED
  BY <1>4, <1>10, <1>11 DEF Abs

(* A tenant without a markup is reported only for a call that one of the   *)
(* tables lacks in that hour or that was priced differently for the two,   *)
(* or for more calls than the tolerance has quanta, which their roundings  *)
(* can exceed.                                                             *)
THEOREM AlarmCause == Spec => AlarmHasCause
<1> DEFINE Cause(t) ==
               \/ Cardinality(DebitsOf(t)) > Tolerance
               \/ \E c \in Calls :
                      /\ TenantOf[c] = t
                      /\ \/ LoggedIn(c, now) # PostedIn(c, now)
                         \/ PostedIn(c, now) /\ call[c].log.cost # call[c].debit.cost
<1>1. ASSUME UsageInv, Next, now' = now + 1, NEW t \in reported', Markup[t] = 100
      PROVE  Cause(t)
  <2>1. now \in Int
    BY <1>1, ClockAssumption DEF UsageInv, TypeOK
  <2>2. Reconcile
    <3>1. ASSUME NEW c \in Calls,
                 EndStream(c) \/ PriceLog(c) \/ BeginLog(c) \/ StoreLog(c) \/ BeginDebit(c) \/ StoreDebit(c)
          PROVE  FALSE
      <4>1. UNCHANGED now
        BY <3>1 DEF EndStream, PriceLog, BeginLog, StoreLog, BeginDebit, StoreDebit, Become
      <4> QED
        BY <1>1, <2>1, <4>1
    <3>2. ~ReconcileMissed /\ ~Restart
      BY <1>1 DEF ReconcileMissed, Restart
    <3> QED
      BY <1>1, <3>1, <3>2 DEF Next
  <2>3. t \in Tenants /\ Abs(TotalDebited(t) - TotalCost(t)) > Tolerance
    BY <1>1, <2>2 DEF Reconcile
  <2>4. ASSUME ~Cause(t) PROVE FALSE
    <3>1. \A c \in Calls : TenantOf[c] = t =>
              /\ LoggedIn(c, now) <=> PostedIn(c, now)
              /\ PostedIn(c, now) => call[c].log.cost = call[c].debit.cost
      BY <2>4 DEF LoggedIn, PostedIn
    <3>2. ~(Cardinality(DebitsOf(t)) > Tolerance)
      BY <2>4
    <3> QED
      BY <1>1, <2>3, <3>1, <3>2, HourBalances
  <2> QED
    BY <2>4
<1>2. UsageInv /\ [Next]_vars =>
          [now' = now + 1 => \A t \in reported' : Markup[t] = 100 => Cause(t)]_vars
  BY <1>1
<1> QED
  BY <1>2, UsageInvariance, PTL DEF Spec, AlarmHasCause

-----------------------------------------------------------------------------
(* That a process posts a tenant at most one grant in a month.  What makes *)
(* it inductive is that a run has yet to post what it has left, in the     *)
(* month it is in by now: a run that lasts past the end of the month goes  *)
(* on in the next one, and then none starts in that one.                   *)
NothingAhead ==
    \A p \in Processes, t \in Planned, m \in Months : m > month => posted[p][t][m] = 0

StillToPost ==
    \A p \in Processes, t \in Planned :
        job[p].pc = "list" \/ t \in job[p].left => posted[p][t][month] = 0

OnlyGrantingHasLeft ==
    \A p \in Processes : job[p].left # {} => job[p].pc = "grant"

GrantsInv == GrantsTypeOK /\ OncePerProcess /\ NothingAhead /\ StillToPost /\ OnlyGrantingHasLeft

(* What a posting leaves of the counts.                                    *)
LEMMA PostCounts ==
    ASSUME GrantsTypeOK, NEW p \in Processes, NEW t \in Planned, Post(p, t)
    PROVE  /\ posted' \in [Processes -> [Planned -> [Months -> Nat]]]
           /\ posted'[p][t][month] = posted[p][t][month] + 1
           /\ \A q \in Processes, u \in Planned, m \in Months :
                  q # p \/ u # t \/ m # month => posted'[q][u][m] = posted[q][u][m]
<1>1. posted[p][t] \in [Months -> Nat] /\ month \in Months
  BY DEF GrantsTypeOK
<1>2. [posted[p][t] EXCEPT ![month] = @ + 1] \in [Months -> Nat]
  BY <1>1
<1>3. posted' = [posted EXCEPT ![p] = [posted[p] EXCEPT ![t] = [posted[p][t] EXCEPT ![month] = @ + 1]]]
  BY DEF Post, GrantsTypeOK
<1> QED
  BY <1>1, <1>2, <1>3 DEF GrantsTypeOK

(* A run that is over, or that the process lost, has nothing left.         *)
LEMMA NoRunTyped == NoRun \in JobState /\ [NoRun EXCEPT !.pc = "list"] \in JobState
BY DEF NoRun, JobState

LEMMA GrantsInitOK == GrantsInit => GrantsInv
<1> SUFFICES ASSUME GrantsInit PROVE GrantsInv
  OBVIOUS
<1>1. GrantsTypeOK
  BY NoRunTyped, LastMonthAssumption DEF GrantsInit, GrantsTypeOK, Months
<1> QED
  BY <1>1 DEF GrantsInit, GrantsInv, OncePerProcess, NothingAhead, StillToPost, OnlyGrantingHasLeft, NoRun, Months

(* The midnight of the 1st: nothing of the new month is posted yet.        *)
LEMMA TickOK == GrantsInv /\ Tick => GrantsInv'
<1> SUFFICES ASSUME GrantsInv, Tick PROVE GrantsInv'
  OBVIOUS
<1>1. PICK fired \in SUBSET {p \in up : job[p].pc = "idle"} :
          job' = [p \in Processes |-> IF p \in fired THEN [NoRun EXCEPT !.pc = "list"] ELSE job[p]]
  BY DEF Tick
<1>2. month' = month + 1 /\ month \in Months /\ month' \in Months /\ UNCHANGED <<up, posted>>
  BY LastMonthAssumption DEF Tick, GrantsInv, GrantsTypeOK, Months
<1>3. GrantsTypeOK'
  BY <1>1, <1>2, NoRunTyped DEF GrantsInv, GrantsTypeOK
<1>4. OncePerProcess' /\ NothingAhead'
  BY <1>2 DEF GrantsInv, OncePerProcess, NothingAhead, Months
<1>5. StillToPost'
  BY <1>2 DEF GrantsInv, StillToPost, NothingAhead, Months
<1>6. OnlyGrantingHasLeft'
  BY <1>1 DEF GrantsInv, OnlyGrantingHasLeft, NoRun
<1> QED
  BY <1>3, <1>4, <1>5, <1>6 DEF GrantsInv

(* What a process does to its own run.                                     *)
LEMMA Becoming ==
    ASSUME GrantsTypeOK, NEW p \in Processes, NEW s \in JobState, BecomeJob(p, s)
    PROVE  /\ job' \in [Processes -> JobState]
           /\ job'[p] = s
           /\ \A q \in Processes : q # p => job'[q] = job[q]
BY DEF BecomeJob, GrantsTypeOK

(* A run that lists, finishes or is lost posts nothing, and has left only  *)
(* what it had or has just listed.                                         *)
LEMMA RunOK ==
    ASSUME GrantsInv, NEW p \in Processes, ListTenants(p) \/ Finish(p) \/ Stop(p)
    PROVE  GrantsInv'
<1>0. job[p] \in JobState
  BY DEF GrantsInv, GrantsTypeOK
<1>1. UNCHANGED <<month, posted>> /\ up' \subseteq Processes
  BY DEF ListTenants, Finish, Stop, GrantsInv, GrantsTypeOK
<1>2. PICK s \in JobState :
          /\ BecomeJob(p, s)
          /\ s.pc # "list"
          /\ s.left # {} => s.pc = "grant" /\ job[p].pc = "list"
  <2>1. CASE ListTenants(p)
    <3> DEFINE listed == [job[p] EXCEPT !.pc = "grant", !.left = Planned]
    <3>1. listed \in JobState /\ listed.pc = "grant" /\ job[p].pc = "list"
      BY <1>0, <2>1 DEF ListTenants, JobState
    <3> QED
      BY <2>1, <3>1, NoRunTyped DEF ListTenants, NoRun
  <2>2. CASE Finish(p)
    <3> DEFINE over == [job[p] EXCEPT !.pc = "idle"]
    <3>1. over \in JobState /\ over.pc = "idle" /\ over.left = {}
      BY <1>0, <2>2 DEF Finish, JobState
    <3> QED
      BY <2>2, <3>1 DEF Finish
  <2>3. CASE Stop(p)
    BY <2>3, NoRunTyped DEF Stop, NoRun
  <2> QED
    BY <2>1, <2>2, <2>3
<1>3. /\ job' \in [Processes -> JobState]
      /\ job'[p] = s
      /\ \A q \in Processes : q # p => job'[q] = job[q]
  BY <1>2, Becoming DEF GrantsInv
<1>4. GrantsTypeOK'
  BY <1>1, <1>3 DEF GrantsInv, GrantsTypeOK
<1>5. OncePerProcess' /\ NothingAhead'
  BY <1>1 DEF GrantsInv, OncePerProcess, NothingAhead
<1>6. StillToPost'
  <2> SUFFICES ASSUME NEW q \in Processes, NEW t \in Planned, job'[q].pc = "list" \/ t \in job'[q].left
               PROVE  posted[q][t][month] = 0
    BY <1>1 DEF StillToPost
  <2> QED
    BY <1>2, <1>3 DEF GrantsInv, StillToPost
<1>7. OnlyGrantingHasLeft'
  BY <1>2, <1>3 DEF GrantsInv, OnlyGrantingHasLeft
<1> QED
  BY <1>4, <1>5, <1>6, <1>7 DEF GrantsInv

LEMMA StartOK == ASSUME GrantsInv, NEW p \in Processes, Start(p) PROVE GrantsInv'
BY DEF GrantsInv, GrantsTypeOK, OncePerProcess, NothingAhead, StillToPost, OnlyGrantingHasLeft, Start

(* A grant takes its tenant from what is left, whether it is posted or not. *)
LEMMA GrantOK ==
    ASSUME GrantsInv, NEW p \in Processes, NEW t \in Planned, Grant(p, t)
    PROVE  GrantsInv'
<1>0. job[p] \in JobState /\ job[p].pc = "grant" /\ t \in job[p].left
  BY DEF GrantsInv, GrantsTypeOK, Grant
<1>1. UNCHANGED <<month, up>> /\ (Post(p, t) \/ UNCHANGED posted)
  BY DEF Grant
<1>2. PICK s \in JobState : BecomeJob(p, s) /\ s.pc = "grant" /\ s.left = job[p].left \ {t}
  <2> DEFINE done == [job[p] EXCEPT !.left = @ \ {t}, !.success = @ \cup {t}]
             lost == [job[p] EXCEPT !.left = @ \ {t}, !.failed = @ \cup {t}]
  <2>1. done \in JobState /\ done.pc = "grant" /\ done.left = job[p].left \ {t}
    BY <1>0 DEF JobState
  <2>2. lost \in JobState /\ lost.pc = "grant" /\ lost.left = job[p].left \ {t}
    BY <1>0 DEF JobState
  <2> QED
    BY <2>1, <2>2 DEF Grant
<1>3. /\ job' \in [Processes -> JobState]
      /\ job'[p] = s
      /\ \A q \in Processes : q # p => job'[q] = job[q]
  BY <1>2, Becoming DEF GrantsInv
<1>4. /\ posted' \in [Processes -> [Planned -> [Months -> Nat]]]
      /\ posted'[p][t][month] \in {0, 1}
      /\ \A q \in Processes, u \in Planned, m \in Months :
             q # p \/ u # t \/ m # month => posted'[q][u][m] = posted[q][u][m]
  <2>1. posted[p][t][month] = 0
    BY <1>0 DEF GrantsInv, StillToPost
  <2>2. CASE Post(p, t)
    BY <2>1, <2>2, PostCounts DEF GrantsInv
  <2>3. CASE UNCHANGED posted
    BY <2>1, <2>3 DEF GrantsInv, GrantsTypeOK
  <2> QED
    BY <1>1, <2>2, <2>3
<1>5. month \in Months /\ Months \subseteq Nat
  BY DEF GrantsInv, GrantsTypeOK, Months
<1>6. GrantsTypeOK'
  BY <1>1, <1>3, <1>4 DEF GrantsInv, GrantsTypeOK
<1>7. OncePerProcess'
  <2> SUFFICES ASSUME NEW q \in Processes, NEW u \in Planned, NEW m \in Months
               PROVE  posted'[q][u][m] <= 1
    BY DEF OncePerProcess
  <2>1. CASE q = p /\ u = t /\ m = month
    BY <2>1, <1>4
  <2>2. CASE q # p \/ u # t \/ m # month
    BY <2>2, <1>4 DEF GrantsInv, OncePerProcess
  <2> QED
    BY <2>1, <2>2
<1>8. NothingAhead'
  BY <1>1, <1>4, <1>5 DEF GrantsInv, NothingAhead
<1>9. StillToPost'
  <2> SUFFICES ASSUME NEW q \in Processes, NEW u \in Planned, job'[q].pc = "list" \/ u \in job'[q].left
               PROVE  posted'[q][u][month] = 0
    BY <1>1 DEF StillToPost
  <2>1. CASE q = p
    <3>1. u \in s.left
      BY <1>2, <1>3, <2>1
    <3>2. u \in job[p].left /\ u # t
      BY <1>2, <3>1
    <3> QED
      BY <1>4, <1>5, <2>1, <3>2 DEF GrantsInv, StillToPost
  <2>2. CASE q # p
    <3>1. job[q].pc = "list" \/ u \in job[q].left
      BY <1>3, <2>2
    <3> QED
      BY <1>4, <1>5, <2>2, <3>1 DEF GrantsInv, StillToPost
  <2> QED
    BY <2>1, <2>2
<1>10. OnlyGrantingHasLeft'
  BY <1>2, <1>3 DEF GrantsInv, OnlyGrantingHasLeft
<1> QED
  BY <1>6, <1>7, <1>8, <1>9, <1>10 DEF GrantsInv

LEMMA GrantsNextOK == GrantsInv /\ [GrantsNext]_grantVars => GrantsInv'
<1>1. CASE UNCHANGED grantVars
  BY <1>1 DEF grantVars, GrantsInv, GrantsTypeOK, OncePerProcess, NothingAhead, StillToPost, OnlyGrantingHasLeft
<1>2. ASSUME GrantsInv, GrantsNext PROVE GrantsInv'
  BY <1>2, TickOK, RunOK, StartOK, GrantOK DEF GrantsNext, Proceed
<1> QED
  BY <1>1, <1>2

LEMMA GrantsInvariance == GrantsSpec => []GrantsInv
BY GrantsInitOK, GrantsNextOK, PTL DEF GrantsSpec

-----------------------------------------------------------------------------
(* Every variable of the job keeps its type.                               *)
THEOREM GrantsTypeCorrect == GrantsSpec => []GrantsTypeOK
<1>1. GrantsInv => GrantsTypeOK
  BY DEF GrantsInv
<1> QED
  BY <1>1, GrantsInvariance, PTL

(* No process posts a tenant two grants in a month, however it restarts    *)
(* and however long its runs last.                                         *)
THEOREM GrantsOnce == GrantsSpec => []OncePerProcess
<1>1. GrantsInv => OncePerProcess
  BY DEF GrantsInv
<1> QED
  BY <1>1, GrantsInvariance, PTL
=============================================================================
