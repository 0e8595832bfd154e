------------------------ MODULE ModelSelection_proofs ------------------------
(***************************************************************************)
(* That a turn finds a provider and serves what belongs together, for any  *)
(* turns, packs, assignments, models and API keys, and any number of       *)
(* writes.  The inductive invariant follows a turn from await to await:    *)
(* what it has read is what the tenant had while it ran, and what it has   *)
(* derived from it is still derived from it.                               *)
(***************************************************************************)
EXTENDS ModelSelection, TLAPS, SequenceTheorems, NaturalsInduction, WellFoundedInduction

Running == {"resolve", "load", "intent", "render", "build", "stream"}

(* Where each part of a turn is known.                                     *)
Resolved == {"intent", "render", "build", "stream"}
Classified == {"render", "build", "stream"}
Rendered == {"build", "stream"}

(* A turn's history holds what the tenant has now.                         *)
WitnessOK(s) == s.pc \in Running => assigned \in s.assignments /\ row \in s.rows

(* The assignments and the models of its own that a turn may go by.        *)
Readable(s) == s.assignments \cup (IF s.generic THEN {NoAssignment} ELSE {})
Own(s) == IF s.blind THEN {NoModel} ELSE s.rows

ReadOK(s) == s.pc \in {"load"} \cup Resolved => s.read \in Readable(s)

(* The pack that a turn goes by is its assignment's, or generic.           *)
PackOf(s, k) ==
    /\ k = Generic \/ (s.read # NoAssignment /\ k = s.read.pack)
    /\ k = Generic => s.generic \/ s.read = NoAssignment \/ s.read.pack = Generic

EffectiveOK(s) ==
    s.pc \in Resolved =>
        \E k \in PackIds : PackOf(s, k) /\ s.effective = Effective(k, s.read)

IntentOK(s) ==
    s.pc \in Classified =>
        /\ s.intent \in s.effective.intents \cup {"general_chat"}
        /\ s.hint \in s.effective.intents => s.intent = s.hint

PromptOK(s) ==
    s.pc \in Rendered =>
        s.prompt = IF s.intent \in DOMAIN s.effective.prompts THEN s.effective.prompts[s.intent]
                   ELSE DefaultPrompt

ExecutorOK(s) ==
    s.pc = "stream" =>
        /\ registered # {}
        /\ \E own \in Own(s) : s.executor = Select(Overriding(own, s.effective.executor))

TurnOK(s) ==
    /\ WitnessOK(s) /\ ReadOK(s) /\ EffectiveOK(s)
    /\ IntentOK(s) /\ PromptOK(s) /\ ExecutorOK(s)

Inv == TypeOK /\ AlwaysAProvider /\ \A t \in Turns : TurnOK(turn[t])

-----------------------------------------------------------------------------
(* Sequences of preferences.                                               *)

(* The least of a set of naturals.                                         *)
LEMMA MinOfNat ==
    ASSUME NEW S \in SUBSET Nat, S # {}
    PROVE  Min(S) \in S /\ \A n \in S : Min(S) <= n
<1>1. PICK m \in S : \A n \in S : <<n, m>> \notin OpToRel(<, Nat)
  BY NatLessThanWellFounded, WFMin
<1>2. ASSUME NEW n \in S PROVE m <= n
  <2>1. n \in Nat /\ m \in Nat
    OBVIOUS
  <2>2. ~(n < m)
    BY <1>1, <2>1 DEF OpToRel
  <2> QED
    BY <2>1, <2>2
<1> QED
  BY <1>2 DEF Min

(* What FirstOf finds is registered, and nothing before it is.             *)
LEMMA FirstOfFinds ==
    ASSUME NEW s, Len(s) \in Nat, \E i \in 1..Len(s) : s[i] \in registered
    PROVE  \E i \in 1..Len(s) :
               /\ FirstOf(s) = s[i] /\ s[i] \in registered
               /\ \A j \in 1..Len(s) : j < i => s[j] \notin registered
<1> DEFINE I == {i \in 1..Len(s) : s[i] \in registered}
<1>1. I \in SUBSET Nat /\ I # {}
  OBVIOUS
<1>2. Min(I) \in I /\ \A n \in I : Min(I) <= n
  BY <1>1, MinOfNat
<1>3. FirstOf(s) = s[Min(I)]
  BY <1>1 DEF FirstOf, SelectInSeq
<1>4. \A j \in 1..Len(s) : j < Min(I) => s[j] \notin registered
  BY <1>2
<1> QED
  BY <1>2, <1>3, <1>4

(* What Best finds can be called, and nothing before it can.               *)
LEMMA BestFinds ==
    ASSUME NEW s, Len(s) \in Nat, NEW i \in 1..Len(s),
           Callable(s[i]), \A j \in 1..Len(s) : j < i => ~Callable(s[j])
    PROVE  Best(s) = s[i]
<1> DEFINE I == {j \in 1..Len(s) : Callable(s[j])}
<1>1. I \in SUBSET Nat /\ i \in I
  OBVIOUS
<1>2. Min(I) \in I /\ \A n \in I : Min(I) <= n
  BY <1>1, MinOfNat
<1>3. Min(I) = i
  BY <1>1, <1>2
<1>4. Best(s) = s[Min(I)]
  BY <1>1 DEF Best, SelectInSeq
<1> QED
  BY <1>3, <1>4

(* Both orders name every provider that there can be.                      *)
LEMMA Orders ==
    ASSUME NEW p \in ToSet(RegisterOrder)
    PROVE  /\ Len(RegisterOrder) = 5 /\ Len(ClassifierPriority) = 5
           /\ \E i \in 1..5 : RegisterOrder[i] = p
           /\ \E i \in 1..5 : ClassifierPriority[i] = p
<1>1. DOMAIN RegisterOrder = 1..5
  BY DEF RegisterOrder
<1>2. PICK i \in 1..5 : p = RegisterOrder[i]
  BY <1>1 DEF ToSet
<1>3. i = 1 \/ i = 2 \/ i = 3 \/ i = 4 \/ i = 5
  OBVIOUS
<1> QED
  BY <1>2, <1>3 DEF RegisterOrder, ClassifierPriority

(* With a key in the environment, both orders have a first provider.       *)
LEMMA FirstRegistered ==
    ASSUME registered \subseteq ToSet(RegisterOrder), registered # {}
    PROVE  FirstOf(RegisterOrder) \in registered /\ FirstOf(ClassifierPriority) \in registered
<1>1. PICK p \in ToSet(RegisterOrder) : p \in registered
  OBVIOUS
<1>2. /\ Len(RegisterOrder) = 5 /\ Len(ClassifierPriority) = 5
      /\ \E i \in 1..5 : RegisterOrder[i] \in registered
      /\ \E i \in 1..5 : ClassifierPriority[i] \in registered
  BY <1>1, Orders
<1>3. \E i \in 1..5 : FirstOf(RegisterOrder) = RegisterOrder[i] /\ RegisterOrder[i] \in registered
  BY <1>2, FirstOfFinds
<1>4. \E i \in 1..5 : FirstOf(ClassifierPriority) = ClassifierPriority[i] /\ ClassifierPriority[i] \in registered
  BY <1>2, FirstOfFinds
<1> QED
  BY <1>3, <1>4

-----------------------------------------------------------------------------
(* A tenant's configuration.                                               *)

LEMMA EffectiveTyped ==
    ASSUME NEW k \in PackIds, NEW a \in Assignments \cup {NoAssignment}
    PROVE  Effective(k, a) \in Configs
<1>1. Packs[k] \in Configs
  BY PacksAssumption
<1>2. CASE a = NoAssignment
  BY <1>1, <1>2 DEF Effective
<1>3. CASE a # NoAssignment
  <2>1. a \in Configs
    BY <1>3, AssignmentsAssumption
  <2>2. PICK P \in SUBSET Intents : Packs[k].prompts \in [P -> Prompts]
    BY <1>1 DEF Configs
  <2>3. PICK Q \in SUBSET Intents : a.prompts \in [Q -> Prompts]
    BY <2>1 DEF Configs
  <2>4. Updated(Packs[k].prompts, a.prompts) \in [P \cup Q -> Prompts]
    BY <2>2, <2>3 DEF Updated
  <2>5. P \cup Q \in SUBSET Intents
    OBVIOUS
  <2>6. Updated(Packs[k].prompts, a.prompts) \in UNION {[keys -> Prompts] : keys \in SUBSET Intents}
    BY <2>4, <2>5
  <2>7. ToEffective(k, a) \in Configs
    BY <1>1, <2>1, <2>6 DEF ToEffective, Configs
  <2> QED
    BY <1>3, <2>7 DEF Effective
<1> QED
  BY <1>2, <1>3

(* A prompt of a configuration.                                            *)
LEMMA PromptTyped ==
    ASSUME NEW e \in Configs, NEW i
    PROVE  (IF i \in DOMAIN e.prompts THEN e.prompts[i] ELSE DefaultPrompt)
               \in Prompts \cup {DefaultPrompt}
<1>1. PICK P \in SUBSET Intents : e.prompts \in [P -> Prompts]
  BY DEF Configs
<1> QED
  BY <1>1

LEMMA ModelsHave ==
    /\ DefaultExecutor \in Models /\ Rows \subseteq Models
    /\ \A p \in ToSet(RegisterOrder) : Model(p, FallbackModel[p]) \in Models
BY DEF Models

(* With a key in the environment, select returns a model of a registered   *)
(* provider.                                                               *)
LEMMA SelectServes ==
    ASSUME registered \subseteq ToSet(RegisterOrder), registered # {},
           NEW m \in Models \cup {NoModel}
    PROVE  Select(m) \in Models /\ Select(m).provider \in registered
<1>1. FirstOf(RegisterOrder) \in registered
  BY FirstRegistered
<1>2. Fallback \in Models /\ Fallback.provider \in registered
  BY <1>1, ModelsHave DEF Fallback, Model
<1> QED
  BY <1>2, ModelsHave DEF Select

(* What select returns is the first callable of the preferences.           *)
LEMMA SelectIsBest ==
    ASSUME registered \subseteq ToSet(RegisterOrder), registered # {},
           NEW own, NEW a, NEW k \in PackIds
    PROVE  Select(Overriding(own, Effective(k, a).executor)) = Best(Preferences(own, a, k))
<1> DEFINE m == Overriding(own, Effective(k, a).executor)
           s == Preferences(own, a, k)
<1>1. m = IF own # NoModel THEN own
          ELSE IF a # NoAssignment /\ a.executor # NoModel THEN a.executor ELSE Packs[k].executor
  BY DEF Overriding, Effective, ToEffective
<1>2. PICK f : f = [i \in DOMAIN RegisterOrder |-> Model(RegisterOrder[i], FallbackModel[RegisterOrder[i]])]
  OBVIOUS
<1>3. s = <<m, DefaultExecutor>> \o f
  BY <1>1, <1>2 DEF Preferences
<1>4. /\ Len(RegisterOrder) = 5 /\ DOMAIN RegisterOrder = 1..5
      /\ \A i \in 1..5 : RegisterOrder[i] \in ToSet(RegisterOrder)
  BY DEF RegisterOrder, ToSet
<1>5. f \in Seq({f[i] : i \in 1..5}) /\ Len(f) = 5
  BY <1>2, <1>4
<1>6. /\ Len(s) = 7 /\ s[1] = m /\ s[2] = DefaultExecutor
      /\ \A i \in 1..5 : s[i + 2] = f[i]
  <2> DEFINE X == {m, DefaultExecutor} \cup {f[i] : i \in 1..5}
             r == <<m, DefaultExecutor>>
  <2>1. r \in Seq(X) /\ Len(r) = 2 /\ r[1] = m /\ r[2] = DefaultExecutor
    OBVIOUS
  <2>2. f \in Seq(X)
    BY <1>5
  <2> HIDE DEF X, r
  <2>3. /\ Len(r \o f) = Len(r) + Len(f)
        /\ \A i \in 1..Len(r) + Len(f) :
               (r \o f)[i] = IF i <= Len(r) THEN r[i] ELSE f[i - Len(r)]
    BY <2>1, <2>2, ConcatProperties
  <2>4. \A i \in 1..5 : i + 2 \in 1..7 /\ ~(i + 2 <= 2) /\ (i + 2) - 2 = i
    OBVIOUS
  <2> QED
    BY <1>3, <1>5, <2>1, <2>3, <2>4 DEF r
<1>7. Callable(DefaultExecutor) <=> DefaultExecutor.provider \in registered
  BY NoModelAssumption DEF Callable
<1>8. ASSUME NEW i \in 1..5
      PROVE  /\ Callable(f[i]) <=> RegisterOrder[i] \in registered
             /\ f[i] = Model(RegisterOrder[i], FallbackModel[RegisterOrder[i]])
  <2>1. f[i] = Model(RegisterOrder[i], FallbackModel[RegisterOrder[i]])
    BY <1>2, <1>4
  <2>2. f[i] # NoModel
    BY <1>4, <2>1, NoModelAssumption
  <2>3. f[i].provider = RegisterOrder[i]
    BY <2>1 DEF Model
  <2> QED
    BY <2>1, <2>2, <2>3 DEF Callable
<1> HIDE DEF m, s
<1>9. CASE Callable(m)
  <2>1. Best(s) = m
    BY <1>6, <1>9, BestFinds
  <2> QED
    BY <1>9, <2>1 DEF Callable, Select, m, s
<1>10. CASE ~Callable(m) /\ DefaultExecutor.provider \in registered
  <2>1. \A j \in 1..7 : j < 2 => j = 1
    OBVIOUS
  <2>2. Best(s) = DefaultExecutor
    BY <1>6, <1>7, <1>10, <2>1, BestFinds
  <2> QED
    BY <1>10, <2>2 DEF Callable, Select, m, s
<1>11. CASE ~Callable(m) /\ DefaultExecutor.provider \notin registered
  <2>1. PICK p \in ToSet(RegisterOrder) : p \in registered
    OBVIOUS
  <2>2. \E i \in 1..5 : RegisterOrder[i] \in registered
    BY <2>1, Orders
  <2>3. PICK i \in 1..5 : /\ FirstOf(RegisterOrder) = RegisterOrder[i] /\ RegisterOrder[i] \in registered
                          /\ \A j \in 1..5 : j < i => RegisterOrder[j] \notin registered
    BY <1>4, <2>2, FirstOfFinds
  <2>4. Callable(s[i + 2])
    BY <1>6, <1>8, <2>3
  <2>5. ASSUME NEW j \in 1..7, j < i + 2
        PROVE  ~Callable(s[j])
    <3>1. CASE j = 1
      BY <1>6, <1>11, <3>1
    <3>2. CASE j = 2
      BY <1>6, <1>7, <1>11, <3>2
    <3>3. CASE j # 1 /\ j # 2
      <4>1. PICK n \in 1..5 : j = n + 2 /\ n < i
        <5>1. j - 2 \in 1..5 /\ j = (j - 2) + 2 /\ j - 2 < i
          BY <2>5, <3>3
        <5> QED
          BY <5>1
      <4> QED
        BY <1>6, <1>8, <2>3, <4>1
    <3> QED
      BY <3>1, <3>2, <3>3
  <2>6. i + 2 \in 1..7
    OBVIOUS
  <2>7. Best(s) = s[i + 2]
    <3>1. Len(s) \in Nat /\ i + 2 \in 1..Len(s) /\ \A j \in 1..Len(s) : j < i + 2 => ~Callable(s[j])
      BY <1>6, <2>5, <2>6
    <3> QED
      BY <2>4, <3>1, BestFinds
  <2>8. Best(s) = Fallback
    BY <1>6, <1>8, <2>3, <2>7 DEF Fallback
  <2> QED
    BY <1>11, <2>8 DEF Callable, Select, m, s
<1> QED
  BY <1>9, <1>10, <1>11

-----------------------------------------------------------------------------
(* Invariance.                                                             *)

LEMMA InitInv == Init => Inv
<1> SUFFICES ASSUME Init PROVE Inv
  OBVIOUS
<1>1. Packs[Generic] \in Configs
  BY PacksAssumption
<1>2. TypeOK
  <2> DEFINE s == [pc |-> "new", hint |-> NoIntent, read |-> NoAssignment,
                   effective |-> Packs[Generic], intent |-> NoIntent, prompt |-> DefaultPrompt,
                   executor |-> NoModel, assignments |-> {}, rows |-> {},
                   generic |-> FALSE, blind |-> FALSE]
  <2>1. s \in TurnState
    BY <1>1 DEF TurnState
  <2>2. turn \in [Turns -> TurnState]
    BY <2>1 DEF Init
  <2>3. /\ registered \in Deployments /\ classifier = NoProvider /\ assigned = NoAssignment
        /\ row = NoModel /\ writes = 0
    BY DEF Init
  <2> QED
    BY <2>2, <2>3, MaxWritesAssumption DEF TypeOK
<1>3. AlwaysAProvider
  BY DEF Init, AlwaysAProvider
<1>4. \A t \in Turns : turn[t].pc = "new"
  BY DEF Init
<1> QED
  BY <1>2, <1>3, <1>4
     DEF Inv, TurnOK, WitnessOK, ReadOK, EffectiveOK, IntentOK, PromptOK, ExecutorOK,
         Running, Resolved, Classified, Rendered

(* What is registered has an order, and so has the classifier.             *)
LEMMA RegisteredOrdered ==
    ASSUME TypeOK PROVE registered \subseteq ToSet(RegisterOrder)
BY DeploymentsAssumption DEF TypeOK

(* A step of one turn: it is enough to look at the turn.                   *)
LEMMA TurnStep ==
    ASSUME Inv, NEW t \in Turns, NEW s \in TurnState, Become(t, s), TurnOK(s),
           classifier' \in registered \cup {NoProvider},
           registered # {} => s.pc # "unserved"
    PROVE  Inv'
<1>1. /\ turn \in [Turns -> TurnState] /\ turn' = [turn EXCEPT ![t] = s]
      /\ UNCHANGED <<registered, assigned, row, writes>>
  BY DEF Become, Inv, TypeOK
<1>2. turn' \in [Turns -> TurnState] /\ turn'[t] = s /\ \A u \in Turns \ {t} : turn'[u] = turn[u]
  BY <1>1
<1>3. TypeOK'
  BY <1>1, <1>2, RegisteredOrdered DEF Inv, TypeOK
<1>4. AlwaysAProvider'
  BY <1>1, <1>2 DEF Inv, AlwaysAProvider
<1>5. ASSUME NEW x \in TurnState PROVE TurnOK(x)' <=> TurnOK(x)
  BY <1>1 DEF TurnOK, WitnessOK, ReadOK, EffectiveOK, IntentOK, PromptOK, ExecutorOK,
              Readable, Own, PackOf, Select, Fallback, FirstOf, SelectInSeq
<1>6. ASSUME NEW u \in Turns PROVE TurnOK(turn[u])'
  <2>1. PICK x \in TurnState : x = turn'[u]
    BY <1>2
  <2>2. TurnOK(x)
    BY <1>2, <2>1 DEF Inv
  <2> QED
    BY <1>5, <2>1, <2>2
<1> QED
  BY <1>3, <1>4, <1>6 DEF Inv

(* An administrator's write: the turns under way have witnessed it.        *)
LEMMA WriteStep ==
    ASSUME Inv, UNCHANGED <<registered, classifier>>, MayWrite, Witnessed,
           assigned' \in Assignments \cup {NoAssignment}, row' \in Rows \cup {NoModel}
    PROVE  Inv'
<1>1. turn \in [Turns -> TurnState] /\ writes \in 0..MaxWrites
  BY DEF Inv, TypeOK
<1>2. ASSUME NEW t \in Turns
      PROVE  /\ turn'[t] \in TurnState /\ turn'[t].pc = turn[t].pc
             /\ TurnOK(turn[t])'
  <2>1. PICK s \in TurnState : s = turn[t]
    BY <1>1
  <2>2. TurnOK(s)
    BY <2>1 DEF Inv
  <2>3. CASE s.pc \notin Running
    <3>1. s.pc \in Over \cup {"new"}
      BY <2>3 DEF TurnState, Running, Over
    <3>2. turn'[t] = s
      BY <2>1, <3>1 DEF Witnessed
    <3>3. TurnOK(s)'
      BY <2>3 DEF TurnOK, WitnessOK, ReadOK, EffectiveOK, IntentOK, PromptOK, ExecutorOK,
                  Running, Resolved, Classified, Rendered
    <3> QED
      BY <2>1, <3>2, <3>3
  <2>4. CASE s.pc \in Running
    <3>1. s.pc \notin Over \cup {"new"}
      BY <2>4 DEF Running, Over
    <3>2. PICK x : x = [s EXCEPT !.assignments = s.assignments \cup {assigned'},
                                 !.rows = s.rows \cup {row'}]
      OBVIOUS
    <3>3. turn'[t] = x
      BY <2>1, <3>1, <3>2 DEF Witnessed
    <3>4. s.assignments \subseteq Assignments \cup {NoAssignment} /\ s.rows \subseteq Rows \cup {NoModel}
      BY DEF TurnState
    <3>5. x \in TurnState
      BY <3>2, <3>4 DEF TurnState
    <3>6. /\ x.pc = s.pc /\ x.hint = s.hint /\ x.read = s.read /\ x.effective = s.effective
          /\ x.intent = s.intent /\ x.prompt = s.prompt /\ x.executor = s.executor
          /\ x.generic = s.generic /\ x.blind = s.blind
          /\ x.assignments = s.assignments \cup {assigned'} /\ x.rows = s.rows \cup {row'}
      BY <3>2 DEF TurnState
    <3>7. TurnOK(x)'
      <4>1. WitnessOK(x)' /\ ReadOK(x)'
        BY <2>2, <3>6 DEF TurnOK, WitnessOK, ReadOK, Readable
      <4>2. EffectiveOK(x)' /\ IntentOK(x)' /\ PromptOK(x)'
        BY <2>2, <3>6 DEF TurnOK, EffectiveOK, IntentOK, PromptOK, PackOf
      <4>3. ExecutorOK(x)'
        <5>1. Own(s) \subseteq Own(x)
          BY <3>6 DEF Own
        <5>2. \A m : Select(m)' = Select(m)
          BY DEF Select, Fallback, FirstOf, SelectInSeq
        <5> QED
          BY <2>2, <3>6, <5>1, <5>2 DEF TurnOK, ExecutorOK, Own
      <4> QED
        BY <4>1, <4>2, <4>3 DEF TurnOK
    <3> QED
      BY <2>1, <3>3, <3>5, <3>6, <3>7
  <2> QED
    BY <2>3, <2>4
<1>3. turn' \in [Turns -> TurnState]
  BY <1>2 DEF Witnessed
<1>4. writes' \in 0..MaxWrites
  BY <1>1, MaxWritesAssumption DEF MayWrite
<1>5. TypeOK'
  BY <1>3, <1>4 DEF Inv, TypeOK
<1>6. AlwaysAProvider'
  BY <1>2 DEF Inv, AlwaysAProvider
<1> QED
  BY <1>2, <1>5, <1>6 DEF Inv

-----------------------------------------------------------------------------
(* The steps of a turn, in their order.                                    *)

(* What the invariant says of the turn that takes a step.                  *)
LEMMA Before ==
    ASSUME Inv, NEW t \in Turns
    PROVE  turn[t] \in TurnState /\ TurnOK(turn[t])
BY DEF Inv, TypeOK

LEMMA BeginInv == ASSUME Inv, NEW t \in Turns, Begin(t) PROVE Inv'
<1>1. PICK s \in TurnState : s = turn[t]
  BY Before
<1>2. PICK hint \in Intents \cup {NoIntent} :
          Become(t, [s EXCEPT !.pc = "resolve", !.hint = hint,
                              !.assignments = {assigned}, !.rows = {row}])
  BY <1>1 DEF Begin
<1>3. PICK x : x = [s EXCEPT !.pc = "resolve", !.hint = hint,
                             !.assignments = {assigned}, !.rows = {row}]
  OBVIOUS
<1>4. x \in TurnState
  BY <1>3 DEF TurnState, Inv, TypeOK
<1>5. x.pc = "resolve" /\ x.assignments = {assigned} /\ x.rows = {row}
  BY <1>3 DEF TurnState
<1>6. TurnOK(x)
  BY <1>5 DEF TurnOK, WitnessOK, ReadOK, EffectiveOK, IntentOK, PromptOK, ExecutorOK,
              Resolved, Classified, Rendered
<1> QED
  BY <1>2, <1>3, <1>4, <1>5, <1>6, TurnStep DEF Begin, Inv, AlwaysAProvider

LEMMA ReadAssignmentInv == ASSUME Inv, NEW t \in Turns, ReadAssignment(t) PROVE Inv'
<1>1. PICK s \in TurnState : s = turn[t]
  BY Before
<1>2. TurnOK(s) /\ s.pc = "resolve"
  BY <1>1, Before DEF ReadAssignment
<1>3. PICK x : /\ Become(t, x)
               /\ \/ x = [s EXCEPT !.pc = "load", !.read = assigned]
                  \/ x = [s EXCEPT !.pc = "load", !.read = NoAssignment, !.generic = TRUE]
  BY <1>1 DEF ReadAssignment
<1>4. x \in TurnState
  <2>1. assigned \in Assignments \cup {NoAssignment}
    BY DEF Inv, TypeOK
  <2>2. CASE x = [s EXCEPT !.pc = "load", !.read = assigned]
    BY <2>1, <2>2 DEF TurnState
  <2>3. CASE x = [s EXCEPT !.pc = "load", !.read = NoAssignment, !.generic = TRUE]
    BY <2>3 DEF TurnState
  <2> QED
    BY <1>3, <2>2, <2>3
<1>5. /\ x.pc = "load" /\ x.assignments = s.assignments /\ x.rows = s.rows
      /\ x.read = assigned \/ (x.read = NoAssignment /\ x.generic)
  BY <1>3 DEF TurnState
<1>6. assigned \in s.assignments /\ row \in s.rows
  BY <1>2 DEF TurnOK, WitnessOK, Running
<1>7. TurnOK(x)
  BY <1>5, <1>6 DEF TurnOK, WitnessOK, ReadOK, EffectiveOK, IntentOK, PromptOK, ExecutorOK,
                    Readable, Resolved, Classified, Rendered
<1> QED
  BY <1>3, <1>4, <1>5, <1>7, TurnStep DEF ReadAssignment, Inv, AlwaysAProvider

LEMMA LoadPackInv == ASSUME Inv, NEW t \in Turns, LoadPack(t) PROVE Inv'
<1>1. PICK s \in TurnState : s = turn[t]
  BY Before
<1>2. TurnOK(s) /\ s.pc = "load" /\ s.read \in Assignments \cup {NoAssignment}
  BY <1>1, Before DEF LoadPack, TurnState
<1>3. s.read \in Readable(s) /\ assigned \in s.assignments /\ row \in s.rows
  BY <1>2 DEF TurnOK, ReadOK, WitnessOK, Running
<1>4. PICK x : /\ Become(t, x)
               /\ \/ s.read # NoAssignment /\ x = [s EXCEPT !.pc = "intent", !.effective = Effective(s.read.pack, s.read)]
                  \/ x = [s EXCEPT !.pc = "intent", !.effective = Effective(Generic, s.read),
                                   !.generic = s.generic \/ s.read # NoAssignment]
                  \/ x = [s EXCEPT !.pc = "failed"]
  BY <1>1 DEF LoadPack
<1>5. CASE x = [s EXCEPT !.pc = "failed"]
  <2>1. x \in TurnState /\ x.pc = "failed"
    BY <1>5 DEF TurnState
  <2>2. TurnOK(x)
    BY <2>1 DEF TurnOK, WitnessOK, ReadOK, EffectiveOK, IntentOK, PromptOK, ExecutorOK,
                Running, Resolved, Classified, Rendered
  <2> QED
    BY <1>4, <2>1, <2>2, TurnStep DEF LoadPack, Inv, AlwaysAProvider
<1>6. CASE x # [s EXCEPT !.pc = "failed"]
  <2>1. PICK k \in PackIds :
            /\ k = Generic \/ (s.read # NoAssignment /\ k = s.read.pack)
            /\ \/ /\ s.read # NoAssignment /\ k = s.read.pack
                  /\ x = [s EXCEPT !.pc = "intent", !.effective = Effective(k, s.read)]
               \/ /\ k = Generic
                  /\ x = [s EXCEPT !.pc = "intent", !.effective = Effective(k, s.read),
                                   !.generic = s.generic \/ s.read # NoAssignment]
    <3>1. s.read # NoAssignment => s.read.pack \in PackIds
      BY <1>2, AssignmentsAssumption DEF Configs
    <3>2. Generic \in PackIds
      BY PacksAssumption
    <3> QED
      BY <1>4, <1>6, <3>1, <3>2
  <2>2. Effective(k, s.read) \in Configs
    BY <1>2, EffectiveTyped
  <2>3. x \in TurnState
    <3>1. CASE x = [s EXCEPT !.pc = "intent", !.effective = Effective(k, s.read)]
      BY <2>2, <3>1 DEF TurnState
    <3>2. PICK g \in BOOLEAN : g = (s.generic \/ s.read # NoAssignment)
      BY Zenon DEF TurnState
    <3>3. CASE x = [s EXCEPT !.pc = "intent", !.effective = Effective(k, s.read), !.generic = g]
      BY <2>2, <3>3 DEF TurnState
    <3> QED
      BY <2>1, <3>1, <3>2, <3>3
  <2>4. /\ x.pc = "intent" /\ x.effective = Effective(k, s.read) /\ x.read = s.read
        /\ x.assignments = s.assignments /\ x.rows = s.rows
        /\ s.generic => x.generic
        /\ k = Generic => x.generic \/ s.read = NoAssignment \/ s.read.pack = Generic
    BY <2>1 DEF TurnState
  <2>5. PackOf(x, k)
    BY <2>1, <2>4 DEF PackOf
  <2>6. x.read \in Readable(x)
    BY <1>3, <2>4 DEF Readable
  <2>7. TurnOK(x)
    BY <1>3, <2>4, <2>5, <2>6
       DEF TurnOK, WitnessOK, ReadOK, EffectiveOK, IntentOK, PromptOK, ExecutorOK,
           Classified, Rendered
  <2> QED
    BY <1>4, <2>3, <2>4, <2>7, TurnStep DEF LoadPack, Inv, AlwaysAProvider
<1> QED
  BY <1>5, <1>6

(* Once its pack is known, a turn goes on with what it has read: a step    *)
(* that keeps it keeps WitnessOK, ReadOK and EffectiveOK.                   *)
LEMMA KeepsRead ==
    ASSUME NEW s \in TurnState, NEW x \in TurnState, TurnOK(s),
           s.pc \in Resolved, x.pc \in Resolved,
           x.assignments = s.assignments, x.rows = s.rows, x.read = s.read,
           x.generic = s.generic, x.effective = s.effective
    PROVE  WitnessOK(x) /\ ReadOK(x) /\ EffectiveOK(x)
BY DEF TurnOK, WitnessOK, ReadOK, EffectiveOK, Readable, PackOf, Running, Resolved

(* A turn that ends owes nothing.                                          *)
LEMMA EndInv ==
    ASSUME Inv, NEW t \in Turns, NEW s \in TurnState, s = turn[t],
           NEW l \in Over, registered # {} => l # "unserved",
           Become(t, [s EXCEPT !.pc = l]), UNCHANGED classifier
    PROVE  Inv'
<1>1. PICK x : x = [s EXCEPT !.pc = l]
  OBVIOUS
<1>2. x \in TurnState /\ x.pc = l /\ l \notin Running
  BY <1>1 DEF TurnState, Over, Running
<1>3. TurnOK(x)
  BY <1>2 DEF TurnOK, WitnessOK, ReadOK, EffectiveOK, IntentOK, PromptOK, ExecutorOK,
              Running, Resolved, Classified, Rendered
<1> QED
  BY <1>1, <1>2, <1>3, TurnStep DEF Inv, AlwaysAProvider

(* The intent, by the hint or by the classifier.                           *)
LEMMA IntentInv ==
    ASSUME Inv, NEW t \in Turns, NEW s \in TurnState, s = turn[t], s.pc = "intent",
           NEW i \in Intents, i \in s.effective.intents \cup {"general_chat"},
           s.hint \in s.effective.intents => i = s.hint,
           Become(t, [s EXCEPT !.pc = "render", !.intent = i]),
           classifier' \in registered \cup {NoProvider}
    PROVE  Inv'
<1>1. PICK x : x = [s EXCEPT !.pc = "render", !.intent = i]
  OBVIOUS
<1>2. x \in TurnState
  BY <1>1 DEF TurnState
<1>3. /\ x.pc = "render" /\ x.intent = i /\ x.hint = s.hint /\ x.effective = s.effective
      /\ x.assignments = s.assignments /\ x.rows = s.rows /\ x.read = s.read
      /\ x.generic = s.generic
  BY <1>1 DEF TurnState
<1>4. WitnessOK(x) /\ ReadOK(x) /\ EffectiveOK(x)
  BY <1>2, <1>3, Before, KeepsRead DEF Resolved
<1>5. IntentOK(x) /\ PromptOK(x) /\ ExecutorOK(x)
  BY <1>3 DEF IntentOK, PromptOK, ExecutorOK, Rendered
<1> QED
  BY <1>1, <1>2, <1>3, <1>4, <1>5, TurnStep DEF TurnOK

LEMMA TakeHintInv == ASSUME Inv, NEW t \in Turns, TakeHint(t) PROVE Inv'
<1>1. PICK s \in TurnState : s = turn[t]
  BY Before
<1>2. s.effective.intents \subseteq Intents
  <2>1. s.effective \in Configs
    BY DEF TurnState
  <2> QED
    BY <2>1 DEF Configs
<1>3. s.pc = "intent" /\ s.hint \in s.effective.intents
      /\ Become(t, [s EXCEPT !.pc = "render", !.intent = s.hint])
  BY <1>1 DEF TakeHint, HintIsEnough
<1> QED
  BY <1>1, <1>2, <1>3, IntentInv DEF TakeHint, Inv, AlwaysAProvider

LEMMA ClassifyInv == ASSUME Inv, NEW t \in Turns, Classify(t) PROVE Inv'
<1>1. PICK s \in TurnState : s = turn[t]
  BY Before
<1>2. s.effective.intents \subseteq Intents
  <2>1. s.effective \in Configs
    BY DEF TurnState
  <2> QED
    BY <2>1 DEF Configs
<1>3. s.pc = "intent" /\ s.hint \notin s.effective.intents /\ registered # {}
  BY <1>1 DEF Classify, HintIsEnough
<1>4. classifier' \in registered \cup {NoProvider}
  BY <1>3, RegisteredOrdered, FirstRegistered DEF Classify, Inv
<1>5. PICK answer \in Answers \cup {"general_chat"} :
          Become(t, [s EXCEPT !.pc = "render",
                     !.intent = IF answer \in s.effective.intents THEN answer ELSE "general_chat"])
  BY <1>1 DEF Classify
<1>6. PICK i : i = IF answer \in s.effective.intents THEN answer ELSE "general_chat"
  OBVIOUS
<1>7. i \in Intents /\ i \in s.effective.intents \cup {"general_chat"}
  BY <1>2, <1>6, IntentsAssumption
<1> QED
  BY <1>1, <1>3, <1>4, <1>5, <1>6, <1>7, IntentInv

LEMMA RenderInv == ASSUME Inv, NEW t \in Turns, Render(t) PROVE Inv'
<1>1. PICK s \in TurnState : s = turn[t]
  BY Before
<1>2. s.pc = "render" /\ s.effective \in Configs /\ TurnOK(s)
  BY <1>1, Before DEF Render, TurnState
<1>3. PICK p \in Prompts \cup {DefaultPrompt} :
          p = IF s.intent \in DOMAIN s.effective.prompts THEN s.effective.prompts[s.intent]
              ELSE DefaultPrompt
  BY <1>2, PromptTyped
<1>4. PICK x : x = [s EXCEPT !.pc = "build", !.prompt = p]
  OBVIOUS
<1>5. Become(t, x)
  BY <1>1, <1>3, <1>4 DEF Render
<1>6. x \in TurnState
  BY <1>4 DEF TurnState
<1>7. /\ x.pc = "build" /\ x.prompt = p /\ x.intent = s.intent /\ x.hint = s.hint
      /\ x.effective = s.effective /\ x.assignments = s.assignments /\ x.rows = s.rows
      /\ x.read = s.read /\ x.generic = s.generic
  BY <1>4 DEF TurnState
<1>8. WitnessOK(x) /\ ReadOK(x) /\ EffectiveOK(x)
  BY <1>2, <1>6, <1>7, KeepsRead DEF Resolved
<1>9. IntentOK(x)
  BY <1>2, <1>7 DEF TurnOK, IntentOK, Classified
<1>10. PromptOK(x) /\ ExecutorOK(x)
  BY <1>3, <1>7 DEF PromptOK, ExecutorOK
<1> QED
  BY <1>5, <1>6, <1>7, <1>8, <1>9, <1>10, TurnStep DEF TurnOK, Render, Inv, AlwaysAProvider

LEMMA BuildExecutorInv == ASSUME Inv, NEW t \in Turns, BuildExecutor(t) PROVE Inv'
<1>1. PICK s \in TurnState : s = turn[t]
  BY Before
<1>2. s.pc = "build" /\ s.effective \in Configs /\ TurnOK(s) /\ registered # {}
  BY <1>1, Before DEF BuildExecutor, TurnState
<1>3. PICK own \in {row, NoModel} :
          Become(t, [s EXCEPT !.pc = "stream", !.blind = own # row,
                              !.executor = Select(Overriding(own, s.effective.executor))])
  BY <1>1 DEF BuildExecutor
<1>4. own \in Rows \cup {NoModel}
  BY <1>3 DEF Inv, TypeOK
<1>5. Overriding(own, s.effective.executor) \in Models \cup {NoModel}
  BY <1>2, <1>4, ModelsHave DEF Overriding, Configs
<1>6. PICK e \in Models : e = Select(Overriding(own, s.effective.executor))
  BY <1>2, <1>5, RegisteredOrdered, SelectServes DEF Inv
<1>7. PICK b \in BOOLEAN : b = (own # row)
  OBVIOUS
<1>8. PICK x : x = [s EXCEPT !.pc = "stream", !.blind = b, !.executor = e]
  OBVIOUS
<1>9. Become(t, x)
  BY <1>3, <1>6, <1>7, <1>8
<1>10. x \in TurnState
  BY <1>8 DEF TurnState
<1>11. /\ x.pc = "stream" /\ x.executor = e /\ x.blind = b
       /\ x.prompt = s.prompt /\ x.intent = s.intent /\ x.hint = s.hint
       /\ x.effective = s.effective /\ x.assignments = s.assignments /\ x.rows = s.rows
       /\ x.read = s.read /\ x.generic = s.generic
  BY <1>8 DEF TurnState
<1>12. WitnessOK(x) /\ ReadOK(x) /\ EffectiveOK(x)
  BY <1>2, <1>10, <1>11, KeepsRead DEF Resolved
<1>13. IntentOK(x) /\ PromptOK(x)
  BY <1>2, <1>11 DEF TurnOK, IntentOK, PromptOK, Classified, Rendered
<1>14. own \in Own(x)
  <2>1. row \in s.rows
    BY <1>2 DEF TurnOK, WitnessOK, Running
  <2> QED
    BY <1>3, <1>7, <1>11, <2>1 DEF Own
<1>15. ExecutorOK(x)
  BY <1>2, <1>6, <1>11, <1>14 DEF ExecutorOK
<1> QED
  BY <1>9, <1>10, <1>11, <1>12, <1>13, <1>15, TurnStep DEF TurnOK, BuildExecutor, Inv, AlwaysAProvider

(* What a turn has selected is registered.                                 *)
LEMMA StreamInv == ASSUME Inv, NEW t \in Turns, Stream(t) PROVE Inv'
<1>1. PICK s \in TurnState : s = turn[t]
  BY Before
<1>2. s.pc = "stream" /\ TurnOK(s) /\ s.effective \in Configs
  BY <1>1, Before DEF Stream, TurnState
<1>3. PICK own \in Own(s) : s.executor = Select(Overriding(own, s.effective.executor))
  BY <1>2 DEF TurnOK, ExecutorOK
<1>4. own \in Rows \cup {NoModel}
  BY DEF Own, TurnState
<1>5. Overriding(own, s.effective.executor) \in Models \cup {NoModel}
  BY <1>2, <1>4, ModelsHave DEF Overriding, Configs
<1>6. registered # {} /\ s.executor.provider \in registered
  BY <1>2, <1>3, <1>5, RegisteredOrdered, SelectServes DEF Inv, TurnOK, ExecutorOK
<1>7. Become(t, [s EXCEPT !.pc = "done"]) /\ UNCHANGED classifier
  BY <1>1, <1>6 DEF Stream
<1> QED
  BY <1>1, <1>7, EndInv DEF Over

LEMMA NextInv == Inv /\ [Next]_vars => Inv'
<1> SUFFICES ASSUME Inv, [Next]_vars PROVE Inv'
  OBVIOUS
<1>1. ASSUME NEW a \in Assignments, AssignPack(a) PROVE Inv'
  BY <1>1, WriteStep DEF AssignPack, Inv, TypeOK
<1>2. ASSUME NEW m \in Rows \cup {NoModel}, OverrideModel(m) PROVE Inv'
  BY <1>2, WriteStep DEF OverrideModel, Inv, TypeOK
<1>3. ASSUME NEW t \in Turns, NoClassifier(t) \/ NoExecutor(t) PROVE Inv'
  <2>1. /\ registered = {} /\ UNCHANGED classifier
        /\ Become(t, [turn[t] EXCEPT !.pc = "unserved"])
    BY <1>3 DEF NoClassifier, NoExecutor
  <2> QED
    BY <2>1, Before, EndInv DEF Over
<1>4. ASSUME NEW t \in Turns, Fail(t) PROVE Inv'
  <2>1. Become(t, [turn[t] EXCEPT !.pc = "failed"]) /\ UNCHANGED classifier
    BY <1>4 DEF Fail
  <2> QED
    BY <2>1, Before, EndInv DEF Over
<1>5. CASE UNCHANGED vars
  <2>1. \A m : Select(m)' = Select(m)
    BY <1>5 DEF vars, Select, Fallback, FirstOf, SelectInSeq
  <2>2. ASSUME NEW s PROVE TurnOK(s)' <=> TurnOK(s)
    BY <1>5, <2>1 DEF vars, TurnOK, WitnessOK, ReadOK, EffectiveOK, IntentOK, PromptOK, ExecutorOK,
                      Readable, Own, PackOf
  <2>3. \A t \in Turns : TurnOK(turn[t])'
    <3>1. turn' = turn
      BY <1>5 DEF vars
    <3> QED
      BY <2>2, <3>1 DEF Inv
  <2> QED
    BY <1>5, <2>3 DEF vars, Inv, TypeOK, AlwaysAProvider
<1> QED
  BY <1>1, <1>2, <1>3, <1>4, <1>5, BeginInv, ReadAssignmentInv, LoadPackInv, TakeHintInv,
     ClassifyInv, RenderInv, BuildExecutorInv, StreamInv
     DEF Next

(* The inductive invariant.                                                *)
THEOREM Invariance == Spec => []Inv
BY InitInv, NextInv, PTL DEF Spec

-----------------------------------------------------------------------------
(* Every variable keeps its type.                                          *)
THEOREM TypeCorrect == Spec => []TypeOK
BY Invariance, PTL DEF Inv

(* With a single key in the environment no turn is left without a          *)
(* provider, whatever models packs and tenants ask for.                    *)
THEOREM ProviderForEveryTurn == Spec => []AlwaysAProvider
BY Invariance, PTL DEF Inv

(* What a turn serves follows from one assignment and one model of the     *)
(* tenant's own that it had while the turn ran.                            *)
THEOREM ServesOneAssignment == Spec => []TurnIsOfOneAssignment
<1>1. Inv => TurnIsOfOneAssignment
  <2> SUFFICES ASSUME Inv, NEW t \in Turns, turn[t].pc = "stream"
               PROVE  \E a \in Readable(turn[t]), own \in Own(turn[t]), k \in PackIds :
                        LET intents == IF a = NoAssignment \/ a.intents = {} THEN Packs[k].intents ELSE a.intents
                            i == turn[t].intent
                        IN  /\ k = Generic \/ (a # NoAssignment /\ k = a.pack)
                            /\ k = Generic => turn[t].generic \/ a = NoAssignment \/ a.pack = Generic
                            /\ i \in intents \cup {"general_chat"}
                            /\ turn[t].hint \in intents => i = turn[t].hint
                            /\ turn[t].prompt =
                                   IF a # NoAssignment /\ i \in DOMAIN a.prompts THEN a.prompts[i]
                                   ELSE IF i \in DOMAIN Packs[k].prompts THEN Packs[k].prompts[i]
                                   ELSE DefaultPrompt
                            /\ turn[t].executor = Best(Preferences(own, a, k))
    BY DEF TurnIsOfOneAssignment, Readable, Own
  <2>1. PICK s \in TurnState : s = turn[t]
    BY Before
  <2>2. TurnOK(s) /\ s.pc = "stream"
    BY <2>1, Before
  <2>3. s.read \in Readable(s)
    BY <2>2 DEF TurnOK, ReadOK, Resolved
  <2>4. PICK k \in PackIds : PackOf(s, k) /\ s.effective = Effective(k, s.read)
    BY <2>2 DEF TurnOK, EffectiveOK, Resolved
  <2>5. PICK own \in Own(s) : s.executor = Select(Overriding(own, s.effective.executor))
    BY <2>2 DEF TurnOK, ExecutorOK
  <2>6. s.executor = Best(Preferences(own, s.read, k))
    BY <2>2, <2>4, <2>5, SelectIsBest, RegisteredOrdered DEF Inv, TurnOK, ExecutorOK
  <2>7. s.effective.intents =
            IF s.read = NoAssignment \/ s.read.intents = {} THEN Packs[k].intents ELSE s.read.intents
    BY <2>4 DEF Effective, ToEffective
  <2>8. /\ s.intent \in s.effective.intents \cup {"general_chat"}
        /\ s.hint \in s.effective.intents => s.intent = s.hint
    BY <2>2 DEF TurnOK, IntentOK, Classified
  <2>9. s.prompt = IF s.intent \in DOMAIN s.effective.prompts THEN s.effective.prompts[s.intent]
                   ELSE DefaultPrompt
    BY <2>2 DEF TurnOK, PromptOK, Rendered
  <2>10. s.prompt =
             IF s.read # NoAssignment /\ s.intent \in DOMAIN s.read.prompts THEN s.read.prompts[s.intent]
             ELSE IF s.intent \in DOMAIN Packs[k].prompts THEN Packs[k].prompts[s.intent]
             ELSE DefaultPrompt
    BY <2>4, <2>9 DEF Effective, ToEffective, Updated
  <2> QED
    BY <2>1, <2>3, <2>4, <2>6, <2>7, <2>8, <2>10 DEF PackOf
<1> QED
  BY <1>1, Invariance, PTL
=============================================================================
