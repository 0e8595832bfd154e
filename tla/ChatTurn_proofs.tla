-------------------------- MODULE ChatTurn_proofs --------------------------
(***************************************************************************)
(* That a conversation's memory is the window of its newest turns, that a  *)
(* turn is given what its user already has, and that every finished call   *)
(* that nothing struck is counted, for any number of turns and             *)
(* conversations and any window.  MemoryIsWindow is proved of its indices (Remembers).  That *)
(* an answered turn is in a history needs that it was appended since the   *)
(* key last expired (Recent), which holds because no answer is under way   *)
(* while a key expires.                                                    *)
(***************************************************************************)
EXTENDS ChatTurn, SequenceTheorems, TLAPS

Kept(l, e, w) == IF l - e > w THEN w ELSE l - e

HoldsNewest(messages, turns, n) ==
    /\ Len(messages) = 2 * n
    /\ \A i \in 1..n :
           /\ messages[2 * i - 1] = [turn |-> turns[Len(turns) - n + i], role |-> "user"]
           /\ messages[2 * i] = [turn |-> turns[Len(turns) - n + i], role |-> "assistant"]

(* messages is the window of the turns of which the first e have expired.  *)
IsWindow(messages, turns, e) ==
    e <= Len(turns) /\ HoldsNewest(messages, turns, Kept(Len(turns), e, Window))

Remembers(k) == IsWindow(memory[k], log[k], expired[k])

Recent(k) == {log[k][i] : i \in (expired[k] + 1)..Len(log[k])}

TurnOK(r) ==
    /\ turn[r].pc = "append" => HasConversation(r)
    /\ turn[r].pc = "deliver" /\ HasConversation(r) => r \in Recent(turn[r].conversation)
    /\ r \in due => turn[r].pc = "append" \/ usage[r] \in {"task", "logged"}

MemoryOK == MemoryTypeOK /\ \A k \in Conversations : Remembers(k)
AnsweredOK == \A k \in Conversations : answered[k] \subseteq Recent(k)

Inv == TypeOK /\ MemoryOK /\ AnsweredOK /\ \A r \in Turns : TurnOK(r)

-----------------------------------------------------------------------------
(* Arithmetic of the window: an appended turn makes it grow until it is    *)
(* full, and then moves every message two places forward.                  *)
LEMMA KeptGrows ==
    ASSUME NEW l \in Nat, NEW e \in Nat, NEW w \in Nat \ {0}, NEW n \in Nat, NEW m \in Nat,
           e <= l, n = IF l - e > w THEN w ELSE l - e, m = IF n = w THEN n ELSE n + 1
    PROVE  m = IF l + 1 - e > w THEN w ELSE l + 1 - e
OBVIOUS

LEMMA LastMoves ==
    ASSUME NEW n \in Nat, NEW w \in Nat, NEW m \in Nat, NEW d \in Nat, NEW l \in Nat,
           m = IF n = w THEN n ELSE n + 1, d = IF n = w THEN 2 ELSE 0
    PROVE  /\ 2 * m - 1 = 2 * n + 1 - d /\ 2 * m = 2 * n + 2 - d
           /\ l + 1 - m + m = l + 1
OBVIOUS

LEMMA OthersMove ==
    ASSUME NEW n \in Nat, NEW w \in Nat, NEW m \in Nat, NEW d \in Nat, NEW l \in Nat,
           m = IF n = w THEN n ELSE n + 1, d = IF n = w THEN 2 ELSE 0, n <= l,
           NEW i \in 1..m, i # m, NEW h, h = IF n = w THEN i + 1 ELSE i
    PROVE  /\ h \in 1..n /\ 2 * h - 1 = 2 * i - 1 + d /\ 2 * h = 2 * i + d
           /\ 2 * i - 1 \in 1..(2 * n - d) /\ 2 * i \in 1..(2 * n - d)
           /\ l + 1 - m + i = l - n + h /\ l - n + h \in 1..l
OBVIOUS

(* What RPUSH and LTRIM make of the list, by its indices.                  *)
LEMMA Push ==
    ASSUME NEW S, NEW s \in Seq(S), NEW a \in S, NEW b \in S, NEW m \in Nat, Len(s) = m
    PROVE  LET c == s \o <<a, b>>
           IN  /\ c \in Seq(S) /\ Len(c) = m + 2
               /\ \A i \in 1..m : c[i] = s[i]
               /\ c[m + 1] = a /\ c[m + 2] = b
<1> DEFINE e == <<a, b>>
           c == s \o e
<1>1. e \in Seq(S) /\ Len(e) = 2 /\ e[1] = a /\ e[2] = b
  OBVIOUS
<1> HIDE DEF e
<1>2. /\ c \in Seq(S) /\ Len(c) = m + 2
      /\ \A i \in 1..(m + 2) : c[i] = IF i <= m THEN s[i] ELSE e[i - m]
  <2>1. /\ c \in Seq(S) /\ Len(c) = Len(s) + Len(e)
        /\ \A i \in 1..(Len(s) + Len(e)) : c[i] = IF i <= Len(s) THEN s[i] ELSE e[i - Len(s)]
    BY <1>1, ConcatProperties
  <2> HIDE DEF c
  <2>2. Len(s) + Len(e) = m + 2
    BY <1>1
  <2> QED
    BY <2>1, <2>2
<1> HIDE DEF c
<1>3. \A i \in 1..m : c[i] = s[i]
  BY <1>2
<1>4. c[m + 1] = a
  BY <1>1, <1>2
<1>5. c[m + 2] = b
  BY <1>1, <1>2
<1> QED
  BY <1>2, <1>3, <1>4, <1>5 DEF c, e

(* How many of m messages a trim to v drops.                               *)
Dropped(m, v) == IF m > v THEN m - v ELSE 0

LEMMA DroppedBound == ASSUME NEW m \in Nat, NEW v \in Nat PROVE Dropped(m, v) \in 0..m
BY DEF Dropped

(* t is c, of m messages, without its first d.                             *)
Trimmed(t, c, m, d) ==
    Len(t) = m - d /\ \A i \in 1..(m - d) : t[i] = c[i + d]

LEMMA Trim ==
    ASSUME NEW S, NEW c \in Seq(S), NEW v \in Nat
    PROVE  /\ Newest(c, v) \in Seq(S)
           /\ Trimmed(Newest(c, v), c, Len(c), Dropped(Len(c), v))
<1>1. PICK m \in Nat : m = Len(c)
  OBVIOUS
<1>2. PICK d \in 0..m : d = Dropped(m, v)
  BY DroppedBound
<1>3. d = IF m > v THEN m - v ELSE 0
  BY <1>2 DEF Dropped
<1>4. Newest(c, v) = SubSeq(c, 1 + d, m)
  <2> DEFINE x == IF m > v THEN m - v + 1 ELSE 1
  <2>2. Newest(c, v) = SubSeq(c, x, m)
    BY <1>1 DEF Newest
  <2>3. x = 1 + d
    BY <1>3
  <2> HIDE DEF x
  <2> QED
    BY <2>2, <2>3
<1>5. \A i \in (1 + d)..m : c[i] \in S
  BY <1>1, ElementOfSeq
<1> DEFINE t == SubSeq(c, 1 + d, m)
<1>6. /\ t \in Seq(S) /\ Len(t) = IF 1 + d <= m THEN m - (1 + d) + 1 ELSE 0
      /\ \A i \in 1..(m - (1 + d) + 1) : t[i] = c[(1 + d) + i - 1]
  BY <1>5, SubSeqProperties
<1> HIDE DEF t
<1>7. Trimmed(t, c, m, d)
  BY <1>6 DEF Trimmed
<1>8. t = Newest(c, v)
  BY <1>4 DEF t
<1> QED
  BY <1>1, <1>2, <1>6, <1>7, <1>8

(* t is s, of m messages, without its first d and with a and b at the end. *)
Pushed(t, s, a, b, m, d) ==
    /\ Len(t) = m + 2 - d
    /\ \A i \in 1..(m - d) : t[i] = s[i + d]
    /\ t[m + 1 - d] = a /\ t[m + 2 - d] = b

LEMMA PushAndTrim ==
    ASSUME NEW S, NEW s \in Seq(S), NEW a \in S, NEW b \in S, NEW v \in Nat \ {0, 1}, Len(s) <= v
    PROVE  /\ Newest(s \o <<a, b>>, v) \in Seq(S)
           /\ Pushed(Newest(s \o <<a, b>>, v), s, a, b, Len(s), Dropped(Len(s) + 2, v))
<1>1. PICK m \in Nat : m = Len(s) /\ m <= v
  OBVIOUS
<1>2. PICK d \in 0..2 : d = Dropped(m + 2, v) /\ d <= m
  BY <1>1 DEF Dropped
<1> DEFINE c == s \o <<a, b>>
           t == Newest(c, v)
<1>3. /\ c \in Seq(S) /\ Len(c) = m + 2
      /\ \A i \in 1..m : c[i] = s[i]
      /\ c[m + 1] = a /\ c[m + 2] = b
  BY <1>1, Push
<1> HIDE DEF c
<1>4. /\ t \in Seq(S) /\ Len(t) = m + 2 - d
      /\ \A i \in 1..(m + 2 - d) : t[i] = c[i + d]
  <2>1. Len(c) = m + 2 /\ Dropped(Len(c), v) = d
    BY <1>2, <1>3
  <2>2. t \in Seq(S) /\ Trimmed(t, c, Len(c), Dropped(Len(c), v))
    BY <1>3, Trim
  <2>3. Trimmed(t, c, m + 2, d)
    BY <2>1, <2>2
  <2> QED
    BY <2>2, <2>3 DEF Trimmed
<1> HIDE DEF t
<1>5. ASSUME NEW i \in 1..(m - d) PROVE t[i] = s[i + d]
  <2>1. i \in 1..(m + 2 - d) /\ i + d \in 1..m
    OBVIOUS
  <2> QED
    BY <1>3, <1>4, <2>1
<1>6. t[m + 1 - d] = a /\ t[m + 2 - d] = b
  <2>1. /\ m + 1 - d \in 1..(m + 2 - d) /\ m + 2 - d \in 1..(m + 2 - d)
        /\ m + 1 - d + d = m + 1 /\ m + 2 - d + d = m + 2
    BY <1>2
  <2>2. t[m + 1 - d] = c[m + 1 - d + d] /\ t[m + 2 - d] = c[m + 2 - d + d]
    BY <1>4, <2>1
  <2> QED
    BY <1>3, <2>1, <2>2
<1>7. Pushed(t, s, a, b, m, d)
  BY <1>4, <1>5, <1>6 DEF Pushed
<1>8. t = Newest(s \o <<a, b>>, v)
  BY DEF c, t
<1> QED
  BY <1>1, <1>2, <1>4, <1>7, <1>8

LEMMA AppendOK ==
    ASSUME MemoryOK, NEW k \in Conversations, NEW r \in Turns, AppendTurn(k, r)
    PROVE  /\ MemoryOK'
           /\ \A j \in Conversations : Recent(j) \subseteq Recent(j)'
           /\ r \in Recent(k)'
<1> DEFINE a == [turn |-> r, role |-> "user"]
           b == [turn |-> r, role |-> "assistant"]
           t == Newest(memory[k] \o <<a, b>>, 2 * Window)
           new == Append(log[k], r)
<1>1. /\ memory \in [Conversations -> Seq(Messages)] /\ log \in [Conversations -> Seq(Turns)]
      /\ expired \in [Conversations -> Nat] /\ expired' = expired
      /\ memory' = [memory EXCEPT ![k] = t] /\ log' = [log EXCEPT ![k] = new]
  BY DEF MemoryOK, MemoryTypeOK, AppendTurn
<1>2. a \in Messages /\ b \in Messages
  BY DEF Messages
<1>3. PICK l \in Nat, e \in Nat, w \in Nat \ {0} :
          l = Len(log[k]) /\ e = expired[k] /\ w = Window /\ e <= l
  BY <1>1, WindowAssumption DEF MemoryOK, Remembers, IsWindow
<1>4. PICK n \in Nat : n = (IF l - e > w THEN w ELSE l - e) /\ n <= l /\ n <= w
  <2> DEFINE x == IF l - e > w THEN w ELSE l - e
  <2>1. e <= l
    BY <1>3
  <2>2. x \in Nat /\ x <= l /\ x <= w
    BY <2>1
  <2> QED
    BY <2>2
<1>5. PICK m \in Nat : m = (IF n = w THEN n ELSE n + 1) /\ m = IF l + 1 - e > w THEN w ELSE l + 1 - e
  <2>1. e <= l
    BY <1>3
  <2>2. PICK m \in Nat : m = IF n = w THEN n ELSE n + 1
    OBVIOUS
  <2>3. m = IF l + 1 - e > w THEN w ELSE l + 1 - e
    BY <1>4, <2>1, <2>2, KeptGrows
  <2> QED
    BY <2>2, <2>3
<1>6. PICK d \in Nat : d = IF n = w THEN 2 ELSE 0
  OBVIOUS
<1>7. n = Kept(l, e, w)
  BY <1>4 DEF Kept
<1>8. /\ Len(memory[k]) = 2 * n
      /\ \A i \in 1..n :
             /\ memory[k][2 * i - 1] = [turn |-> log[k][l - n + i], role |-> "user"]
             /\ memory[k][2 * i] = [turn |-> log[k][l - n + i], role |-> "assistant"]
  BY <1>3, <1>7 DEF MemoryOK, Remembers, IsWindow, HoldsNewest
<1>9. /\ t \in Seq(Messages) /\ Len(t) = 2 * n + 2 - d
      /\ \A i \in 1..(2 * n - d) : t[i] = memory[k][i + d]
      /\ t[2 * n + 1 - d] = a /\ t[2 * n + 2 - d] = b
  <2>1. PICK s \in Seq(Messages) : s = memory[k] /\ Len(s) = 2 * n
    BY <1>1, <1>8
  <2>2. PICK v \in Nat \ {0, 1} : v = 2 * w /\ 2 * n <= v
    BY <1>4
  <2>3. Dropped(2 * n + 2, v) = d
    BY <1>4, <1>6, <2>2 DEF Dropped
  <2>4. t = Newest(s \o <<a, b>>, v)
    BY <1>3, <2>1, <2>2
  <2> HIDE DEF a, b, t, new
  <2>5. PICK p \in Nat : p = 2 * n
    OBVIOUS
  <2>6. p = Len(s) /\ Len(s) <= v /\ d = Dropped(Len(s) + 2, v)
    BY <2>1, <2>2, <2>3, <2>5
  <2>7. t \in Seq(Messages) /\ Pushed(t, s, a, b, p, d)
    BY <1>2, <2>4, <2>6, PushAndTrim
  <2>8. /\ Len(t) = p + 2 - d
        /\ \A i \in 1..(p - d) : t[i] = s[i + d]
        /\ t[p + 1 - d] = a /\ t[p + 2 - d] = b
    BY <2>7 DEF Pushed
  <2> QED
    BY <2>1, <2>5, <2>7, <2>8
<1>10. /\ new \in Seq(Turns) /\ Len(new) = l + 1
       /\ \A i \in 1..l : new[i] = log[k][i]
       /\ new[l + 1] = r
  BY <1>1, <1>3, AppendProperties
<1> HIDE DEF t, a, b, new
<1>11. MemoryTypeOK'
  BY <1>1, <1>9, <1>10 DEF MemoryTypeOK
<1>12. memory'[k] = t /\ log'[k] = new /\ expired'[k] = e
  BY <1>1, <1>3
<1>13. ASSUME NEW j \in Conversations, j # k
       PROVE  memory'[j] = memory[j] /\ log'[j] = log[j] /\ expired'[j] = expired[j]
  BY <1>1, <1>13
<1>14. ASSUME NEW i \in 1..m
       PROVE  /\ t[2 * i - 1] = [turn |-> new[l + 1 - m + i], role |-> "user"]
              /\ t[2 * i] = [turn |-> new[l + 1 - m + i], role |-> "assistant"]
  <2>1. CASE i = m
    <3>1. 2 * i - 1 = 2 * n + 1 - d /\ 2 * i = 2 * n + 2 - d /\ l + 1 - m + i = l + 1
      BY <1>5, <1>6, <2>1
    <3> QED
      BY <1>9, <1>10, <3>1 DEF a, b
  <2>2. CASE i # m
    <3>1. PICK h \in 1..n :
              /\ 2 * h - 1 = 2 * i - 1 + d /\ 2 * h = 2 * i + d
              /\ 2 * i - 1 \in 1..(2 * n - d) /\ 2 * i \in 1..(2 * n - d)
              /\ l + 1 - m + i = l - n + h /\ l - n + h \in 1..l
      <4>1. PICK h \in Nat : h = IF n = w THEN i + 1 ELSE i
        OBVIOUS
      <4> QED
        BY <1>4, <1>5, <1>6, <2>2, <4>1, OthersMove
    <3>2. t[2 * i - 1] = memory[k][2 * h - 1] /\ t[2 * i] = memory[k][2 * h]
      BY <1>9, <3>1
    <3>3. /\ memory[k][2 * h - 1] = [turn |-> log[k][l - n + h], role |-> "user"]
          /\ memory[k][2 * h] = [turn |-> log[k][l - n + h], role |-> "assistant"]
      BY <1>8
    <3>4. new[l + 1 - m + i] = log[k][l - n + h]
      BY <1>10, <3>1
    <3> QED
      BY <3>2, <3>3, <3>4
  <2> QED
    BY <2>1, <2>2
<1>15. IsWindow(t, new, e)
  <2>1. m = Kept(l + 1, e, w)
    BY <1>5 DEF Kept
  <2>2. Len(t) = 2 * m
    BY <1>5, <1>6, <1>9
  <2>3. HoldsNewest(t, new, m)
    BY <1>10, <1>14, <2>2 DEF HoldsNewest
  <2>4. m = Kept(Len(new), e, Window) /\ e <= Len(new)
    BY <1>3, <1>10, <2>1
  <2> QED
    BY <2>3, <2>4 DEF IsWindow
<1>16. ASSUME NEW j \in Conversations PROVE Remembers(j)'
  <2>1. CASE j = k
    BY <1>12, <1>15, <2>1 DEF Remembers
  <2>2. CASE j # k
    BY <1>13, <2>2 DEF MemoryOK, Remembers
  <2> QED
    BY <2>1, <2>2
<1>17. Recent(k) \subseteq Recent(k)' /\ r \in Recent(k)'
  <2>1. Recent(k)' = {new[i] : i \in (e + 1)..(l + 1)}
    BY <1>10, <1>12 DEF Recent
  <2>2. Recent(k) = {log[k][i] : i \in (e + 1)..l}
    BY <1>3 DEF Recent
  <2>3. r \in Recent(k)'
    <3>1. e <= l
      BY <1>3
    <3>2. l + 1 \in (e + 1)..(l + 1)
      BY <3>1
    <3>3. r = new[l + 1]
      BY <1>10
    <3>4. r \in {new[i] : i \in (e + 1)..(l + 1)}
      BY <3>2, <3>3, Zenon
    <3> QED
      BY <2>1, <3>4
  <2>4. ASSUME NEW i \in (e + 1)..l
        PROVE  log[k][i] = new[i] /\ i \in (e + 1)..(l + 1)
    <3>1. i \in 1..l
      OBVIOUS
    <3>2. log[k][i] = new[i]
      BY <1>10, <3>1
    <3> QED
      BY <3>2
  <2>5. Recent(k) \subseteq Recent(k)'
    BY <2>1, <2>2, <2>4
  <2> QED
    BY <2>3, <2>5
<1>18. \A j \in Conversations : j # k => Recent(j) = Recent(j)'
  BY <1>13 DEF Recent
<1> QED
  BY <1>11, <1>16, <1>17, <1>18 DEF MemoryOK

-----------------------------------------------------------------------------
Labels == {"new", "deliver"} \cup InFlight \cup Ended
Outcomes == {"none", "task", "logged", "lost"}

(* What a state of r, an outcome of its usage and the due must satisfy.    *)
StateOK(r, state, outcome, owed) ==
    /\ state.pc = "append" => state.conversation # NoConversation
    /\ state.pc = "deliver" /\ state.conversation # NoConversation =>
           r \in Recent(state.conversation)
    /\ r \in owed => state.pc = "append" \/ outcome \in {"task", "logged"}

LEMMA Moved ==
    ASSUME NEW state \in TurnState, NEW l \in Labels
    PROVE  /\ Over(state, l) \in TurnState /\ Over(state, l).pc = l
           /\ Over(state, l).conversation = state.conversation
           /\ [state EXCEPT !.pc = l] \in TurnState /\ [state EXCEPT !.pc = l].pc = l
           /\ [state EXCEPT !.pc = l].conversation = state.conversation
<1>1. <<>> \in Seq(Messages) /\ {} \in SUBSET Turns
  OBVIOUS
<1> QED
  BY <1>1 DEF TurnState, Over, Labels

LEMMA MemoryKept ==
    ASSUME Inv, UNCHANGED memoryVars
    PROVE  MemoryOK' /\ \A k \in Conversations : Recent(k)' = Recent(k)
<1>1. memory' = memory /\ log' = log /\ expired' = expired
  BY DEF memoryVars
<1>2. \A k \in Conversations : Remembers(k)'
  BY <1>1 DEF Inv, MemoryOK, Remembers
<1>3. MemoryTypeOK'
  BY <1>1 DEF Inv, MemoryOK, MemoryTypeOK
<1>4. \A k \in Conversations : Recent(k)' = Recent(k)
  BY <1>1 DEF Recent
<1> QED
  BY <1>2, <1>3, <1>4 DEF MemoryOK

(* A step of r that forgets nothing keeps what concerns the other turns.   *)
LEMMA StepOK ==
    ASSUME Inv, MemoryOK', answered' \in [Conversations -> SUBSET Turns], AnsweredOK',
           \A k \in Conversations : Recent(k) \subseteq Recent(k)',
           NEW r \in Turns, NEW state \in TurnState, NEW outcome \in Outcomes,
           turn' = [turn EXCEPT ![r] = state], usage' = [usage EXCEPT ![r] = outcome],
           due' \subseteq due \cup {r},
           state.pc = "append" => state.conversation # NoConversation,
           state.pc = "deliver" /\ state.conversation # NoConversation =>
               r \in Recent(state.conversation)',
           r \in due' => state.pc = "append" \/ outcome \in {"task", "logged"}
    PROVE  Inv'
<1>1. turn \in [Turns -> TurnState] /\ usage \in [Turns -> Outcomes] /\ due \subseteq Turns
  BY DEF Inv, TypeOK, Outcomes
<1>2. turn' \in [Turns -> TurnState] /\ usage' \in [Turns -> Outcomes] /\ due' \subseteq Turns
  BY <1>1
<1>3. TypeOK'
  BY <1>2 DEF TypeOK, MemoryOK, Outcomes
<1>4. turn'[r] = state /\ usage'[r] = outcome
  BY <1>1
<1>5. TurnOK(r)'
  BY <1>4 DEF TurnOK, HasConversation
<1>6. ASSUME NEW q \in Turns, q # r PROVE TurnOK(q)'
  <2>1. turn'[q] = turn[q] /\ usage'[q] = usage[q] /\ (q \in due' => q \in due)
    BY <1>1, <1>6
  <2>2. turn[q].conversation # NoConversation => turn[q].conversation \in Conversations
    BY <1>1 DEF TurnState
  <2>3. TurnOK(q)
    BY DEF Inv
  <2> QED
    BY <2>1, <2>2, <2>3 DEF TurnOK, HasConversation
<1> QED
  BY <1>3, <1>5, <1>6 DEF Inv

(* The same of a step that leaves the memory and the answers alone.        *)
LEMMA LocalOK ==
    ASSUME Inv, UNCHANGED <<memoryVars, answered>>,
           NEW r \in Turns, NEW state \in TurnState, NEW outcome \in Outcomes,
           turn' = [turn EXCEPT ![r] = state], usage' = [usage EXCEPT ![r] = outcome],
           NEW owed \in SUBSET (due \cup {r}), due' = owed, StateOK(r, state, outcome, owed)
    PROVE  Inv'
<1>1. MemoryOK' /\ \A k \in Conversations : Recent(k)' = Recent(k)
  BY MemoryKept
<1>2. answered' \in [Conversations -> SUBSET Turns] /\ AnsweredOK'
  BY <1>1 DEF Inv, TypeOK, AnsweredOK
<1>3. state.conversation # NoConversation => state.conversation \in Conversations
  BY DEF TurnState
<1>4. /\ state.pc = "append" => state.conversation # NoConversation
      /\ state.pc = "deliver" /\ state.conversation # NoConversation =>
             r \in Recent(state.conversation)'
      /\ r \in due' => state.pc = "append" \/ outcome \in {"task", "logged"}
  BY <1>1, <1>3 DEF StateOK
<1> QED
  BY <1>1, <1>2, <1>4, StepOK

LEMMA TurnFacts ==
    ASSUME Inv, NEW r \in Turns
    PROVE  /\ turn[r] \in TurnState /\ usage[r] \in Outcomes
           /\ usage = [usage EXCEPT ![r] = usage[r]] /\ turn = [turn EXCEPT ![r] = turn[r]]
           /\ StateOK(r, turn[r], usage[r], due)
<1>1. turn \in [Turns -> TurnState] /\ usage \in [Turns -> Outcomes] /\ TurnOK(r)
  BY DEF Inv, TypeOK, Outcomes
<1> QED
  BY <1>1 DEF TurnOK, StateOK, HasConversation

(* A step of r that is neither to nor from the append, nor to the answer,  *)
(* or that gives its call up.                                              *)
LEMMA MovesOn ==
    ASSUME Inv, UNCHANGED <<memoryVars, usage, answered>>, NEW r \in Turns,
           NEW state \in TurnState, turn' = [turn EXCEPT ![r] = state],
           state.pc \notin {"append", "deliver"},
           \/ due' = due /\ turn[r].pc # "append"
           \/ due' = due \ {r}
    PROVE  Inv'
<1>1. /\ usage[r] \in Outcomes /\ usage' = [usage EXCEPT ![r] = usage[r]]
      /\ StateOK(r, turn[r], usage[r], due)
  BY TurnFacts
<1>2. CASE due' = due /\ turn[r].pc # "append"
  <2>1. StateOK(r, state, usage[r], due)
    BY <1>1, <1>2 DEF StateOK
  <2>2. due \in SUBSET (due \cup {r})
    OBVIOUS
  <2> QED
    BY <1>1, <1>2, <2>1, <2>2, LocalOK
<1>3. CASE due' = due \ {r}
  <2>1. StateOK(r, state, usage[r], due \ {r})
    BY DEF StateOK
  <2>2. due \ {r} \in SUBSET (due \cup {r})
    OBVIOUS
  <2> QED
    BY <1>1, <1>3, <2>1, <2>2, LocalOK
<1> QED
  BY <1>2, <1>3

LEMMA BeginOK == ASSUME Inv, NEW r \in Turns, Begin(r) PROVE Inv'
<1>1. PICK k \in Conversations \cup {NoConversation} :
          turn' = [turn EXCEPT ![r] = [turn[r] EXCEPT !.pc = "resolve", !.conversation = k,
                      !.seen = IF k \in Conversations THEN answered[k] ELSE {}]]
  BY DEF Begin, Become
<1>2. turn[r].pc = "new" /\ UNCHANGED <<memoryVars, usage, answered>> /\ due' = due
  BY DEF Begin
<1>3. PICK a \in SUBSET Turns : a = IF k \in Conversations THEN answered[k] ELSE {}
  BY DEF Inv, TypeOK
<1> DEFINE state == [turn[r] EXCEPT !.pc = "resolve", !.conversation = k, !.seen = a]
<1>4. state \in TurnState /\ state.pc = "resolve"
  <2>1. turn[r] \in TurnState
    BY TurnFacts
  <2> QED
    BY <2>1 DEF TurnState, InFlight, Preparing
<1>5. turn' = [turn EXCEPT ![r] = state]
  BY <1>1, <1>3
<1> HIDE DEF state
<1> QED
  BY <1>2, <1>4, <1>5, MovesOn

LEMMA GoesOn ==
    ASSUME Inv, NEW r \in Turns, UNCHANGED <<memoryVars, usage, answered, due>>,
           turn[r].pc # "append", NEW l \in Labels \ {"append", "deliver"}, Goto(r, l)
    PROVE  Inv'
<1> DEFINE state == [turn[r] EXCEPT !.pc = l]
<1>1. state \in TurnState /\ state.pc = l
  BY TurnFacts, Moved
<1>2. turn' = [turn EXCEPT ![r] = state]
  BY DEF Goto, Become
<1> HIDE DEF state
<1> QED
  BY <1>1, <1>2, MovesOn

LEMMA ResolveOK == ASSUME Inv, NEW r \in Turns, Resolve(r) PROVE Inv'
<1>1. turn[r].pc # "append" /\ UNCHANGED <<memoryVars, usage, answered, due>>
  BY DEF Resolve
<1>2. {"classify", "history"} \subseteq Labels \ {"append", "deliver"}
  BY DEF Labels, InFlight, Preparing
<1> QED
  BY <1>1, <1>2, GoesOn DEF Resolve

LEMMA ClassifyOK == ASSUME Inv, NEW r \in Turns, Classify(r) PROVE Inv'
<1>1. turn[r].pc # "append" /\ UNCHANGED <<memoryVars, usage, answered, due>>
  BY DEF Classify
<1>2. "history" \in Labels \ {"append", "deliver"}
  BY DEF Labels, InFlight, Preparing
<1> QED
  BY <1>1, <1>2, GoesOn DEF Classify

LEMMA ReadHistoryOK == ASSUME Inv, NEW r \in Turns, ReadHistory(r) PROVE Inv'
<1>1. turn[r].pc = "history" /\ UNCHANGED <<memoryVars, usage, answered>> /\ due' = due
  BY DEF ReadHistory
<1>2. HasConversation(r) => turn[r].conversation \in Conversations
  BY TurnFacts DEF TurnState, HasConversation
<1>3. PICK h \in Seq(Messages) :
          h = IF HasConversation(r) THEN memory[turn[r].conversation] ELSE <<>>
  <2>1. memory \in [Conversations -> Seq(Messages)] /\ <<>> \in Seq(Messages)
    BY DEF Inv, MemoryOK, MemoryTypeOK
  <2> QED
    BY <1>2, <2>1
<1> DEFINE state == [turn[r] EXCEPT !.pc = "stream", !.history = h]
<1>4. turn' = [turn EXCEPT ![r] = state]
  BY <1>3 DEF ReadHistory, Become
<1>5. state \in TurnState /\ state.pc = "stream"
  <2>1. turn[r] \in TurnState
    BY TurnFacts
  <2> QED
    BY <2>1 DEF TurnState, InFlight
<1> HIDE DEF state
<1> QED
  BY <1>1, <1>4, <1>5, MovesOn

LEMMA EndStreamOK == ASSUME Inv, NEW r \in Turns, EndStream(r) PROVE Inv'
<1>1. turn[r].pc = "stream" /\ UNCHANGED <<memoryVars, answered>>
  BY DEF EndStream
<1>2. PICK owed \in SUBSET (due \cup {r}) : due' = owed
  BY DEF EndStream
<1>3. /\ turn[r] \in TurnState /\ usage[r] \in Outcomes
      /\ usage = [usage EXCEPT ![r] = usage[r]]
  BY TurnFacts
<1>4. {"append", "deliver"} \subseteq Labels
  BY DEF Labels, InFlight
<1>5. CASE HasConversation(r) /\ Become(r, Over(turn[r], "append")) /\ UNCHANGED usage
  <2> DEFINE state == Over(turn[r], "append")
  <2>1. state \in TurnState /\ state.pc = "append" /\ state.conversation = turn[r].conversation
    BY <1>3, <1>4, Moved
  <2>2. turn' = [turn EXCEPT ![r] = state] /\ usage' = [usage EXCEPT ![r] = usage[r]]
    BY <1>3, <1>5 DEF Become
  <2> HIDE DEF state
  <2>3. StateOK(r, state, usage[r], owed)
    BY <1>5, <2>1 DEF StateOK, HasConversation
  <2> QED
    BY <1>1, <1>2, <1>3, <2>1, <2>2, <2>3, LocalOK
<1>6. CASE ~HasConversation(r) /\ Done(r)
  <2> DEFINE state == Over(turn[r], "deliver")
  <2>1. state \in TurnState /\ state.pc = "deliver" /\ state.conversation = turn[r].conversation
    BY <1>3, <1>4, Moved
  <2>2. turn' = [turn EXCEPT ![r] = state] /\ usage' = [usage EXCEPT ![r] = "task"]
    BY <1>6 DEF Done, Become
  <2> HIDE DEF state
  <2>3. StateOK(r, state, "task", owed) /\ "task" \in Outcomes
    BY <1>6, <2>1 DEF StateOK, HasConversation, Outcomes
  <2> QED
    BY <1>1, <1>2, <2>1, <2>2, <2>3, LocalOK
<1> QED
  BY <1>5, <1>6 DEF EndStream

(* The append, acknowledged or not: the turn is counted or no longer due.  *)
LEMMA Appended ==
    ASSUME Inv, NEW r \in Turns, turn[r].pc = "append", AppendTurn(turn[r].conversation, r),
           NEW l \in {"deliver", "failed"}, NEW outcome \in Outcomes,
           turn' = [turn EXCEPT ![r] = Over(turn[r], l)],
           usage' = [usage EXCEPT ![r] = outcome], answered' = answered,
           due' \subseteq due, r \in due' => outcome = "task"
    PROVE  Inv'
<1>1. PICK k \in Conversations : k = turn[r].conversation
  BY TurnFacts DEF TurnState, StateOK
<1>2. /\ MemoryOK'
      /\ \A j \in Conversations : Recent(j) \subseteq Recent(j)'
      /\ r \in Recent(k)'
  BY <1>1, AppendOK DEF Inv
<1>3. answered' \in [Conversations -> SUBSET Turns] /\ AnsweredOK'
  BY <1>2 DEF Inv, TypeOK, AnsweredOK
<1>4. PICK state \in TurnState :
          state = Over(turn[r], l) /\ state.pc = l /\ state.conversation = k
  <2>1. turn[r] \in TurnState /\ l \in Labels
    BY TurnFacts DEF Labels, Ended
  <2>2. /\ Over(turn[r], l) \in TurnState /\ Over(turn[r], l).pc = l
        /\ Over(turn[r], l).conversation = turn[r].conversation
    BY <2>1, Moved
  <2> QED
    BY <1>1, <2>2
<1>5. turn' = [turn EXCEPT ![r] = state]
  BY <1>4
<1>6. state.pc # "append" /\ due' \subseteq due \cup {r}
  BY <1>4
<1> QED
  BY <1>2, <1>3, <1>4, <1>5, <1>6, StepOK

LEMMA PersistOK == ASSUME Inv, NEW r \in Turns, Persist(r) PROVE Inv'
<1>1. "task" \in Outcomes
  BY DEF Outcomes
<1>2. due' \subseteq due
  BY DEF Persist
<1> QED
  BY <1>1, <1>2, Appended DEF Persist, Done, Become

LEMMA PersistUnacknowledgedOK == ASSUME Inv, NEW r \in Turns, PersistUnacknowledged(r) PROVE Inv'
<1>1. usage[r] \in Outcomes /\ usage' = [usage EXCEPT ![r] = usage[r]]
  BY TurnFacts DEF PersistUnacknowledged
<1>2. due' \subseteq due /\ r \notin due'
  BY DEF PersistUnacknowledged
<1> QED
  BY <1>1, <1>2, Appended DEF PersistUnacknowledged, Become

LEMMA FailOK == ASSUME Inv, NEW r \in Turns, Fail(r) PROVE Inv'
<1>1. UNCHANGED <<memoryVars, usage, answered>> /\ due' = due \ {r}
  BY DEF Fail
<1>2. Over(turn[r], "failed") \in TurnState /\ Over(turn[r], "failed").pc = "failed"
  BY TurnFacts, Moved DEF Labels, Ended
<1>3. turn' = [turn EXCEPT ![r] = Over(turn[r], "failed")]
  BY DEF Fail, Become
<1> QED
  BY <1>1, <1>2, <1>3, MovesOn

LEMMA DisconnectOK == ASSUME Inv, NEW r \in Turns, Disconnect(r) PROVE Inv'
<1>1. /\ UNCHANGED <<memoryVars, usage, answered>>
      /\ turn' = [turn EXCEPT ![r] = Over(turn[r], "gone")]
  BY DEF Disconnect, Become
<1>2. \/ due' = due /\ turn[r].pc # "append"
      \/ due' = due \ {r}
  BY DEF Disconnect
<1>3. Over(turn[r], "gone") \in TurnState /\ Over(turn[r], "gone").pc = "gone"
  BY TurnFacts, Moved DEF Labels, Ended
<1> QED
  BY <1>1, <1>2, <1>3, MovesOn

LEMMA LogUsageOK == ASSUME Inv, NEW r \in Turns, LogUsage(r) PROVE Inv'
<1>1. UNCHANGED <<memoryVars, answered>>
  BY DEF LogUsage
<1>2. /\ turn[r] \in TurnState /\ turn' = [turn EXCEPT ![r] = turn[r]]
      /\ StateOK(r, turn[r], usage[r], due)
  BY TurnFacts DEF LogUsage
<1>3. CASE usage' = [usage EXCEPT ![r] = "logged"] /\ UNCHANGED due
  <2>1. StateOK(r, turn[r], "logged", due) /\ "logged" \in Outcomes
    BY <1>2 DEF StateOK, Outcomes
  <2>2. due \in SUBSET (due \cup {r})
    OBVIOUS
  <2> QED
    BY <1>1, <1>2, <1>3, <2>1, <2>2, LocalOK
<1>4. CASE usage' = [usage EXCEPT ![r] = "lost"] /\ due' = due \ {r}
  <2>1. StateOK(r, turn[r], "lost", due \ {r}) /\ "lost" \in Outcomes
    BY <1>2 DEF StateOK, Outcomes
  <2>2. due \ {r} \in SUBSET (due \cup {r})
    OBVIOUS
  <2> QED
    BY <1>1, <1>2, <1>4, <2>1, <2>2, LocalOK
<1> QED
  BY <1>3, <1>4 DEF LogUsage

LEMMA DeliverOK == ASSUME Inv, NEW r \in Turns, Deliver(r) PROVE Inv'
<1>1. /\ turn[r].pc = "deliver" /\ UNCHANGED memoryVars /\ usage' = usage /\ due' = due
      /\ turn' = [turn EXCEPT ![r] = [turn[r] EXCEPT !.pc = "answered"]]
      /\ answered' = [k \in Conversations |->
             IF k = turn[r].conversation THEN answered[k] \cup {r} ELSE answered[k]]
  BY DEF Deliver, Goto, Become
<1>2. MemoryOK' /\ \A k \in Conversations : Recent(k)' = Recent(k)
  BY <1>1, MemoryKept
<1>3. turn[r].conversation # NoConversation => r \in Recent(turn[r].conversation)
  BY <1>1, TurnFacts DEF StateOK
<1>4. answered' \in [Conversations -> SUBSET Turns]
  BY <1>1 DEF Inv, TypeOK
<1>5. AnsweredOK'
  <2>1. ASSUME NEW k \in Conversations PROVE answered'[k] \subseteq Recent(k)'
    <3>1. answered[k] \subseteq Recent(k) /\ k # NoConversation
      BY ConversationAssumption DEF Inv, AnsweredOK
    <3> QED
      BY <1>1, <1>2, <1>3, <3>1
  <2> QED
    BY <2>1 DEF AnsweredOK
<1>6. PICK state \in TurnState :
          state = [turn[r] EXCEPT !.pc = "answered"] /\ state.pc = "answered"
  <2>1. turn[r] \in TurnState /\ "answered" \in Labels
    BY TurnFacts DEF Labels, Ended
  <2> DEFINE s == [turn[r] EXCEPT !.pc = "answered"]
  <2>2. s \in TurnState /\ s.pc = "answered"
    BY <2>1, Moved
  <2> QED
    BY <2>2
<1>7. /\ usage[r] \in Outcomes /\ usage' = [usage EXCEPT ![r] = usage[r]]
      /\ StateOK(r, turn[r], usage[r], due)
  BY <1>1, TurnFacts
<1>8. turn' = [turn EXCEPT ![r] = state]
  BY <1>1, <1>6
<1>9. /\ state.pc # "append" /\ state.pc # "deliver" /\ due' \subseteq due \cup {r}
      /\ r \in due' => usage[r] \in {"task", "logged"}
  BY <1>1, <1>6, <1>7 DEF StateOK
<1> QED
  BY <1>2, <1>4, <1>5, <1>6, <1>7, <1>8, <1>9, StepOK

LEMMA CrashOK == ASSUME Inv, Crash PROVE Inv'
<1>1. /\ turn' = [r \in Turns |-> IF turn[r].pc \in InFlight \cup {"deliver"}
                                  THEN Over(turn[r], "gone") ELSE turn[r]]
      /\ usage' = [r \in Turns |-> IF usage[r] = "task" THEN "lost" ELSE usage[r]]
      /\ due' = {r \in due : turn[r].pc # "append" /\ usage[r] # "task"}
      /\ UNCHANGED memoryVars /\ answered' = answered
  BY DEF Crash
<1>2. MemoryOK' /\ \A k \in Conversations : Recent(k)' = Recent(k)
  BY <1>1, MemoryKept
<1>3. answered' \in [Conversations -> SUBSET Turns] /\ AnsweredOK'
  BY <1>1, <1>2 DEF Inv, TypeOK, AnsweredOK
<1>4. ASSUME NEW r \in Turns
      PROVE  turn'[r] \in TurnState /\ usage'[r] \in Outcomes /\ TurnOK(r)'
  <2>1. turn[r] \in TurnState /\ usage[r] \in Outcomes /\ StateOK(r, turn[r], usage[r], due)
    BY TurnFacts
  <2>2. usage'[r] \in Outcomes /\ (r \in due' => usage'[r] = "logged")
    <3>1. usage'[r] = IF usage[r] = "task" THEN "lost" ELSE usage[r]
      BY <1>1
    <3>2. r \in due' => usage[r] = "logged"
      BY <1>1, <2>1 DEF StateOK
    <3> QED
      BY <2>1, <3>1, <3>2 DEF Outcomes
  <2>3. turn'[r] \in TurnState /\ turn'[r].pc \notin {"append", "deliver"}
    <3>1. CASE turn[r].pc \in InFlight \cup {"deliver"}
      <4>1. turn'[r] = Over(turn[r], "gone") /\ "gone" \in Labels
        BY <1>1, <3>1 DEF Labels, Ended
      <4>2. Over(turn[r], "gone") \in TurnState /\ Over(turn[r], "gone").pc = "gone"
        BY <2>1, <4>1, Moved
      <4> QED
        BY <4>1, <4>2
    <3>2. CASE turn[r].pc \notin InFlight \cup {"deliver"}
      <4>1. turn'[r] = turn[r]
        BY <1>1, <3>2
      <4> QED
        BY <2>1, <3>2, <4>1 DEF InFlight
    <3> QED
      BY <3>1, <3>2
  <2> QED
    BY <2>2, <2>3 DEF TurnOK
<1>5. TypeOK'
  <2>1. turn' \in [Turns -> TurnState] /\ usage' \in [Turns -> Outcomes]
    BY <1>1, <1>4
  <2>2. due' \subseteq Turns
    BY <1>1 DEF Inv, TypeOK
  <2> QED
    BY <1>2, <1>3, <2>1, <2>2 DEF TypeOK, MemoryOK, Outcomes
<1> QED
  BY <1>2, <1>3, <1>4, <1>5 DEF Inv

LEMMA ExpireMemoryOK == ASSUME Inv, NEW k \in Conversations, ExpireMemory(k) PROVE Inv'
<1>1. /\ memory' = [memory EXCEPT ![k] = <<>>]
      /\ expired' = [expired EXCEPT ![k] = Len(log[k])]
      /\ log' = log /\ turn' = turn /\ usage' = usage /\ due' = due
      /\ answered' = [answered EXCEPT ![k] = {}]
      /\ \A r \in Turns : turn[r].pc = "deliver" => turn[r].conversation # k
  BY DEF ExpireMemory, Expire
<1>2. /\ memory \in [Conversations -> Seq(Messages)] /\ log \in [Conversations -> Seq(Turns)]
      /\ expired \in [Conversations -> Nat] /\ answered \in [Conversations -> SUBSET Turns]
  BY DEF Inv, TypeOK, MemoryTypeOK
<1>3. MemoryTypeOK' /\ answered' \in [Conversations -> SUBSET Turns]
  BY <1>1, <1>2 DEF MemoryTypeOK
<1>4. ASSUME NEW j \in Conversations PROVE Remembers(j)' /\ answered'[j] \subseteq Recent(j)'
  <2>1. CASE j = k
    <3>1. PICK l \in Nat : l = Len(log[k])
      BY <1>2
    <3>2. Kept(l, l, Window) = 0
      BY WindowAssumption DEF Kept
    <3>3. memory'[j] = <<>> /\ log'[j] = log[k] /\ expired'[j] = l /\ answered'[j] = {}
      BY <1>1, <1>2, <2>1, <3>1
    <3>4. HoldsNewest(<<>>, log[k], 0)
      BY DEF HoldsNewest
    <3>5. IsWindow(<<>>, log[k], l)
      BY <3>1, <3>2, <3>4 DEF IsWindow
    <3> QED
      BY <3>3, <3>5 DEF Remembers
  <2>2. CASE j # k
    <3>1. /\ memory'[j] = memory[j] /\ log'[j] = log[j] /\ expired'[j] = expired[j]
          /\ answered'[j] = answered[j]
      BY <1>1, <1>2, <2>2
    <3>2. Remembers(j) /\ answered[j] \subseteq Recent(j)
      BY DEF Inv, MemoryOK, AnsweredOK
    <3> QED
      BY <3>1, <3>2 DEF Remembers, Recent
  <2> QED
    BY <2>1, <2>2
<1>5. ASSUME NEW r \in Turns PROVE TurnOK(r)'
  <2>1. turn[r] \in TurnState /\ StateOK(r, turn[r], usage[r], due)
    BY TurnFacts
  <2>2. PICK c : c = turn[r].conversation
    OBVIOUS
  <2>3. turn[r].pc = "deliver" /\ c # NoConversation => Recent(c)' = Recent(c)
    <3>1. SUFFICES ASSUME turn[r].pc = "deliver", c # NoConversation PROVE Recent(c)' = Recent(c)
      OBVIOUS
    <3>2. c \in Conversations /\ c # k
      BY <1>1, <2>1, <2>2, <3>1 DEF TurnState
    <3>3. log'[c] = log[c] /\ expired'[c] = expired[c]
      BY <1>1, <1>2, <3>2
    <3> QED
      BY <3>3 DEF Recent
  <2>4. /\ turn[r].pc = "append" => c # NoConversation
        /\ turn[r].pc = "deliver" /\ c # NoConversation => r \in Recent(c)'
        /\ r \in due => turn[r].pc = "append" \/ usage[r] \in {"task", "logged"}
    BY <2>1, <2>2, <2>3 DEF StateOK
  <2>5. turn'[r] = turn[r] /\ usage'[r] = usage[r] /\ due' = due /\ turn'[r].conversation = c
    BY <1>1, <2>2
  <2> QED
    BY <2>4, <2>5 DEF TurnOK, HasConversation
<1>6. TypeOK'
  BY <1>1, <1>3 DEF Inv, TypeOK
<1> QED
  BY <1>3, <1>4, <1>5, <1>6 DEF Inv, MemoryOK, AnsweredOK

LEMMA StutterOK == ASSUME Inv, UNCHANGED vars PROVE Inv'
<1>1. UNCHANGED <<memoryVars, turn, usage, answered, due>>
  BY DEF vars
<1>2. MemoryOK' /\ \A k \in Conversations : Recent(k)' = Recent(k)
  BY <1>1, MemoryKept
<1>3. TypeOK' /\ AnsweredOK'
  BY <1>1, <1>2 DEF Inv, TypeOK, AnsweredOK, MemoryOK
<1>4. ASSUME NEW r \in Turns PROVE TurnOK(r)'
  <2>1. /\ memory' = memory /\ log' = log /\ expired' = expired
        /\ turn' = turn /\ usage' = usage /\ due' = due
    BY <1>1 DEF memoryVars
  <2>2. TurnOK(r)
    BY DEF Inv
  <2> QED
    BY <2>1, <2>2 DEF TurnOK, HasConversation, Recent
<1> QED
  BY <1>2, <1>3, <1>4 DEF Inv

LEMMA InitOK == ASSUME Init PROVE Inv
<1>1. /\ memory = [k \in Conversations |-> <<>>] /\ log = [k \in Conversations |-> <<>>]
      /\ expired = [k \in Conversations |-> 0] /\ answered = [k \in Conversations |-> {}]
      /\ usage = [r \in Turns |-> "none"] /\ due = {}
      /\ turn = [r \in Turns |-> [pc |-> "new", conversation |-> NoConversation,
                                  history |-> <<>>, seen |-> {}]]
  BY DEF Init, MemoryInit
<1>2. <<>> \in Seq(Messages) /\ <<>> \in Seq(Turns) /\ {} \in SUBSET Turns
  OBVIOUS
<1>3. MemoryTypeOK /\ answered \in [Conversations -> SUBSET Turns] /\ AnsweredOK
  BY <1>1, <1>2 DEF MemoryTypeOK, AnsweredOK
<1>4. ASSUME NEW k \in Conversations PROVE Remembers(k)
  <2>1. Kept(0, 0, Window) = 0
    BY WindowAssumption DEF Kept
  <2>2. HoldsNewest(<<>>, <<>>, 0)
    BY DEF HoldsNewest
  <2>3. Len(<<>>) = 0 /\ memory[k] = <<>> /\ log[k] = <<>> /\ expired[k] = 0
    BY <1>1
  <2> QED
    BY <2>1, <2>2, <2>3 DEF Remembers, IsWindow
<1>5. ASSUME NEW r \in Turns PROVE turn[r] \in TurnState /\ TurnOK(r)
  BY <1>1, <1>2 DEF TurnState, TurnOK, HasConversation
<1>6. /\ turn \in [Turns -> TurnState] /\ usage \in [Turns -> {"none", "task", "logged", "lost"}]
      /\ due \subseteq Turns
  BY <1>1, <1>5
<1> QED
  BY <1>3, <1>4, <1>5, <1>6 DEF Inv, TypeOK, MemoryOK

LEMMA NextOK == ASSUME Inv, [Next]_vars PROVE Inv'
<1>1. ASSUME NEW r \in Turns, Begin(r) PROVE Inv'
  BY <1>1, BeginOK
<1>2. ASSUME NEW r \in Turns, Proceed(r) PROVE Inv'
  BY <1>2, ResolveOK, ClassifyOK, ReadHistoryOK, EndStreamOK, PersistOK, DeliverOK DEF Proceed
<1>3. ASSUME NEW r \in Turns, LogUsage(r) PROVE Inv'
  BY <1>3, LogUsageOK
<1>4. ASSUME NEW r \in Turns, PersistUnacknowledged(r) PROVE Inv'
  BY <1>4, PersistUnacknowledgedOK
<1>5. ASSUME NEW r \in Turns, Fail(r) PROVE Inv'
  BY <1>5, FailOK
<1>6. ASSUME NEW r \in Turns, Disconnect(r) PROVE Inv'
  BY <1>6, DisconnectOK
<1>7. ASSUME NEW k \in Conversations, ExpireMemory(k) PROVE Inv'
  BY <1>7, ExpireMemoryOK
<1>8. CASE Crash
  BY <1>8, CrashOK
<1>9. CASE UNCHANGED vars
  BY <1>9, StutterOK
<1> QED
  BY <1>1, <1>2, <1>3, <1>4, <1>5, <1>6, <1>7, <1>8, <1>9 DEF Next

(* Inv is an invariant, so every part of it is.                            *)
LEMMA Invariant == Spec => []Inv
<1>1. Init => Inv
  BY InitOK
<1>2. Inv /\ [Next]_vars => Inv'
  BY NextOK
<1> QED
  BY <1>1, <1>2, PTL DEF Spec

(* Redis and the coroutines keep the shape that chat.py, orchestrator.py    *)
(* and conversation.py give them, whatever fails between them.              *)
THEOREM TypeCorrect == Spec => []TypeOK
<1>1. Inv => TypeOK
  BY DEF Inv
<1> QED
  BY <1>1, Invariant, PTL

LEMMA Shifted ==
    ASSUME NEW l \in Nat, NEW e \in Nat, NEW d \in Nat, NEW n \in Nat, l - e - d = n,
           NEW i \in 1..n
    PROVE  i + d \in 1..(l - e) /\ e + (i + d) = l - n + i
OBVIOUS

LEMMA WindowOfRemembers ==
    ASSUME Inv, NEW k \in Conversations
    PROVE  LET kept == Newest(SubSeq(log[k], expired[k] + 1, Len(log[k])), Window)
           IN  /\ Len(memory[k]) = 2 * Len(kept)
               /\ \A i \in 1..Len(kept) :
                      /\ memory[k][2 * i - 1] = [turn |-> kept[i], role |-> "user"]
                      /\ memory[k][2 * i] = [turn |-> kept[i], role |-> "assistant"]
<1>1. log[k] \in Seq(Turns) /\ expired[k] \in Nat
  BY DEF Inv, TypeOK, MemoryTypeOK
<1>2. PICK s \in Seq(Turns) : s = log[k]
  BY <1>1
<1>3. PICK l \in Nat, e \in Nat, w \in Nat : l = Len(s) /\ e = expired[k] /\ w = Window /\ e <= l
  BY <1>1, <1>2, WindowAssumption DEF Inv, MemoryOK, Remembers, IsWindow
<1>4. PICK n \in Nat : n = (IF l - e > w THEN w ELSE l - e) /\ n <= l /\ n <= l - e
  <2> DEFINE x == IF l - e > w THEN w ELSE l - e
  <2>1. e <= l
    BY <1>3
  <2>2. x \in Nat /\ x <= l /\ x <= l - e
    BY <2>1
  <2> QED
    BY <2>2
<1>5. n = Kept(l, e, w)
  BY <1>4 DEF Kept
<1>6. /\ Len(memory[k]) = 2 * n
      /\ \A i \in 1..n :
             /\ memory[k][2 * i - 1] = [turn |-> s[l - n + i], role |-> "user"]
             /\ memory[k][2 * i] = [turn |-> s[l - n + i], role |-> "assistant"]
  BY <1>2, <1>3, <1>5 DEF Inv, MemoryOK, Remembers, IsWindow, HoldsNewest
<1>7. PICK c \in Seq(Turns) :
          /\ c = SubSeq(s, e + 1, l) /\ Len(c) = l - e
          /\ \A i \in 1..(l - e) : c[i] = s[e + i]
  <2> DEFINE c == SubSeq(s, e + 1, l)
  <2>1. \A i \in (e + 1)..l : s[i] \in Turns
    BY <1>3, ElementOfSeq
  <2>2. /\ c \in Seq(Turns) /\ Len(c) = IF e + 1 <= l THEN l - (e + 1) + 1 ELSE 0
        /\ \A i \in 1..(l - (e + 1) + 1) : c[i] = s[(e + 1) + i - 1]
    BY <2>1, SubSeqProperties
  <2> HIDE DEF c
  <2>3. e <= l
    BY <1>3
  <2>4. /\ (IF e + 1 <= l THEN l - (e + 1) + 1 ELSE 0) = l - e
        /\ l - (e + 1) + 1 = l - e
        /\ \A i \in 1..(l - e) : (e + 1) + i - 1 = e + i
    BY <2>3
  <2>5. Len(c) = l - e /\ \A i \in 1..(l - e) : c[i] = s[e + i]
    BY <2>2, <2>4
  <2> QED
    BY <2>2, <2>5 DEF c
<1>8. PICK d \in Nat : d = (IF l - e > w THEN l - e - w ELSE 0) /\ l - e - d = n
  <2>1. e <= l
    BY <1>3
  <2>2. n = IF l - e > w THEN w ELSE l - e
    BY <1>4
  <2>3. PICK u \in Nat : u = l - e
    BY <2>1
  <2>4. PICK d \in 0..u : d = Dropped(u, w)
    BY DroppedBound
  <2>5. d = IF u > w THEN u - w ELSE 0
    BY <2>4 DEF Dropped
  <2>6. u - d = n
    BY <2>2, <2>3, <2>5
  <2> QED
    BY <2>3, <2>5, <2>6
<1> DEFINE t == Newest(c, w)
<1>9. /\ t \in Seq(Turns) /\ Len(t) = n
      /\ \A i \in 1..n : t[i] = c[i + d]
  <2>0. e <= l
    BY <1>3
  <2>1. PICK u \in Nat : u = l - e /\ u - d = n /\ d = IF u > w THEN u - w ELSE 0
    BY <1>8, <2>0
  <2>2. Dropped(Len(c), w) = d
    BY <1>7, <2>1 DEF Dropped
  <2>3. t \in Seq(Turns) /\ Trimmed(t, c, Len(c), Dropped(Len(c), w))
    BY Trim
  <2> HIDE DEF t
  <2>4. Trimmed(t, c, u, d)
    BY <1>7, <2>1, <2>2, <2>3
  <2> QED
    BY <2>1, <2>3, <2>4 DEF Trimmed
<1> HIDE DEF t
<1>10. ASSUME NEW i \in 1..n PROVE t[i] = s[l - n + i]
  <2>1. i + d \in 1..(l - e) /\ e + (i + d) = l - n + i
    <3>1. e <= l /\ l - e - d = n
      BY <1>3, <1>8
    <3> QED
      BY <3>1, Shifted
  <2>2. t[i] = c[i + d]
    BY <1>9
  <2>3. c[i + d] = s[e + (i + d)]
    BY <1>7, <2>1
  <2> QED
    BY <2>1, <2>2, <2>3
<1>11. t = Newest(SubSeq(log[k], expired[k] + 1, Len(log[k])), Window)
  BY <1>2, <1>3, <1>7 DEF t
<1> QED
  BY <1>6, <1>9, <1>10, <1>11

(* A conversation's memory is the window of its newest turns, each whole,   *)
(* whatever turns append to it at the same time and whatever fails: the     *)
(* RPUSH, LTRIM and EXPIRE of conversation.py are one transaction.          *)
THEOREM MemoryWindow == Spec => []MemoryIsWindow
<1>1. Inv => MemoryIsWindow
  BY WindowOfRemembers DEF MemoryIsWindow
<1> QED
  BY <1>1, Invariant, PTL

(* A call whose stream has ended reaches the usage log, or its task is      *)
(* under way, whether or not the client stays for the answer, unless the    *)
(* append fails, the process dies or the database refuses the record:       *)
(* chat.py starts the task before it sends "done".                          *)
THEOREM CallsCounted == Spec => []FinishedCallIsCounted
<1>1. ASSUME Inv, NEW r \in due PROVE turn[r].pc = "append" \/ usage[r] \in {"task", "logged"}
  <2>1. TurnOK(r)
    BY <1>1 DEF Inv, TypeOK
  <2> QED
    BY <2>1 DEF TurnOK
<1>2. Inv => FinishedCallIsCounted
  BY <1>1 DEF FinishedCallIsCounted
<1> QED
  BY <1>2, Invariant, PTL

(* Nothing but ReadHistory takes a turn from "history" to "stream".        *)
LEMMA OnlyReadHistory ==
    ASSUME Inv, [Next]_vars, NEW r \in Turns, turn[r].pc = "history", turn'[r].pc = "stream"
    PROVE  ReadHistory(r)
<1>1. turn \in [Turns -> TurnState] /\ turn[r] \in TurnState
  BY DEF Inv, TypeOK
<1>2. turn'[r] # turn[r]
  OBVIOUS
<1>3. ASSUME NEW q \in Turns, NEW state, Become(q, state) PROVE q = r /\ state.pc = "stream"
  BY <1>1, <1>2, <1>3 DEF Become
<1>4. \A l \in Labels : /\ Over(turn[r], l).pc = l
                        /\ [turn[r] EXCEPT !.pc = l].pc = l
  BY <1>1, Moved
<1>5. {"append", "deliver", "failed", "gone", "answered", "classify", "history"}
          \subseteq Labels \ {"stream"}
  BY DEF Labels, InFlight, Preparing, Ended
<1>6. ASSUME NEW q \in Turns, Begin(q) PROVE FALSE
  BY <1>3, <1>6 DEF Begin
<1>7. ASSUME NEW q \in Turns, Resolve(q) PROVE FALSE
  BY <1>3, <1>7 DEF Resolve, Goto
<1>8. ASSUME NEW q \in Turns, Classify(q) PROVE FALSE
  BY <1>3, <1>8 DEF Classify, Goto
<1>9. ASSUME NEW q \in Turns, ReadHistory(q) PROVE ReadHistory(r)
  BY <1>3, <1>9 DEF ReadHistory
<1>10. ASSUME NEW q \in Turns, EndStream(q) PROVE FALSE
  BY <1>3, <1>10 DEF EndStream, Done
<1>11. ASSUME NEW q \in Turns, Persist(q) PROVE FALSE
  BY <1>3, <1>11 DEF Persist, Done
<1>12. ASSUME NEW q \in Turns, PersistUnacknowledged(q) PROVE FALSE
  BY <1>3, <1>12 DEF PersistUnacknowledged
<1>13. ASSUME NEW q \in Turns, Deliver(q) PROVE FALSE
  BY <1>3, <1>13 DEF Deliver, Goto
<1>14. ASSUME NEW q \in Turns, Fail(q) PROVE FALSE
  BY <1>3, <1>4, <1>5, <1>14 DEF Fail
<1>15. ASSUME NEW q \in Turns, Disconnect(q) PROVE FALSE
  BY <1>3, <1>4, <1>5, <1>15 DEF Disconnect
<1>16. ASSUME NEW q \in Turns, LogUsage(q) PROVE FALSE
  BY <1>2, <1>16 DEF LogUsage
<1>17. ASSUME NEW k \in Conversations, ExpireMemory(k) PROVE FALSE
  BY <1>2, <1>17 DEF ExpireMemory
<1>18. CASE Crash
  <2>1. turn'[r] = Over(turn[r], "gone")
    BY <1>2, <1>18 DEF Crash
  <2> QED
    BY <1>4, <1>5, <2>1
<1>19. CASE UNCHANGED vars
  BY <1>2, <1>19 DEF vars
<1> QED
  BY <1>6, <1>7, <1>8, <1>9, <1>10, <1>11, <1>12, <1>13, <1>14, <1>15, <1>16, <1>17, <1>18,
     <1>19 DEF Next, Proceed

(* A window that is not full holds every turn since the key last expired.  *)
LEMMA WindowHasRecent ==
    ASSUME Inv, NEW k \in Conversations
    PROVE  Recent(k) \subseteq TurnsIn(memory[k]) \/ Len(memory[k]) = 2 * Window
<1>1. PICK l \in Nat, e \in Nat, w \in Nat :
          l = Len(log[k]) /\ e = expired[k] /\ w = Window /\ e <= l
  BY WindowAssumption DEF Inv, TypeOK, MemoryTypeOK, MemoryOK, Remembers, IsWindow
<1>2. PICK n \in Nat : n = (IF l - e > w THEN w ELSE l - e) /\ n = Kept(l, e, w)
  BY <1>1 DEF Kept
<1>3. /\ Len(memory[k]) = 2 * n
      /\ \A i \in 1..n :
             memory[k][2 * i] = [turn |-> log[k][l - n + i], role |-> "assistant"]
  BY <1>1, <1>2 DEF Inv, MemoryOK, Remembers, IsWindow, HoldsNewest
<1>4. CASE n = w
  BY <1>1, <1>3, <1>4
<1>5. CASE n # w
  <2>1. n = l - e
    BY <1>2, <1>5
  <2>2. ASSUME NEW i \in (e + 1)..l PROVE log[k][i] \in TurnsIn(memory[k])
    <3>1. PICK h \in 1..n : h = i - e /\ l - n + h = i /\ 2 * h \in 1..(2 * n)
      BY <2>1
    <3>2. memory[k][2 * h] = [turn |-> log[k][i], role |-> "assistant"]
      BY <1>3, <3>1
    <3> QED
      BY <1>3, <3>1, <3>2 DEF TurnsIn
  <2>3. Recent(k) = {log[k][i] : i \in (e + 1)..l}
    BY <1>1 DEF Recent
  <2> QED
    BY <2>2, <2>3
<1> QED
  BY <1>4, <1>5

(* A turn is given what its user already has: read_history of               *)
(* orchestrator.py reads the list after the "done" of every earlier turn    *)
(* the client has seen, and "done" follows the append.                      *)
THEOREM HistoryComplete == Spec => HistoryHasAnswered
<1> DEFINE A == \A r \in Turns :
        turn[r].pc = "history" /\ turn'[r].pc = "stream" /\ HasConversation(r) =>
          LET history == turn'[r].history
          IN  \/ turn[r].seen \cap answered[turn[r].conversation] \subseteq TurnsIn(history)
              \/ Len(history) = 2 * Window
<1>1. ASSUME Inv, [Next]_vars PROVE A
  <2>1. SUFFICES ASSUME NEW r \in Turns, turn[r].pc = "history", turn'[r].pc = "stream",
                        HasConversation(r)
                 PROVE  \/ turn[r].seen \cap answered[turn[r].conversation]
                              \subseteq TurnsIn(turn'[r].history)
                        \/ Len(turn'[r].history) = 2 * Window
    OBVIOUS
  <2>2. turn[r].conversation \in Conversations
    BY <2>1, TurnFacts, <1>1 DEF TurnState, HasConversation
  <2>3. turn'[r].history = memory[turn[r].conversation]
    <3>1. ReadHistory(r)
      BY <1>1, <2>1, OnlyReadHistory
    <3>2. turn \in [Turns -> TurnState] /\ turn[r] \in TurnState
      BY <1>1 DEF Inv, TypeOK
    <3>3. turn'[r] = [turn[r] EXCEPT !.pc = "stream", !.history = memory[turn[r].conversation]]
      BY <2>1, <3>1, <3>2 DEF ReadHistory, Become
    <3> QED
      BY <3>2, <3>3 DEF TurnState
  <2>4. answered[turn[r].conversation] \subseteq Recent(turn[r].conversation)
    BY <1>1, <2>2 DEF Inv, AnsweredOK
  <2> QED
    BY <1>1, <2>2, <2>3, <2>4, WindowHasRecent
<1>2. [Next]_vars /\ Inv => [A]_vars
  BY <1>1
<1> QED
  BY <1>2, Invariant, PTL DEF Spec, HistoryHasAnswered
=============================================================================
