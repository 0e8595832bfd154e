------------------------ MODULE PackTemplates_proofs ------------------------
(***************************************************************************)
(* That racing upserts leave every key of a pack with its versions in      *)
(* order and the newest one active, for any number of keys, upserts and    *)
(* loads.  What makes it true is the plan of an upsert: the versions below *)
(* the one it is to insert exist, and once it has cleared the key only     *)
(* versions from that one on can be active.  And that the cache is behind  *)
(* the tables only where a request has not cleared it or a load was        *)
(* overtaken: a load that was not carries what the tables hold.            *)
(***************************************************************************)
EXTENDS PackTemplates, TLAPS, NaturalsInduction, WellFoundedInduction

(* The versions of a key are 1..n.                                         *)
Contiguous == \A k \in Keys : \E n \in Nat : Versions(k) = 1..n

OneRowPerVersion ==
    \A q, r \in rows : q.key = r.key /\ q.version = r.version => q = r

Planned ==
    \A a \in Admins :
        /\ admin[a].pc = "new" => admin[a].next = 0
        /\ admin[a].pc \in {"deactivate", "insert"} =>
               admin[a].next # 0 /\ 1..(admin[a].next - 1) \subseteq Versions(admin[a].key)

Cleared ==
    \A a \in Admins : admin[a].pc = "insert" =>
        \A r \in rows : r.key = admin[a].key /\ r.is_active => r.version >= admin[a].next

Inserted(a) == admin[a].pc \in {"invalidate", "ok"} /\ admin[a].next # 0

InsertedOnce ==
    \A a \in Admins : Inserted(a) =>
        /\ admin[a].next \in Versions(admin[a].key)
        /\ \A b \in Admins : Inserted(b) /\ admin[b].key = admin[a].key
                             /\ admin[b].next = admin[a].next => a = b

AdminInv ==
    /\ rows \subseteq Rows
    /\ admin \in [Admins -> AdminStates]
    /\ Contiguous
    /\ OneRowPerVersion
    /\ Planned
    /\ Cleared
    /\ ActiveIsNewest
    /\ NoneActiveOnlyIfBroken
    /\ InsertedOnce

(* A request that wrote since the last DEL has not had its answer.         *)
UnsettledUnanswered ==
    \A a \in unsettled : admin[a].pc \in {"insert", "invalidate", "broken", "error"}

(* With nothing unsettled, the cache and the loads that no DEL overtook    *)
(* are up to date.                                                         *)
LoadsCurrent ==
    \A l \in Loaders \ overtaken :
        /\ loader[l].pc = "select_templates" => pack_active
        /\ loader[l].pc = "setex" => pack_active /\ loader[l].prompts = ActivePrompts

CacheInv ==
    /\ UnsettledUnanswered
    /\ unsettled = {} =>
           /\ cache # Empty /\ ~late => pack_active /\ cache = ActivePrompts
           /\ LoadsCurrent

Inv == TypeOK /\ AdminInv /\ CacheInv

-----------------------------------------------------------------------------
(* The newest of 1..n is n: what COALESCE(MAX(version), 0) returns.        *)
LEMMA NewestOfRange == ASSUME NEW n \in Nat PROVE Newest(1..n) = n
<1>1. CASE n = 0
  BY <1>1 DEF Newest
<1>2. CASE n # 0
  <2>1. n \in 1..n /\ \A w \in 1..n : w <= n
    BY <1>2
  <2>2. \A v \in 1..n : (\A w \in 1..n : w <= v) => v = n
    BY <2>1
  <2> QED
    BY <2>1, <2>2 DEF Newest
<1> QED
  BY <1>1, <1>2

(* A bounded set of naturals has a greatest element, or is empty.          *)
LEMMA NewestInNat ==
    ASSUME NEW n \in Nat, NEW S \in SUBSET (0..n)
    PROVE  Newest(S) \in Nat /\ (S # {} => Newest(S) \in S)
<1>1. CASE S = {}
  BY <1>1 DEF Newest
<1>2. CASE S # {}
  <2> DEFINE T == {n - s : s \in S}
  <2>0. S \subseteq 0..n
    OBVIOUS
  <2>1. T \subseteq Nat /\ T # {}
    <3>1. \A s \in S : n - s \in Nat
      BY <2>0
    <3>2. PICK s \in S : TRUE
      BY <1>2
    <3>3. n - s \in T
      BY <3>2
    <3> QED
      BY <3>1, <3>3
  <2>2. PICK x \in T : \A y \in T : ~ (<<y, x>> \in OpToRel(<, Nat))
    <3> HIDE DEF T
    <3> QED
      BY <2>1, NatLessThanWellFounded, WFMin
  <2>3. \A y \in T : ~ (y < x)
    BY <2>1, <2>2 DEF OpToRel
  <2>4. PICK s \in S : x = n - s
    BY <2>2
  <2>5. \A w \in S : w <= s
    <3> TAKE w \in S
    <3>1. n - w \in T
      OBVIOUS
    <3>2. ~ (n - w < n - s)
      BY <2>3, <2>4, <3>1
    <3> QED
      BY <2>0, <3>2
  <2>6. Newest(S) \in S
    BY <1>2, <2>5 DEF Newest
  <2>7. \A i \in 0..n : i \in Nat
    OBVIOUS
  <2> HIDE DEF T
  <2> QED
    BY <2>0, <2>6, <2>7, Zenon
<1> QED
  BY <1>1, <1>2

(* What a load selects is a version of each key, or 0.                     *)
LEMMA PromptsTyped ==
    ASSUME AdminInv
    PROVE  ActivePrompts \in Prompts
<1>1. ASSUME NEW k \in Keys
      PROVE  Newest(ActiveVersions(k)) \in Nat
  <2>1. PICK n \in Nat : Versions(k) = 1..n
    BY DEF AdminInv, Contiguous
  <2>2. ActiveVersions(k) \subseteq Versions(k)
    BY DEF ActiveVersions, Versions
  <2>3. ActiveVersions(k) \in SUBSET (0..n)
    BY <2>1, <2>2
  <2> QED
    BY <2>3, NewestInNat
<1> QED
  BY <1>1 DEF ActivePrompts, Prompts

-----------------------------------------------------------------------------
(* Every seeded pack satisfies the invariant.                              *)
LEMMA InitInv == Init => Inv
<1> SUFFICES ASSUME Init PROVE Inv
  OBVIOUS
<1>1. PICK seeded \in SUBSET Keys :
          rows = {[key |-> k, version |-> 1, is_active |-> TRUE] : k \in seeded}
  BY DEF Init
<1>2. TypeOK
  <2>1. rows \subseteq Rows
    <3>1. \A k \in seeded : [key |-> k, version |-> 1, is_active |-> TRUE] \in Rows
      BY DEF Rows
    <3> QED
      BY <1>1, <3>1
  <2>2. admin \in [Admins -> AdminStates]
    BY DEF Init, AdminStates
  <2>3. loader \in [Loaders -> LoaderStates]
    BY DEF Init, LoaderStates, NoPrompts, Prompts
  <2> QED
    BY <2>1, <2>2, <2>3 DEF TypeOK, Init
<1>3. \A r \in rows : r.key \in seeded /\ r.version = 1 /\ r.is_active = TRUE
  BY <1>1
<1>4. \A k \in seeded : [key |-> k, version |-> 1, is_active |-> TRUE] \in rows
  BY <1>1
<1>5. \A q, r \in rows : q.key = r.key => q = r
  <2> SUFFICES ASSUME NEW q \in rows, NEW r \in rows, q.key = r.key PROVE q = r
    OBVIOUS
  <2>1. PICK i \in seeded : q = [key |-> i, version |-> 1, is_active |-> TRUE]
    BY <1>1
  <2>2. PICK j \in seeded : r = [key |-> j, version |-> 1, is_active |-> TRUE]
    BY <1>1
  <2>3. i = j
    BY <2>1, <2>2
  <2> QED
    BY <2>1, <2>2, <2>3
<1>6. \A k \in Keys : Versions(k) = {} \/ (Versions(k) = {1} /\ ActiveVersions(k) # {})
  <2> TAKE k \in Keys
  <2>1. CASE k \in seeded
    BY <2>1, <1>3, <1>4 DEF Versions, ActiveVersions
  <2>2. CASE k \notin seeded
    BY <2>2, <1>3 DEF Versions
  <2> QED
    BY <2>1, <2>2
<1>7. Contiguous
  <2> SUFFICES ASSUME NEW k \in Keys PROVE \E n \in Nat : Versions(k) = 1..n
    BY DEF Contiguous
  <2>1. 1..0 = {} /\ 1..1 = {1}
    OBVIOUS
  <2> QED
    BY <1>6, <2>1
<1>8. \A a \in Admins : admin[a].pc = "new" /\ admin[a].next = 0
  BY DEF Init
<1>9. OneRowPerVersion /\ ActiveIsNewest
  BY <1>3, <1>5 DEF OneRowPerVersion, ActiveIsNewest
<1>10. NoneActiveOnlyIfBroken
  BY <1>6 DEF NoneActiveOnlyIfBroken
<1>11. Planned /\ Cleared /\ InsertedOnce
  BY <1>8 DEF Planned, Cleared, InsertedOnce, Inserted
<1>12. CacheInv
  BY DEF Init, CacheInv, UnsettledUnanswered, LoadsCurrent
<1> QED
  BY <1>2, <1>7, <1>9, <1>10, <1>11, <1>12 DEF Inv, AdminInv, TypeOK

(* A step of an upsert that leaves the table alone keeps the invariant if  *)
(* the upsert's new state is in order.                                     *)
LEMMA AdminMoves ==
    ASSUME AdminInv, NEW a \in Admins, NEW s \in AdminStates,
           rows' = rows, AdminBecomes(a, s),
           s.key = admin[a].key,
           s.pc = "new" => s.next = 0,
           s.pc \in {"deactivate", "insert"} =>
               s.next # 0 /\ 1..(s.next - 1) \subseteq Versions(s.key),
           s.pc # "insert",
           admin[a].pc = "insert" => s.pc = "broken",
           admin[a].pc = "broken" => s.pc = "broken",
           s.pc \in {"invalidate", "ok"} /\ s.next # 0 => Inserted(a) /\ s.next = admin[a].next
    PROVE  AdminInv'
<1>1. admin' \in [Admins -> AdminStates] /\ rows' \subseteq Rows
  BY DEF AdminInv, AdminBecomes
<1>2. \A b \in Admins : admin'[b] = IF b = a THEN s ELSE admin[b]
  BY DEF AdminInv, AdminBecomes
<1>3. \A k : Versions(k)' = Versions(k) /\ ActiveVersions(k)' = ActiveVersions(k)
  BY DEF Versions, ActiveVersions
<1>4. Contiguous' /\ OneRowPerVersion' /\ ActiveIsNewest'
  BY <1>3 DEF AdminInv, Contiguous, OneRowPerVersion, ActiveIsNewest
<1>5. Planned'
  BY <1>2, <1>3 DEF AdminInv, Planned
<1>6. Cleared'
  BY <1>2 DEF AdminInv, Cleared
<1>7. NoneActiveOnlyIfBroken'
  BY <1>2, <1>3 DEF AdminInv, NoneActiveOnlyIfBroken
<1>8. \A b \in Admins : Inserted(b)' => Inserted(b) /\ admin'[b].key = admin[b].key
                                         /\ admin'[b].next = admin[b].next
  BY <1>2 DEF Inserted
<1>9. InsertedOnce'
  BY <1>3, <1>8 DEF AdminInv, InsertedOnce
<1> QED
  BY <1>1, <1>4, <1>5, <1>6, <1>7, <1>9 DEF AdminInv

(* The plan of a new upsert: the next version, all before it in place.     *)
LEMMA ReadMaxVersionInv ==
    ASSUME AdminInv, NEW a \in Admins, ReadMaxVersion(a)
    PROVE  AdminInv'
<1>1. admin[a] \in AdminStates
  BY DEF AdminInv
<1>2. admin[a].key \in Keys
  BY <1>1 DEF AdminStates
<1>3. PICK n \in Nat : Versions(admin[a].key) = 1..n
  BY <1>2 DEF AdminInv, Contiguous
<1>4. Newest(Versions(admin[a].key)) = n
  BY <1>3, NewestOfRange
<1> DEFINE s == [pc |-> "deactivate", key |-> admin[a].key, next |-> n + 1]
<1>5. s \in AdminStates
  BY <1>2, <1>3 DEF AdminStates
<1>6. s.pc = "deactivate" /\ s.key = admin[a].key /\ s.next = n + 1
  BY <1>1 DEF AdminStates
<1>7. 1..((n + 1) - 1) \subseteq Versions(admin[a].key)
  BY <1>3
<1>8. AdminBecomes(a, s) /\ rows' = rows /\ admin[a].pc = "new"
  BY <1>4 DEF ReadMaxVersion
<1> HIDE DEF s
<1> QED
  BY <1>5, <1>6, <1>7, <1>8, AdminMoves

(* Clearing the key leaves its versions, none of them active, and an       *)
(* upsert that is still to insert the next.                                *)
LEMMA DeactivateInv ==
    ASSUME AdminInv, NEW a \in Admins, Deactivate(a)
    PROVE  AdminInv'
<1> DEFINE clear(r) == [r EXCEPT !.is_active = r.is_active /\ r.key # admin[a].key]
<1>1. rows \subseteq Rows /\ admin \in [Admins -> AdminStates]
  BY DEF AdminInv
<1>2. rows' = {clear(r) : r \in rows}
  BY DEF Deactivate
<1>3. \A r \in rows : clear(r) \in Rows /\ clear(r).key = r.key /\ clear(r).version = r.version
  BY <1>1 DEF Rows
<1>4. \A r \in rows : clear(r).is_active <=> r.is_active /\ r.key # admin[a].key
  <2> TAKE r \in rows
  <2>1. r \in Rows
    BY <1>1
  <2> QED
    BY <2>1, Zenon DEF Rows
<1> HIDE DEF clear
<1>5. \A k : Versions(k)' = Versions(k)
  BY <1>2, <1>3 DEF Versions
<1>6. \A k : k # admin[a].key => ActiveVersions(k)' = ActiveVersions(k)
  BY <1>2, <1>3, <1>4 DEF ActiveVersions
<1>7. \A b \in Admins : admin'[b] = IF b = a THEN [admin[a] EXCEPT !.pc = "insert"] ELSE admin[b]
  BY <1>1 DEF Deactivate, AdminBecomes
<1>8. /\ admin'[a].pc = "insert" /\ admin'[a].key = admin[a].key
      /\ admin'[a].next = admin[a].next /\ admin[a].pc = "deactivate"
  BY <1>1, <1>7 DEF AdminStates, Deactivate
<1>9. admin' \in [Admins -> AdminStates]
  <2>1. [admin[a] EXCEPT !.pc = "insert"] \in AdminStates
    BY <1>1 DEF AdminStates
  <2> QED
    BY <1>1, <2>1 DEF Deactivate, AdminBecomes
<1>10. rows' \subseteq Rows
  BY <1>2, <1>3
<1>11. Contiguous'
  BY <1>5 DEF AdminInv, Contiguous
<1>12. OneRowPerVersion'
  <2> SUFFICES ASSUME NEW q \in rows', NEW r \in rows', q.key = r.key, q.version = r.version
               PROVE  q = r
    BY DEF OneRowPerVersion
  <2>1. PICK q0 \in rows : q = clear(q0)
    BY <1>2
  <2>2. PICK r0 \in rows : r = clear(r0)
    BY <1>2
  <2>3. q0 = r0
    BY <1>3, <2>1, <2>2 DEF AdminInv, OneRowPerVersion
  <2> QED
    BY <2>1, <2>2, <2>3
<1>13. Planned'
  BY <1>5, <1>7, <1>8 DEF AdminInv, Planned
<1>14. \A r \in rows' : \E q \in rows : r.key = q.key /\ r.version = q.version
                          /\ (r.is_active => q.is_active /\ q.key # admin[a].key)
  BY <1>2, <1>3, <1>4
<1>15. Cleared'
  <2> SUFFICES ASSUME NEW b \in Admins, admin'[b].pc = "insert",
                      NEW r \in rows', r.key = admin'[b].key, r.is_active
               PROVE  r.version >= admin'[b].next
    BY DEF Cleared
  <2>1. PICK q \in rows : r.key = q.key /\ r.version = q.version
                          /\ q.is_active /\ q.key # admin[a].key
    BY <1>14
  <2>2. b # a
    BY <1>8, <2>1
  <2> QED
    BY <1>7, <2>1, <2>2 DEF AdminInv, Cleared
<1>16. ActiveIsNewest'
  <2> SUFFICES ASSUME NEW q \in rows', NEW r \in rows', q.key = r.key, q.is_active
               PROVE  r.version <= q.version
    BY DEF ActiveIsNewest
  <2>1. PICK q0 \in rows : q.key = q0.key /\ q.version = q0.version /\ q0.is_active
    BY <1>14
  <2>2. PICK r0 \in rows : r.key = r0.key /\ r.version = r0.version
    BY <1>14
  <2> QED
    BY <2>1, <2>2 DEF AdminInv, ActiveIsNewest
<1>17. NoneActiveOnlyIfBroken'
  <2> SUFFICES ASSUME NEW k \in Keys, Versions(k)' # {}, ActiveVersions(k)' = {}
               PROVE  \E b \in Admins : admin'[b].key = k /\ admin'[b].pc \in {"insert", "broken"}
    BY DEF NoneActiveOnlyIfBroken
  <2>1. CASE k = admin[a].key
    BY <1>8, <2>1
  <2>2. CASE k # admin[a].key
    <3>1. PICK b \in Admins : admin[b].key = k /\ admin[b].pc \in {"insert", "broken"}
      BY <1>5, <1>6, <2>2 DEF AdminInv, NoneActiveOnlyIfBroken
    <3> QED
      BY <1>7, <2>2, <3>1
  <2> QED
    BY <2>1, <2>2
<1>18. InsertedOnce'
  <2>1. \A b \in Admins : Inserted(b)' => Inserted(b) /\ admin'[b].key = admin[b].key
                                           /\ admin'[b].next = admin[b].next
    BY <1>7, <1>8 DEF Inserted
  <2> QED
    BY <1>5, <2>1 DEF AdminInv, InsertedOnce
<1> QED
  BY <1>9, <1>10, <1>11, <1>12, <1>13, <1>15, <1>16, <1>17, <1>18 DEF AdminInv

(* An INSERT that the unique key lets through is of the version after the  *)
(* last, so every other upsert planned for that version or an earlier one. *)
LEMMA InsertVersionInv ==
    ASSUME AdminInv, NEW a \in Admins, InsertVersion(a),
           NEW k, k = admin[a].key, NEW n, n = admin[a].next
    PROVE  AdminInv'
<1> DEFINE row == [key |-> k, version |-> n, is_active |-> TRUE]
<1>1. rows \subseteq Rows /\ admin \in [Admins -> AdminStates]
  BY DEF AdminInv
<1>2. k \in Keys /\ n \in Nat /\ n # 0 /\ 1..(n - 1) \subseteq Versions(k) /\ n \notin Versions(k)
  BY <1>1 DEF AdminInv, Planned, InsertVersion, AdminStates
<1>3. Versions(k) = 1..(n - 1)
  <2>1. PICK m \in Nat : Versions(k) = 1..m
    BY <1>2 DEF AdminInv, Contiguous
  <2>2. m = n - 1
    <3>1. n \notin 1..m
      BY <1>2, <2>1
    <3>2. n - 1 = 0 \/ n - 1 \in 1..m
      BY <1>2, <2>1
    <3> QED
      BY <1>2, <3>1, <3>2
  <2> QED
    BY <2>1, <2>2
<1>4. \A r \in rows : r.key = k => r.version \in 1..(n - 1) /\ r.is_active = FALSE
  <2> SUFFICES ASSUME NEW r \in rows, r.key = k
               PROVE  r.version \in 1..(n - 1) /\ r.is_active = FALSE
    OBVIOUS
  <2>1. r.version \in 1..(n - 1)
    BY <1>3 DEF Versions
  <2>2. r.is_active => r.version >= n
    BY DEF AdminInv, Cleared, InsertVersion
  <2>3. r.is_active \in BOOLEAN
    BY <1>1 DEF Rows
  <2>4. ~ (r.version >= n)
    BY <1>2, <2>1
  <2> QED
    BY <2>1, <2>2, <2>3, <2>4, Zenon
<1>5. rows' = rows \cup {row}
  BY DEF InsertVersion
<1>6. \A b \in Admins : admin'[b] = IF b = a THEN [admin[a] EXCEPT !.pc = "invalidate"] ELSE admin[b]
  BY <1>1 DEF InsertVersion, AdminBecomes
<1>7. /\ admin'[a].pc = "invalidate" /\ admin'[a].key = k /\ admin'[a].next = n
      /\ admin[a].pc = "insert"
  BY <1>1, <1>6 DEF AdminStates, InsertVersion
<1>8. admin' \in [Admins -> AdminStates]
  <2>1. [admin[a] EXCEPT !.pc = "invalidate"] \in AdminStates
    BY <1>1 DEF AdminStates
  <2> QED
    BY <1>1, <2>1 DEF InsertVersion, AdminBecomes
<1>9. row \in Rows /\ row.key = k /\ row.version = n /\ row.is_active = TRUE
  BY <1>2 DEF Rows
<1> HIDE DEF row
<1>10. rows' \subseteq Rows
  BY <1>1, <1>5, <1>9
<1>11. Versions(k)' = 1..n /\ ActiveVersions(k)' = {n}
  <2>1. Versions(k)' = Versions(k) \cup {n}
    BY <1>5, <1>9 DEF Versions
  <2>2. 1..(n - 1) \cup {n} = 1..n
    BY <1>2
  <2>3. ActiveVersions(k)' = {n}
    BY <1>4, <1>5, <1>9 DEF ActiveVersions
  <2> QED
    BY <1>3, <2>1, <2>2, <2>3
<1>12. \A j : j # k => Versions(j)' = Versions(j) /\ ActiveVersions(j)' = ActiveVersions(j)
  BY <1>5, <1>9 DEF Versions, ActiveVersions
<1>22. \A j : Versions(j) \subseteq Versions(j)'
  BY <1>5 DEF Versions
<1>13. Contiguous'
  BY <1>2, <1>11, <1>12 DEF AdminInv, Contiguous
<1>14. \A r \in rows : ~ (r.key = k /\ r.version >= n)
  <2>1. \A v \in 1..(n - 1) : ~ (v >= n)
    BY <1>2
  <2> QED
    BY <1>4, <2>1
<1>15. \A r \in rows : r.key = k => r.version <= n /\ r.version # n
  BY <1>2, <1>4
<1>16. OneRowPerVersion'
  <2> SUFFICES ASSUME NEW q \in rows', NEW r \in rows', q.key = r.key, q.version = r.version
               PROVE  q = r
    BY DEF OneRowPerVersion
  <2>1. CASE q \in rows /\ r \in rows
    BY <2>1 DEF AdminInv, OneRowPerVersion
  <2>2. CASE q = row \/ r = row
    BY <1>5, <1>9, <1>15, <2>2
  <2> QED
    BY <1>5, <2>1, <2>2
<1>17. Planned'
  <2> SUFFICES ASSUME NEW b \in Admins, NEW s, NEW j, s = admin'[b], j = admin'[b].key
               PROVE  /\ s.pc = "new" => s.next = 0
                      /\ s.pc \in {"deactivate", "insert"} =>
                             s.next # 0 /\ 1..(s.next - 1) \subseteq Versions(j)'
    BY DEF Planned
  <2>1. CASE b = a
    BY <1>7, <2>1
  <2>2. CASE b # a
    <3>1. s = admin[b] /\ j = admin[b].key
      BY <1>6, <2>2
    <3>2. /\ s.pc = "new" => s.next = 0
          /\ s.pc \in {"deactivate", "insert"} =>
                 s.next # 0 /\ 1..(s.next - 1) \subseteq Versions(j)
      BY <3>1 DEF AdminInv, Planned
    <3> QED
      BY <1>22, <3>2
  <2> QED
    BY <2>1, <2>2
<1>18. Cleared'
  <2> SUFFICES ASSUME NEW b \in Admins, admin'[b].pc = "insert",
                      NEW r \in rows', r.key = admin'[b].key, r.is_active
               PROVE  r.version >= admin'[b].next
    BY DEF Cleared
  <2>1. b # a /\ admin'[b] = admin[b]
    BY <1>6, <1>7
  <2>2. CASE r \in rows
    BY <2>1, <2>2 DEF AdminInv, Cleared
  <2>3. CASE r = row
    <3>1. admin[b].key = k /\ admin[b].next \in Nat
      BY <1>1, <1>9, <2>1, <2>3 DEF AdminStates
    <3>2. 1..(admin[b].next - 1) \subseteq 1..(n - 1)
      BY <1>3, <2>1, <3>1 DEF AdminInv, Planned
    <3>3. ~ (n \in 1..(admin[b].next - 1))
      BY <1>2, <3>2
    <3> QED
      BY <1>2, <1>9, <2>1, <2>3, <3>1, <3>3
  <2> QED
    BY <1>5, <2>2, <2>3
<1>19. ActiveIsNewest'
  <2> SUFFICES ASSUME NEW q \in rows', NEW r \in rows', q.key = r.key, q.is_active
               PROVE  r.version <= q.version
    BY DEF ActiveIsNewest
  <2>1. CASE q.key = k
    <3>1. q = row
      BY <1>4, <1>5, <2>1
    <3>2. r.version = n \/ r.version <= n
      BY <1>5, <1>9, <1>15, <2>1
    <3> QED
      BY <1>2, <1>9, <3>1, <3>2
  <2>2. CASE q.key # k
    <3>1. q \in rows /\ r \in rows
      BY <1>5, <1>9, <2>2
    <3> QED
      BY <3>1 DEF AdminInv, ActiveIsNewest
  <2> QED
    BY <2>1, <2>2
<1>20. NoneActiveOnlyIfBroken'
  <2> SUFFICES ASSUME NEW j \in Keys, Versions(j)' # {}, ActiveVersions(j)' = {}
               PROVE  \E b \in Admins : admin'[b].key = j /\ admin'[b].pc \in {"insert", "broken"}
    BY DEF NoneActiveOnlyIfBroken
  <2>1. j # k
    BY <1>11
  <2>2. PICK b \in Admins : admin[b].key = j /\ admin[b].pc \in {"insert", "broken"}
    BY <1>12, <2>1 DEF AdminInv, NoneActiveOnlyIfBroken
  <2> QED
    BY <1>6, <2>1, <2>2
<1>21. InsertedOnce'
  <2>1. \A b \in Admins : Inserted(b)' => b = a \/ (Inserted(b) /\ admin'[b] = admin[b])
    BY <1>6 DEF Inserted
  <2>2. \A b \in Admins : Inserted(b) /\ admin[b].key = k => admin[b].next # n
    BY <1>2 DEF AdminInv, InsertedOnce
  <2>3. n \in 1..n
    BY <1>2
  <2> SUFFICES ASSUME NEW b \in Admins, NEW i, NEW j,
                      Inserted(b)', i = admin'[b].next, j = admin'[b].key
               PROVE  /\ i \in Versions(j)'
                      /\ \A c \in Admins :
                             Inserted(c)' /\ admin'[c].key = j /\ admin'[c].next = i => b = c
    BY DEF InsertedOnce
  <2>4. CASE b = a
    <3>1. i = n /\ j = k
      BY <1>7, <2>4
    <3> QED
      BY <1>11, <2>1, <2>2, <2>3, <2>4, <3>1
  <2>5. CASE b # a
    <3>1. Inserted(b) /\ i = admin[b].next /\ j = admin[b].key
      BY <2>1, <2>5
    <3>2. i \in Versions(j)
      BY <3>1 DEF AdminInv, InsertedOnce
    <3>3. ASSUME NEW c \in Admins, Inserted(c)', admin'[c].key = j, admin'[c].next = i
          PROVE  b = c
      <4>1. CASE c = a
        BY <1>7, <2>2, <3>1, <3>3, <4>1
      <4>2. CASE c # a
        BY <2>1, <3>1, <3>3, <4>2 DEF AdminInv, InsertedOnce
      <4> QED
        BY <4>1, <4>2
    <3> QED
      BY <1>22, <3>2, <3>3
  <2> QED
    BY <2>4, <2>5
<1> QED
  BY <1>8, <1>10, <1>13, <1>16, <1>17, <1>18, <1>19, <1>20, <1>21 DEF AdminInv

(* Every step of the upserts and loads keeps AdminInv.                     *)
LEMMA NextAdminInv == AdminInv /\ [Next]_vars => AdminInv'
<1> SUFFICES ASSUME AdminInv, [Next]_vars PROVE AdminInv'
  OBVIOUS
<1>1. ASSUME rows' = rows, admin' = admin PROVE AdminInv'
  <2>1. \A k : Versions(k)' = Versions(k) /\ ActiveVersions(k)' = ActiveVersions(k)
    BY <1>1 DEF Versions, ActiveVersions
  <2>2. Contiguous' /\ OneRowPerVersion' /\ ActiveIsNewest' /\ NoneActiveOnlyIfBroken'
    BY <1>1, <2>1 DEF AdminInv, Contiguous, OneRowPerVersion, ActiveIsNewest, NoneActiveOnlyIfBroken
  <2>3. Planned' /\ Cleared' /\ InsertedOnce'
    BY <1>1, <2>1 DEF AdminInv, Planned, Cleared, InsertedOnce, Inserted
  <2> QED
    BY <1>1, <2>2, <2>3 DEF AdminInv
<1>2. ASSUME NEW a \in Admins,
             DuplicateVersion(a) \/ DisablePack(a) \/ InvalidateCache(a) \/ AdminFails(a)
      PROVE  AdminInv'
  <2>1. admin[a] \in AdminStates
    BY DEF AdminInv
  <2>2. PICK pc \in {"broken", "invalidate", "ok", "error"} :
            /\ AdminBecomes(a, [admin[a] EXCEPT !.pc = pc]) /\ rows' = rows
            /\ admin[a].pc = "insert" => pc = "broken"
            /\ admin[a].pc # "broken"
            /\ pc = "invalidate" => admin[a].pc = "new"
            /\ pc = "ok" => admin[a].pc = "invalidate"
    BY <1>2 DEF DuplicateVersion, DisablePack, InvalidateCache, AdminFails
  <2> DEFINE s == [admin[a] EXCEPT !.pc = pc]
  <2>3. s \in AdminStates /\ s.pc = pc /\ s.key = admin[a].key /\ s.next = admin[a].next
    BY <2>1 DEF AdminStates
  <2>4. admin[a].pc = "new" => admin[a].next = 0
    BY DEF AdminInv, Planned
  <2>5. AdminBecomes(a, s)
    BY <2>2
  <2> HIDE DEF s
  <2>6. s.pc \in {"invalidate", "ok"} /\ s.next # 0 => Inserted(a)
    BY <2>2, <2>3, <2>4 DEF Inserted
  <2> QED
    BY <2>2, <2>3, <2>5, <2>6, AdminMoves
<1>3. ASSUME NEW l \in Loaders,
             GetCached(l) \/ SelectPack(l) \/ SelectTemplates(l) \/ SetCache(l) \/ LoadFails(l)
      PROVE  AdminInv'
  BY <1>1, <1>3 DEF GetCached, SelectPack, SelectTemplates, SetCache, LoadFails
<1>4. ASSUME ExpireCache PROVE AdminInv'
  BY <1>1, <1>4 DEF ExpireCache
<1>5. CASE UNCHANGED vars
  BY <1>1, <1>5 DEF vars
<1> QED
  BY <1>2, <1>3, <1>4, <1>5, ReadMaxVersionInv, DeactivateInv, InsertVersionInv
     DEF Next, AdminStep, LoaderStep

(* Every step keeps the types; the rows and the upserts are typed by       *)
(* AdminInv.                                                               *)
LEMMA NextTyped == Inv /\ [Next]_vars => TypeOK'
<1> SUFFICES ASSUME Inv, [Next]_vars PROVE TypeOK'
  OBVIOUS
<1>1. rows' \subseteq Rows /\ admin' \in [Admins -> AdminStates]
  BY NextAdminInv DEF Inv, AdminInv
<1>2. NoPrompts \in Prompts
  BY DEF NoPrompts, Prompts
<1>3. ActivePrompts \in Prompts
  BY PromptsTyped DEF Inv
<1>4. ASSUME NEW l \in Loaders,
             GetCached(l) \/ SelectPack(l) \/ SelectTemplates(l) \/ SetCache(l) \/ LoadFails(l)
      PROVE  /\ pack_active' \in BOOLEAN /\ cache' \in Prompts \cup {Empty}
             /\ loader' \in [Loaders -> LoaderStates]
  <2>1. loader[l] \in LoaderStates /\ loader[l].prompts \in Prompts
    BY DEF Inv, TypeOK, LoaderStates
  <2>2. pack_active' \in BOOLEAN /\ cache' \in Prompts \cup {Empty}
    BY <1>4, <2>1 DEF Inv, TypeOK, GetCached, SelectPack, SelectTemplates, SetCache, LoadFails
  <2>3. PICK s \in LoaderStates : LoaderBecomes(l, s)
    <3>1. CASE GetCached(l)
      <4>1. cache # Empty => [pc |-> "loaded", prompts |-> cache] \in LoaderStates
        BY <1>3 DEF Inv, TypeOK, LoaderStates
      <4>2. [pc |-> "select_pack", prompts |-> NoPrompts] \in LoaderStates
        BY <1>2, <1>3 DEF LoaderStates
      <4>3. LoaderBecomes(l, IF cache # Empty
                THEN [pc |-> "loaded", prompts |-> cache]
                ELSE [pc |-> "select_pack", prompts |-> NoPrompts])
        BY <3>1 DEF GetCached
      <4> QED
        BY <4>1, <4>2, <4>3
    <3>2. CASE SelectTemplates(l)
      <4>1. [pc |-> "setex", prompts |-> ActivePrompts] \in LoaderStates
        BY <1>3, <2>1 DEF LoaderStates
      <4> QED
        BY <3>2, <4>1 DEF SelectTemplates
    <3>3. CASE SelectPack(l) \/ SetCache(l) \/ LoadFails(l)
      <4>1. \A pc \in {"select_templates", "fallback", "loaded", "failed"} :
                [loader[l] EXCEPT !.pc = pc] \in LoaderStates
        BY <2>1 DEF LoaderStates
      <4> QED
        BY <3>3, <4>1 DEF SelectPack, SetCache, LoadFails
    <3> QED
      BY <1>4, <3>1, <3>2, <3>3
  <2> QED
    BY <2>2, <2>3 DEF Inv, TypeOK, LoaderBecomes
<1>5. ASSUME NEW a \in Admins,
             ReadMaxVersion(a) \/ DisablePack(a) \/ AdminStep(a) \/ AdminFails(a)
      PROVE  /\ pack_active' \in BOOLEAN /\ cache' \in Prompts \cup {Empty}
             /\ loader' \in [Loaders -> LoaderStates]
  BY <1>5 DEF Inv, TypeOK, ReadMaxVersion, DisablePack, AdminStep, AdminFails, Deactivate,
              InsertVersion, DuplicateVersion, InvalidateCache
<1>6. unsettled' \subseteq Admins /\ overtaken' \subseteq Loaders /\ late' \in BOOLEAN
  <2>1. unsettled \subseteq Admins /\ overtaken \subseteq Loaders /\ late \in BOOLEAN
    BY DEF Inv, TypeOK
  <2>2. ASSUME NEW a \in Admins,
               ReadMaxVersion(a) \/ DisablePack(a) \/ AdminStep(a) \/ AdminFails(a)
        PROVE  unsettled' \subseteq Admins /\ overtaken' \subseteq Loaders /\ late' \in BOOLEAN
    BY <2>1, <2>2 DEF ReadMaxVersion, DisablePack, AdminStep, AdminFails, Deactivate,
       InsertVersion, DuplicateVersion, InvalidateCache, Writes, historyVars
  <2>3. ASSUME NEW l \in Loaders, GetCached(l) \/ LoaderStep(l) \/ LoadFails(l)
        PROVE  unsettled' \subseteq Admins /\ overtaken' \subseteq Loaders /\ late' \in BOOLEAN
    <3>1. (l \in overtaken) \in BOOLEAN
      OBVIOUS
    <3>2. unsettled' = unsettled /\ overtaken' = overtaken
      BY <2>3 DEF GetCached, LoaderStep, SelectPack, SelectTemplates, SetCache, LoadFails,
         historyVars
    <3>3. late' = late \/ late' = (l \in overtaken)
      BY <2>3 DEF GetCached, LoaderStep, SelectPack, SelectTemplates, SetCache, LoadFails,
         historyVars
    <3> QED
      BY <2>1, <3>1, <3>2, <3>3
  <2>4. CASE ExpireCache \/ UNCHANGED vars
    BY <2>1, <2>4 DEF ExpireCache, vars, historyVars
  <2> QED
    BY <2>2, <2>3, <2>4 DEF Next
<1>7. CASE ExpireCache \/ UNCHANGED vars
  BY <1>1, <1>6, <1>7 DEF Inv, TypeOK, ExpireCache, vars
<1> QED
  BY <1>1, <1>4, <1>5, <1>6, <1>7 DEF Next, LoaderStep, TypeOK

-----------------------------------------------------------------------------
(* A step of a request keeps the cache in order: one that writes leaves    *)
(* itself unsettled, and a DEL overtakes every load that has read.         *)
LEMMA AdminCacheInv ==
    ASSUME Inv, NEW a \in Admins,
           ReadMaxVersion(a) \/ DisablePack(a) \/ AdminStep(a) \/ AdminFails(a)
    PROVE  CacheInv'
<1>1. admin \in [Admins -> AdminStates] /\ unsettled \subseteq Admins
  BY DEF Inv, TypeOK
<1>2. admin[a] \in AdminStates
  BY <1>1
<1>3. UnsettledUnanswered
  BY DEF Inv, CacheInv
<1>4. CASE Deactivate(a) \/ InsertVersion(a) \/ DisablePack(a)
  <2>1. PICK pc \in {"insert", "invalidate"} :
            AdminBecomes(a, [admin[a] EXCEPT !.pc = pc]) /\ Writes(a)
    BY <1>4 DEF Deactivate, InsertVersion, DisablePack
  <2>2. admin'[a].pc = pc /\ \A b \in Admins \ {a} : admin'[b] = admin[b]
    BY <1>1, <1>2, <2>1 DEF AdminBecomes, AdminStates
  <2>3. unsettled' = unsettled \cup {a}
    BY <2>1 DEF Writes
  <2> QED
    BY <1>1, <1>3, <2>2, <2>3 DEF CacheInv, UnsettledUnanswered
<1>5. CASE ReadMaxVersion(a) \/ DuplicateVersion(a) \/ AdminFails(a)
  <2>1. /\ UNCHANGED <<rows, pack_active, cache, loader, unsettled, overtaken, late>>
        /\ \A b \in Admins \ {a} : admin'[b] = admin[b]
    BY <1>1, <1>5 DEF ReadMaxVersion, DuplicateVersion, AdminFails, AdminBecomes, historyVars
  <2>2. a \in unsettled => admin'[a].pc \in {"broken", "error"}
    <3>1. CASE ReadMaxVersion(a)
      BY <1>3, <3>1 DEF ReadMaxVersion, UnsettledUnanswered
    <3>2. CASE DuplicateVersion(a) \/ AdminFails(a)
      <4>1. PICK pc \in {"broken", "error"} : AdminBecomes(a, [admin[a] EXCEPT !.pc = pc])
        BY <3>2 DEF DuplicateVersion, AdminFails
      <4> QED
        BY <1>1, <1>2, <4>1 DEF AdminBecomes, AdminStates
    <3> QED
      BY <1>5, <3>1, <3>2
  <2>3. UnsettledUnanswered'
    BY <1>1, <1>3, <2>1, <2>2 DEF UnsettledUnanswered
  <2>4. ActivePrompts' = ActivePrompts
    BY <2>1 DEF ActivePrompts, ActiveVersions
  <2> QED
    BY <2>1, <2>3, <2>4 DEF Inv, CacheInv, LoadsCurrent
<1>6. CASE InvalidateCache(a)
  <2>1. /\ unsettled' = {} /\ cache' = Empty /\ loader' = loader
        /\ \A l \in Loaders \ overtaken' : loader[l].pc \notin {"select_templates", "setex"}
    BY <1>6 DEF InvalidateCache
  <2> QED
    BY <2>1 DEF CacheInv, UnsettledUnanswered, LoadsCurrent
<1> QED
  BY <1>4, <1>5, <1>6 DEF AdminStep

(* So does a step of a load: what it reads is what the tables hold, and    *)
(* what it puts into the cache is, unless it was overtaken.                *)
LEMMA LoaderCacheInv ==
    ASSUME Inv, NEW l \in Loaders, GetCached(l) \/ LoaderStep(l) \/ LoadFails(l)
    PROVE  CacheInv'
<1>1. loader \in [Loaders -> LoaderStates] /\ loader[l] \in LoaderStates
  BY DEF Inv, TypeOK
<1>2. /\ UNCHANGED <<rows, pack_active, admin, unsettled, overtaken>>
      /\ \A m \in Loaders \ {l} : loader'[m] = loader[m]
  BY <1>1 DEF GetCached, LoaderStep, SelectPack, SelectTemplates, SetCache, LoadFails,
     LoaderBecomes, historyVars
<1>3. ActivePrompts' = ActivePrompts
  BY <1>2 DEF ActivePrompts, ActiveVersions
<1>4. UnsettledUnanswered'
  BY <1>2 DEF Inv, CacheInv, UnsettledUnanswered
<1> SUFFICES ASSUME unsettled = {}
             PROVE  /\ cache' # Empty /\ ~late' => pack_active /\ cache' = ActivePrompts
                    /\ l \notin overtaken =>
                          /\ loader'[l].pc = "select_templates" => pack_active
                          /\ loader'[l].pc = "setex" =>
                                 pack_active /\ loader'[l].prompts = ActivePrompts
  BY <1>2, <1>3, <1>4 DEF Inv, CacheInv, LoadsCurrent
<1>5. /\ cache # Empty /\ ~late => pack_active /\ cache = ActivePrompts
      /\ l \notin overtaken =>
            /\ loader[l].pc = "select_templates" => pack_active
            /\ loader[l].pc = "setex" => pack_active /\ loader[l].prompts = ActivePrompts
  BY DEF Inv, CacheInv, LoadsCurrent
<1>6. CASE GetCached(l)
  <2>1. loader'[l].pc \in {"loaded", "select_pack"} /\ cache' = cache /\ late' = late
    BY <1>1, <1>6 DEF GetCached, LoaderBecomes, historyVars
  <2> QED
    BY <1>5, <2>1
<1>7. CASE SelectPack(l)
  <2>1. /\ loader'[l].pc = IF pack_active THEN "select_templates" ELSE "fallback"
        /\ cache' = cache /\ late' = late
    BY <1>1, <1>7 DEF SelectPack, LoaderBecomes, LoaderStates, historyVars
  <2> QED
    BY <1>5, <2>1
<1>8. CASE SelectTemplates(l)
  <2>1. /\ loader[l].pc = "select_templates"
        /\ loader'[l] = [pc |-> "setex", prompts |-> ActivePrompts]
        /\ cache' = cache /\ late' = late
    BY <1>1, <1>8 DEF SelectTemplates, LoaderBecomes, historyVars
  <2> QED
    BY <1>5, <2>1
<1>9. CASE SetCache(l)
  <2>1. /\ loader[l].pc = "setex" /\ cache' = loader[l].prompts
        /\ late' = (l \in overtaken) /\ loader'[l].pc = "loaded"
    BY <1>1, <1>9 DEF SetCache, LoaderBecomes, LoaderStates
  <2> QED
    BY <1>5, <2>1
<1>10. CASE LoadFails(l)
  <2>1. loader'[l].pc = "failed" /\ cache' = cache /\ late' = late
    BY <1>1, <1>10 DEF LoadFails, LoaderBecomes, LoaderStates, historyVars
  <2> QED
    BY <1>5, <2>1
<1> QED
  BY <1>6, <1>7, <1>8, <1>9, <1>10 DEF LoaderStep

LEMMA NextCacheInv == Inv /\ [Next]_vars => CacheInv'
<1> SUFFICES ASSUME Inv, [Next]_vars PROVE CacheInv'
  OBVIOUS
<1>1. CASE ExpireCache \/ UNCHANGED vars
  <2>1. /\ UNCHANGED <<rows, pack_active, admin, loader, unsettled, overtaken, late>>
        /\ cache' \in {cache, Empty}
    BY <1>1 DEF ExpireCache, vars, historyVars
  <2>2. ActivePrompts' = ActivePrompts
    BY <2>1 DEF ActivePrompts, ActiveVersions
  <2> QED
    BY <2>1, <2>2 DEF Inv, CacheInv, UnsettledUnanswered, LoadsCurrent
<1> QED
  BY <1>1, AdminCacheInv, LoaderCacheInv DEF Next

-----------------------------------------------------------------------------
(* The invariant holds throughout.                                         *)
THEOREM Invariance == Spec => []Inv
<1>1. Inv /\ [Next]_vars => Inv'
  BY NextAdminInv, NextTyped, NextCacheInv DEF Inv
<1> QED
  BY InitInv, <1>1, PTL DEF Spec

(* Every variable of the pack keeps its type, whatever upserts and loads   *)
(* of it race.                                                             *)
THEOREM TypeCorrect == Spec => []TypeOK
<1>1. Inv => TypeOK
  BY DEF Inv
<1> QED
  BY Invariance, <1>1, PTL

(* Racing upserts leave at most one active version of a key, the newest,   *)
(* and none only where one of them is still to insert or has failed.       *)
THEOREM NewestIsActive == Spec => [](ActiveIsNewest /\ NoneActiveOnlyIfBroken)
<1>1. Inv => ActiveIsNewest /\ NoneActiveOnlyIfBroken
  BY DEF Inv, AdminInv
<1> QED
  BY Invariance, <1>1, PTL

(* No version number is skipped or given out twice.                        *)
THEOREM VersionsInOrder == Spec => []VersionsContiguous
<1>1. Inv => VersionsContiguous
  <2> SUFFICES ASSUME Inv PROVE VersionsContiguous
    OBVIOUS
  <2>1. \A r \in rows : \A v \in 1..r.version : \E q \in rows : q.key = r.key /\ q.version = v
    <3> SUFFICES ASSUME NEW r \in rows, NEW v \in 1..r.version
                 PROVE  v \in Versions(r.key)
      BY DEF Versions
    <3>1. r.key \in Keys /\ r.version \in Nat /\ r.version \in Versions(r.key)
      BY DEF Inv, TypeOK, Rows, Versions
    <3>2. PICK n \in Nat : Versions(r.key) = 1..n
      BY <3>1 DEF Inv, AdminInv, Contiguous
    <3> QED
      BY <3>1, <3>2
  <2> QED
    BY <2>1 DEF Inv, AdminInv, OneRowPerVersion, VersionsContiguous
<1> QED
  BY Invariance, <1>1, PTL

(* An answered upsert has its version in the table, to itself.             *)
THEOREM AnsweredStays == Spec => []AnsweredIsStored
<1>1. Inv => AnsweredIsStored
  BY DEF Inv, AdminInv, InsertedOnce, Inserted, AnsweredIsStored
<1> QED
  BY Invariance, <1>1, PTL

(* The cache is behind the tables only where a load was overtaken by a DEL *)
(* or a request has written and not cleared it: an answered upsert or      *)
(* disable has nothing of what it replaced served in any other way.        *)
THEOREM CacheIsCurrent == Spec => []StaleOnlyIfOvertaken
<1>1. Inv => StaleOnlyIfOvertaken
  <2> SUFFICES ASSUME Inv, cache # Empty, ~(pack_active /\ cache = ActivePrompts), ~late
               PROVE  \E a \in unsettled : admin[a].pc # "ok"
    BY DEF StaleOnlyIfOvertaken
  <2>1. PICK a \in unsettled : TRUE
    BY DEF Inv, CacheInv
  <2> QED
    BY <2>1 DEF Inv, CacheInv, UnsettledUnanswered
<1> QED
  BY Invariance, <1>1, PTL
=============================================================================
