-------------------------- MODULE TransfersProofs --------------------------
(***************************************************************************)
(* Machine-checked proofs about the download queue, for any number of      *)
(* callers, slots and reorders, and about the life of a transfer, for any  *)
(* number of transfers, runs, controls and slots, any commands of the user *)
(* and any crashes.                                                        *)
(***************************************************************************)
EXTENDS Transfers, TLAPS, FiniteSetTheorems, SequenceTheorems, FunctionTheorems

----------------------------------------------------------------------------
(* The download queue. *)

(* SlotCount is a positive number whatever the setting is: Semaphore::new is
   given slots.max(1). *)
LEMMA SlotCountPositive == SlotCount \in Nat \ {0}
BY QueueAssumption DEF QueueAssumption, SlotCount

----------------------------------------------------------------------------
(* The list operations. *)

Distinct(q) == \A i, j \in 1 .. Len(q) : q[i] = q[j] => i = j

(* RemoveAt drops exactly one position. *)
LEMMA RemoveAtProperties ==
    ASSUME NEW S, NEW q \in Seq(S), NEW i \in 1 .. Len(q)
    PROVE  /\ RemoveAt(q, i) \in Seq(S)
           /\ Len(RemoveAt(q, i)) = Len(q) - 1
           /\ \A j \in 1 .. Len(q) - 1 :
                RemoveAt(q, i)[j] = IF j < i THEN q[j] ELSE q[j + 1]
<1> DEFINE a == SubSeq(q, 1, i - 1)
           b == SubSeq(q, i + 1, Len(q))
<1>0. Len(q) \in Nat /\ i \in Nat /\ i >= 1 /\ i <= Len(q)
  BY LenProperties
<1>1. /\ a \in Seq(S) /\ Len(a) = i - 1
      /\ \A k \in 1 .. i - 1 : a[k] = q[k]
  <2>1. \A k \in 1 .. i - 1 : q[k] \in S
    BY <1>0, ElementOfSeq
  <2>2. /\ a \in Seq(S)
        /\ Len(a) = IF 1 <= i - 1 THEN i - 1 - 1 + 1 ELSE 0
        /\ \A k \in 1 .. i - 1 - 1 + 1 : a[k] = q[1 + k - 1]
    BY <1>0, <2>1, SubSeqProperties
  <2> QED BY <1>0, <2>2
<1>2. /\ b \in Seq(S) /\ Len(b) = Len(q) - i
      /\ \A k \in 1 .. Len(q) - i : b[k] = q[i + k]
  <2>1. \A k \in i + 1 .. Len(q) : q[k] \in S
    BY <1>0, ElementOfSeq
  <2>2. /\ b \in Seq(S)
        /\ Len(b) = IF i + 1 <= Len(q) THEN Len(q) - (i + 1) + 1 ELSE 0
        /\ \A k \in 1 .. Len(q) - (i + 1) + 1 : b[k] = q[i + 1 + k - 1]
    BY <1>0, <2>1, SubSeqProperties
  <2> QED BY <1>0, <2>2
<1> HIDE DEF a, b
<1>3. /\ a \o b \in Seq(S)
      /\ Len(a \o b) = Len(q) - 1
      /\ \A j \in 1 .. Len(q) - 1 :
            (a \o b)[j] = IF j <= i - 1 THEN a[j] ELSE b[j - (i - 1)]
  <2>1. /\ a \o b \in Seq(S)
        /\ Len(a \o b) = Len(a) + Len(b)
        /\ \A j \in 1 .. Len(a) + Len(b) :
              (a \o b)[j] = IF j <= Len(a) THEN a[j] ELSE b[j - Len(a)]
    BY <1>1, <1>2, ConcatProperties, Zenon
  <2>2. Len(a) + Len(b) = Len(q) - 1
    BY <1>0, <1>1, <1>2
  <2> QED BY <1>1, <2>1, <2>2, Zenon
<1>4. \A j \in 1 .. Len(q) - 1 : (a \o b)[j] = IF j < i THEN q[j] ELSE q[j + 1]
  <2> SUFFICES ASSUME NEW j \in 1 .. Len(q) - 1
               PROVE  (a \o b)[j] = IF j < i THEN q[j] ELSE q[j + 1]
    OBVIOUS
  <2>1. CASE j < i  BY <1>0, <1>1, <1>3, <2>1
  <2>2. CASE ~(j < i)
    <3>1. j - (i - 1) \in 1 .. Len(q) - i /\ i + (j - (i - 1)) = j + 1
      BY <1>0, <2>2
    <3> QED BY <1>0, <1>2, <1>3, <2>2, <3>1
  <2> QED BY <2>1, <2>2
<1> QED BY <1>3, <1>4 DEF RemoveAt, a, b

(* retain removes the id and keeps every other entry, once. *)
LEMMA WithoutProperties ==
    ASSUME NEW S, NEW q \in Seq(S), NEW id
    PROVE  /\ Without(q, id) \in Seq(S)
           /\ Distinct(q) => /\ Distinct(Without(q, id))
                             /\ ToSet(Without(q, id)) = ToSet(q) \ {id}
<1> DEFINE i == Position(q, id)
<1>0. Len(q) \in Nat /\ DOMAIN q = 1 .. Len(q)
  BY LenProperties
<1>1. CASE ~Contains(q, id)
  BY <1>0, <1>1 DEF Without, Contains, ToSet
<1>2. CASE Contains(q, id)
  <2>1. i \in 1 .. Len(q) /\ q[i] = id
    <3>1. \E k \in 1 .. Len(q) : q[k] = id
      BY <1>0, <1>2 DEF Contains
    <3> QED BY <3>1 DEF Position
  <2>2. Without(q, id) = RemoveAt(q, i)
    BY <1>2 DEF Without
  <2> HIDE DEF i
  <2>3. /\ RemoveAt(q, i) \in Seq(S)
        /\ Len(RemoveAt(q, i)) = Len(q) - 1
        /\ \A j \in 1 .. Len(q) - 1 :
             RemoveAt(q, i)[j] = IF j < i THEN q[j] ELSE q[j + 1]
    BY <2>1, RemoveAtProperties
  <2>4. ASSUME Distinct(q)
        PROVE  /\ Distinct(RemoveAt(q, i))
               /\ ToSet(RemoveAt(q, i)) = ToSet(q) \ {id}
    <3> DEFINE r == RemoveAt(q, i)
    <3>1. DOMAIN r = 1 .. Len(q) - 1
      BY <2>3, LenProperties
    <3>2. \A j \in 1 .. Len(q) - 1 : r[j] = IF j < i THEN q[j] ELSE q[j + 1]
      BY <2>3
    <3>3. Distinct(r)
      BY <1>0, <2>1, <2>3, <2>4 DEF Distinct
    <3>4. ASSUME NEW j \in 1 .. Len(q) - 1
          PROVE  r[j] \in ToSet(q) \ {id}
      BY <1>0, <2>1, <3>2, <2>4 DEF Distinct, ToSet
    <3>5. ASSUME NEW k \in 1 .. Len(q), q[k] # id
          PROVE  \E j \in 1 .. Len(q) - 1 : r[j] = q[k]
      <4>1. CASE k < i
        <5>1. k \in 1 .. Len(q) - 1 /\ r[k] = q[k]
          BY <1>0, <2>1, <3>2, <4>1
        <5> QED BY <5>1
      <4>2. CASE k > i
        <5>1. k - 1 \in 1 .. Len(q) - 1 /\ ~(k - 1 < i) /\ (k - 1) + 1 = k
          BY <1>0, <2>1, <4>2
        <5>2. r[k - 1] = q[k]
          BY <3>2, <5>1
        <5> QED BY <5>1, <5>2
      <4> QED BY <1>0, <2>1, <3>5, <4>1, <4>2
    <3> HIDE DEF r
    <3>6. ToSet(r) = ToSet(q) \ {id}
      <4>1. ToSet(r) \subseteq ToSet(q) \ {id}
        BY <3>1, <3>4 DEF ToSet
      <4>2. ASSUME NEW x \in ToSet(q) \ {id} PROVE x \in ToSet(r)
        <5>1. PICK k \in 1 .. Len(q) : q[k] = x
          BY <1>0 DEF ToSet
        <5>2. PICK j \in 1 .. Len(q) - 1 : r[j] = q[k]
          BY <3>5, <5>1
        <5> QED BY <3>1, <5>1, <5>2 DEF ToSet
      <4> QED BY <4>1, <4>2
    <3> QED BY <3>3, <3>6 DEF r
  <2> QED BY <2>2, <2>3, <2>4
<1> QED BY <1>1, <1>2

(* Enqueuing an id that is not in the list keeps the list free of
   duplicates. *)
LEMMA AppendKeepsDistinct ==
    ASSUME NEW S, NEW q \in Seq(S), NEW id \in S
    PROVE  /\ Append(q, id) \in Seq(S)
           /\ ToSet(Append(q, id)) = ToSet(q) \cup {id}
           /\ (Distinct(q) /\ ~Contains(q, id)) => Distinct(Append(q, id))
<1> DEFINE r == Append(q, id)
<1>1. /\ r \in Seq(S) /\ Len(r) = Len(q) + 1 /\ Len(q) \in Nat
      /\ DOMAIN q = 1 .. Len(q) /\ DOMAIN r = 1 .. Len(q) + 1
      /\ \A k \in 1 .. Len(q) : r[k] = q[k]
      /\ r[Len(q) + 1] = id
  BY AppendProperties, LenProperties
<1> HIDE DEF r
<1>2. ToSet(r) = ToSet(q) \cup {id}
  BY <1>1 DEF ToSet
<1>3. (Distinct(q) /\ ~Contains(q, id)) => Distinct(r)
  BY <1>1 DEF Distinct, Contains
<1> QED BY <1>1, <1>2, <1>3 DEF r

(* A list whose entries are those of another one, each position taken from
   another position, has the same entries, each as often. *)
LEMMA PermutedProperties ==
    ASSUME NEW S, NEW q \in Seq(S), NEW r \in Seq(S), Len(r) = Len(q),
           NEW f \in [1 .. Len(q) -> 1 .. Len(q)],
           \A j, k \in 1 .. Len(q) : f[j] = f[k] => j = k,
           \A k \in 1 .. Len(q) : \E j \in 1 .. Len(q) : f[j] = k,
           \A k \in 1 .. Len(q) : r[k] = q[f[k]]
    PROVE  /\ ToSet(r) = ToSet(q)
           /\ Distinct(q) => Distinct(r)
<1>1. Len(q) \in Nat /\ DOMAIN q = 1 .. Len(q) /\ DOMAIN r = 1 .. Len(q)
  BY LenProperties
<1>2. ToSet(r) \subseteq ToSet(q)
  BY <1>1 DEF ToSet
<1>3. ASSUME NEW x \in ToSet(q) PROVE x \in ToSet(r)
  <2>1. PICK k \in 1 .. Len(q) : q[k] = x
    BY <1>1 DEF ToSet
  <2>2. PICK j \in 1 .. Len(q) : f[j] = k
    OBVIOUS
  <2>3. j \in DOMAIN r /\ r[j] = x
    BY <1>1, <2>1, <2>2
  <2> QED BY <2>3 DEF ToSet
<1>4. ASSUME Distinct(q), NEW j \in 1 .. Len(r), NEW k \in 1 .. Len(r), r[j] = r[k]
      PROVE  j = k
  <2>1. f[j] \in 1 .. Len(q) /\ f[k] \in 1 .. Len(q) /\ q[f[j]] = q[f[k]]
    BY <1>4
  <2>2. f[j] = f[k]
    <3>1. \A x, y \in 1 .. Len(q) : q[x] = q[y] => x = y
      BY <1>4 DEF Distinct
    <3>2. ASSUME NEW x \in 1 .. Len(q), NEW y \in 1 .. Len(q), q[x] = q[y]
          PROVE  x = y
      BY <3>1, <3>2
    <3> QED BY <2>1, <3>2
  <2> QED BY <2>2
<1>5. Distinct(q) => Distinct(r)
  BY <1>4 DEF Distinct
<1> QED BY <1>2, <1>3, <1>5

(* Each of the four moves is a permutation of the list. *)
LEMMA MovedProperties ==
    ASSUME NEW S, NEW q \in Seq(S), NEW i \in 1 .. Len(q), NEW mv \in QueueMove
    PROVE  /\ Moved(q, i, mv) \in Seq(S)
           /\ ToSet(Moved(q, i, mv)) = ToSet(q) /\ Len(Moved(q, i, mv)) = Len(q)
           /\ Distinct(q) => Distinct(Moved(q, i, mv))
<1>0. /\ Len(q) \in Nat /\ i \in Nat /\ i >= 1 /\ i <= Len(q)
      /\ DOMAIN q = 1 .. Len(q) /\ q \in [1 .. Len(q) -> S]
      /\ \A k \in 1 .. Len(q) : q[k] \in S
  BY LenProperties, ElementOfSeq
<1>1. ASSUME NEW j \in 1 .. Len(q), i # j
      PROVE  /\ Swap(q, i, j) \in Seq(S)
             /\ ToSet(Swap(q, i, j)) = ToSet(q) /\ Len(Swap(q, i, j)) = Len(q)
             /\ Distinct(q) => Distinct(Swap(q, i, j))
  <2> DEFINE r == Swap(q, i, j)
             f == [k \in 1 .. Len(q) |-> IF k = i THEN j ELSE IF k = j THEN i ELSE k]
  <2>1. r \in Seq(S) /\ Len(r) = Len(q)
    <3>1. /\ [q EXCEPT ![i] = q[j]] \in Seq(S)
          /\ Len([q EXCEPT ![i] = q[j]]) = Len(q)
      BY <1>0, ExceptSeq
    <3>2. /\ [[q EXCEPT ![i] = q[j]] EXCEPT ![j] = q[i]] \in Seq(S)
          /\ Len([[q EXCEPT ![i] = q[j]] EXCEPT ![j] = q[i]]) = Len(q)
      BY <1>0, <3>1, ExceptSeq
    <3>3. r = [[q EXCEPT ![i] = q[j]] EXCEPT ![j] = q[i]]
      BY <1>0, <1>1 DEF Swap
    <3> QED BY <3>2, <3>3
  <2>2. \A k \in 1 .. Len(q) : r[k] = q[f[k]]
    BY <1>0, <1>1 DEF Swap
  <2>3. /\ f \in [1 .. Len(q) -> 1 .. Len(q)]
        /\ \A k, l \in 1 .. Len(q) : f[k] = f[l] => k = l
    BY <1>0, <1>1
  <2>4. \A k \in 1 .. Len(q) : f[f[k]] = k
    BY <1>0, <1>1
  <2> HIDE DEF r, f
  <2>5. \A k \in 1 .. Len(q) : \E l \in 1 .. Len(q) : f[l] = k
    BY <2>3, <2>4
  <2>6. ToSet(r) = ToSet(q) /\ (Distinct(q) => Distinct(r))
    BY <2>1, <2>2, <2>3, <2>5, PermutedProperties
  <2> QED BY <2>1, <2>6 DEF r
<1>2. /\ RemoveAt(q, i) \in Seq(S)
      /\ Len(RemoveAt(q, i)) = Len(q) - 1
      /\ \A j \in 1 .. Len(q) - 1 :
             RemoveAt(q, i)[j] = IF j < i THEN q[j] ELSE q[j + 1]
  BY RemoveAtProperties
<1>3. LET r == <<q[i]>> \o RemoveAt(q, i) IN
      r \in Seq(S) /\ ToSet(r) = ToSet(q) /\ Len(r) = Len(q) /\ (Distinct(q) => Distinct(r))
  <2> DEFINE a == <<q[i]>>
             b == RemoveAt(q, i)
             r == a \o b
             f == [k \in 1 .. Len(q) |->
                     IF k = 1 THEN i ELSE IF k <= i THEN k - 1 ELSE k]
             g == [k \in 1 .. Len(q) |->
                     IF k = i THEN 1 ELSE IF k < i THEN k + 1 ELSE k]
  <2>1. a \in Seq(S) /\ Len(a) = 1 /\ a[1] = q[i]
    BY <1>0
  <2>2. b \in Seq(S) /\ Len(b) = Len(q) - 1
        /\ \A j \in 1 .. Len(q) - 1 : b[j] = IF j < i THEN q[j] ELSE q[j + 1]
    BY <1>2
  <2> HIDE DEF a, b
  <2>3. /\ r \in Seq(S) /\ Len(r) = Len(a) + Len(b)
        /\ \A k \in 1 .. Len(a) + Len(b) :
               r[k] = IF k <= Len(a) THEN a[k] ELSE b[k - Len(a)]
    BY <2>1, <2>2, ConcatProperties, Zenon
  <2>4. Len(a) + Len(b) = Len(q)
    BY <1>0, <2>1, <2>2
  <2>5. \A k \in 1 .. Len(q) : r[k] = IF k <= 1 THEN a[k] ELSE b[k - 1]
    BY <2>1, <2>3, <2>4, Zenon
  <2> HIDE DEF r
  <2>6. \A k \in 1 .. Len(q) : r[k] = q[f[k]]
    <3> SUFFICES ASSUME NEW k \in 1 .. Len(q) PROVE r[k] = q[f[k]]
      OBVIOUS
    <3>1. CASE k = 1  BY <1>0, <2>1, <2>5, <3>1
    <3>2. CASE k # 1
      <4>1. k - 1 \in 1 .. Len(q) - 1 /\ (k - 1) + 1 = k /\ ~(k <= 1)
        BY <1>0, <3>2
      <4>2. r[k] = b[k - 1]
        BY <2>5, <4>1
      <4>3. b[k - 1] = IF k - 1 < i THEN q[k - 1] ELSE q[k]
        BY <2>2, <4>1
      <4> QED BY <1>0, <3>2, <4>2, <4>3
    <3> QED BY <3>1, <3>2
  <2>7. /\ f \in [1 .. Len(q) -> 1 .. Len(q)] /\ g \in [1 .. Len(q) -> 1 .. Len(q)]
        /\ \A k, l \in 1 .. Len(q) : f[k] = f[l] => k = l
    BY <1>0
  <2>8. \A k \in 1 .. Len(q) : f[g[k]] = k
    BY <1>0
  <2> HIDE DEF f, g
  <2>9. \A k \in 1 .. Len(q) : \E l \in 1 .. Len(q) : f[l] = k
    BY <2>7, <2>8
  <2>10. ToSet(r) = ToSet(q) /\ (Distinct(q) => Distinct(r))
    BY <2>3, <2>4, <2>6, <2>7, <2>9, PermutedProperties
  <2> QED BY <2>3, <2>4, <2>10 DEF r, a, b
<1>4. LET r == Append(RemoveAt(q, i), q[i]) IN
      r \in Seq(S) /\ ToSet(r) = ToSet(q) /\ Len(r) = Len(q) /\ (Distinct(q) => Distinct(r))
  <2> DEFINE b == RemoveAt(q, i)
             r == Append(b, q[i])
             f == [k \in 1 .. Len(q) |->
                     IF k = Len(q) THEN i ELSE IF k < i THEN k ELSE k + 1]
             g == [k \in 1 .. Len(q) |->
                     IF k = i THEN Len(q) ELSE IF k < i THEN k ELSE k - 1]
  <2>2. b \in Seq(S) /\ Len(b) = Len(q) - 1
        /\ \A j \in 1 .. Len(q) - 1 : b[j] = IF j < i THEN q[j] ELSE q[j + 1]
    BY <1>2
  <2> HIDE DEF b
  <2>3. /\ r \in Seq(S) /\ Len(r) = Len(q)
        /\ \A k \in 1 .. Len(q) - 1 : r[k] = b[k]
        /\ r[Len(q)] = q[i]
    <3>1. /\ r \in Seq(S) /\ Len(r) = Len(b) + 1
          /\ \A k \in 1 .. Len(b) : r[k] = b[k]
          /\ r[Len(b) + 1] = q[i]
      <4>1. q[i] \in S
        BY <1>0
      <4>2. /\ Append(b, q[i]) \in Seq(S)
            /\ Len(Append(b, q[i])) = Len(b) + 1
            /\ \A k \in 1 .. Len(b) : Append(b, q[i])[k] = b[k]
            /\ Append(b, q[i])[Len(b) + 1] = q[i]
        BY <2>2, <4>1, AppendProperties
      <4> QED BY <4>2
    <3> QED BY <1>0, <2>2, <3>1
  <2> HIDE DEF r
  <2>6. \A k \in 1 .. Len(q) : r[k] = q[f[k]]
    <3> SUFFICES ASSUME NEW k \in 1 .. Len(q) PROVE r[k] = q[f[k]]
      OBVIOUS
    <3>1. CASE k = Len(q)  BY <2>3, <3>1
    <3>2. CASE k # Len(q)
      <4>1. k \in 1 .. Len(q) - 1
        <5>1. PICK n \in Nat : n = Len(q)
          BY <1>0
        <5>2. k \in 1 .. n /\ k # n
          BY <3>2, <5>1
        <5>3. k \in 1 .. n - 1
          BY <5>2
        <5> QED BY <5>1, <5>3
      <4>2. r[k] = IF k < i THEN q[k] ELSE q[k + 1]
        BY <2>2, <2>3, <4>1
      <4> QED BY <3>2, <4>2
    <3> QED BY <3>1, <3>2
  <2>7. /\ f \in [1 .. Len(q) -> 1 .. Len(q)] /\ g \in [1 .. Len(q) -> 1 .. Len(q)]
        /\ \A k, l \in 1 .. Len(q) : f[k] = f[l] => k = l
        /\ \A k \in 1 .. Len(q) : f[g[k]] = k
    <3>1. PICK n \in Nat : n = Len(q) /\ i \in 1 .. n
      BY <1>0
    <3> QED BY <3>1
  <2> HIDE DEF f, g
  <2>9. \A k \in 1 .. Len(q) : \E l \in 1 .. Len(q) : f[l] = k
    BY <2>7
  <2>10. ToSet(r) = ToSet(q) /\ (Distinct(q) => Distinct(r))
    BY <2>3, <2>6, <2>7, <2>9, PermutedProperties
  <2> QED BY <2>3, <2>10 DEF r, b
<1>5. CASE mv = "Up" /\ i > 1
  <2>1. i - 1 \in 1 .. Len(q) /\ i # i - 1
    BY <1>0, <1>5
  <2>2. Moved(q, i, mv) = Swap(q, i, i - 1)
    BY <1>5 DEF Moved
  <2> QED BY <1>1, <2>1, <2>2
<1>6. CASE mv = "Down" /\ i < Len(q)
  <2>1. i + 1 \in 1 .. Len(q) /\ i # i + 1
    BY <1>0, <1>6
  <2>2. Moved(q, i, mv) = Swap(q, i, i + 1)
    BY <1>6 DEF Moved
  <2> QED BY <1>1, <2>1, <2>2
<1>7. CASE mv = "Top" /\ i > 1
  BY <1>3, <1>7 DEF Moved
<1>8. CASE mv = "Bottom" /\ i < Len(q)
  BY <1>4, <1>8 DEF Moved
<1>9. CASE /\ ~(mv = "Up" /\ i > 1) /\ ~(mv = "Down" /\ i < Len(q))
           /\ ~(mv = "Top" /\ i > 1) /\ ~(mv = "Bottom" /\ i < Len(q))
  BY <1>9 DEF Moved
<1> QED BY <1>5, <1>6, <1>7, <1>8, <1>9

----------------------------------------------------------------------------
(* Permits and wake-ups. *)

Owners == {t \in Task : qpc[t] \in Owning}

(* A step that leaves the owners of a permit alone leaves their number alone;
   one that adds or removes an owner changes it by one. *)
LEMMA OwnersCount ==
    /\ IsFiniteSet(Owners) /\ Cardinality(Owners) \in Nat
    /\ \A t \in Task : t \notin Owners =>
          Cardinality(Owners \cup {t}) = Cardinality(Owners) + 1
    /\ \A t \in Task : t \in Owners =>
          Cardinality(Owners \ {t}) = Cardinality(Owners) - 1
<1>1. IsFiniteSet(Owners)
  BY QueueAssumption, FS_Subset DEF QueueAssumption, Owners
<1>2. Cardinality(Owners) \in Nat
  BY <1>1, FS_CardinalityType
<1> QED BY <1>1, <1>2, FS_AddElement, FS_RemoveElement

(* Whether a task owns a permit is decided by its program point alone. *)
LEMMA OwnersStep ==
    ASSUME QTypeOK, NEW t \in Task, NEW from \in QueuePc, NEW to \in QueuePc,
           Goto(t, from, to)
    PROVE  /\ qpc' \in [Task -> QueuePc]
           /\ (from \in Owning <=> to \in Owning) => Owners' = Owners
           /\ (from \notin Owning /\ to \in Owning) =>
                 t \notin Owners /\ Owners' = Owners \cup {t}
           /\ (from \in Owning /\ to \notin Owning) =>
                 t \in Owners /\ Owners' = Owners \ {t}
BY DEF QTypeOK, Goto, Owners

PermitInv == QTypeOK /\ SlotsConserved

(* Every step keeps the types and the number of permits. *)
LEMMA PermitStep == PermitInv /\ [QNext]_qvars => PermitInv'
<1> SUFFICES ASSUME PermitInv, [QNext]_qvars PROVE PermitInv'
  OBVIOUS
<1>0. /\ QTypeOK /\ SlotsConserved
      /\ permits + Cardinality(Owners) = SlotCount
      /\ SlotCount \in Nat /\ permits \in Nat
  BY SlotCountPositive DEF PermitInv, SlotsConserved, Owners, QTypeOK
<1> DEFINE Goal == /\ permits' \in Nat
                   /\ permits' + Cardinality(Owners') = SlotCount
                   /\ waiting' \in Seq(Id)
                   /\ woken' \in [Task -> BOOLEAN]
                   /\ qpc' \in [Task -> QueuePc]
                   /\ reorderNotify' \in BOOLEAN
                   /\ reorders' \in 0 .. MaxReorders
<1>1. SUFFICES Goal
  <2>1. Cardinality(Owners)' \in Nat
    <3>1. IsFiniteSet({t \in Task : qpc'[t] \in Owning})
      BY QueueAssumption, FS_Subset DEF QueueAssumption
    <3> QED BY <3>1, FS_CardinalityType DEF Owners
  <2>2. permits' \in 0 .. SlotCount
    BY <1>0, <1>1, <2>1
  <2> QED BY <1>1, <2>2 DEF PermitInv, QTypeOK, SlotsConserved, Owners
<1>2. ASSUME NEW t \in Task, Enqueue(t) PROVE Goal
  <2>1. idOf[t] \in Id
    BY QueueAssumption DEF QueueAssumption
  <2>2. waiting' \in Seq(Id)
    BY <1>0, <1>2, <2>1, AppendKeepsDistinct DEF Enqueue, QTypeOK
  <2>3. qpc' \in [Task -> QueuePc] /\ Owners' = Owners
    BY <1>0, <1>2, OwnersStep DEF Enqueue, QueuePc, Owning
  <2> QED BY <1>0, <1>2, <2>2, <2>3 DEF Enqueue, QTypeOK
<1>3. ASSUME NEW t \in Task,
             NotifyEnqueued(t) \/ Announce(t) \/ NotifyReleased(t) \/ NotifyDropped(t)
      PROVE  Goal
  <2>1. qpc' \in [Task -> QueuePc] /\ Owners' = Owners
    BY <1>0, <1>3, OwnersStep
       DEF NotifyEnqueued, Announce, NotifyReleased, NotifyDropped, QueuePc, Owning
  <2> QED BY <1>0, <1>3, <2>1
       DEF NotifyEnqueued, Announce, NotifyReleased, NotifyDropped, NotifyWaiters, QTypeOK
<1>4. ASSUME NEW t \in Task, Register(t) \/ Wake(t) PROVE Goal
  <2>1. qpc' \in [Task -> QueuePc] /\ Owners' = Owners
    BY <1>0, <1>4, OwnersStep DEF Register, Wake, QueuePc, Owning
  <2> QED BY <1>0, <1>4, <2>1 DEF Register, Wake, QTypeOK
<1>5. ASSUME NEW t \in Task, CheckFront(t) PROVE Goal
  <2>1. qpc' \in [Task -> QueuePc] /\ Owners' = Owners
    <3>1. PICK to \in {"try", "parked"} : Goto(t, "check", to)
      BY <1>5 DEF CheckFront
    <3> QED BY <1>0, <3>1, OwnersStep DEF QueuePc, Owning
  <2> QED BY <1>0, <1>5, <2>1 DEF CheckFront, QTypeOK
<1>6. ASSUME NEW t \in Task, TryAcquire(t) PROVE Goal
  <2>1. CASE permits > 0
    <3>1. Goto(t, "try", "dequeue") /\ permits' = permits - 1
      BY <1>6, <2>1 DEF TryAcquire
    <3>2. /\ qpc' \in [Task -> QueuePc]
          /\ t \notin Owners /\ Owners' = Owners \cup {t}
      BY <1>0, <3>1, OwnersStep DEF QueuePc, Owning
    <3>3. Cardinality(Owners') = Cardinality(Owners) + 1 /\ Cardinality(Owners) \in Nat
      BY <3>2, OwnersCount
    <3>4. permits' \in Nat /\ permits' + Cardinality(Owners') = SlotCount
      BY <1>0, <2>1, <3>1, <3>3
    <3> QED BY <1>0, <1>6, <3>2, <3>4 DEF TryAcquire, QTypeOK
  <2>2. CASE ~(permits > 0)
    <3>1. Goto(t, "try", "parked") /\ permits' = permits
      BY <1>6, <2>2 DEF TryAcquire
    <3>2. qpc' \in [Task -> QueuePc] /\ Owners' = Owners
      BY <1>0, <3>1, OwnersStep DEF QueuePc, Owning
    <3> QED BY <1>0, <1>6, <3>1, <3>2 DEF TryAcquire, QTypeOK
  <2> QED BY <2>1, <2>2
<1>7. ASSUME NEW t \in Task, Dequeue(t) \/ DropAcquire(t) PROVE Goal
  <2>1. qpc' \in [Task -> QueuePc] /\ Owners' = Owners
    BY <1>0, <1>7, OwnersStep DEF Dequeue, DropAcquire, QueuePc, Owning
  <2>2. waiting' \in Seq(Id)
    BY <1>0, <1>7, WithoutProperties DEF Dequeue, DropAcquire, QTypeOK
  <2> QED BY <1>0, <1>7, <2>1, <2>2 DEF Dequeue, DropAcquire, QTypeOK
<1>8. ASSUME NEW t \in Task, ReleasePermit(t) PROVE Goal
  <2>1. /\ qpc' \in [Task -> QueuePc]
        /\ t \in Owners /\ Owners' = Owners \ {t}
    BY <1>0, <1>8, OwnersStep DEF ReleasePermit, QueuePc, Owning
  <2>2. Cardinality(Owners') = Cardinality(Owners) - 1 /\ Cardinality(Owners) \in Nat
    BY <2>1, OwnersCount
  <2>3. permits' \in Nat /\ permits' + Cardinality(Owners') = SlotCount
    BY <1>0, <1>8, <2>2 DEF ReleasePermit
  <2> QED BY <1>0, <1>8, <2>1, <2>3 DEF ReleasePermit, QTypeOK
<1>9. ASSUME NEW id \in Id, NEW mv \in QueueMove, Reorder(id, mv) PROVE Goal
  <2>1. Position(waiting, id) \in 1 .. Len(waiting)
    <3>1. \E k \in 1 .. Len(waiting) : waiting[k] = id
      BY <1>0, <1>9, LenProperties DEF Reorder, Contains, QTypeOK
    <3> QED BY <3>1 DEF Position
  <2>2. waiting' \in Seq(Id)
    BY <1>0, <1>9, <2>1, MovedProperties DEF Reorder, QTypeOK
  <2>3. reorders' \in 0 .. MaxReorders
    BY <1>0, <1>9, QueueAssumption DEF Reorder, QTypeOK, QueueAssumption
  <2>4. Owners' = Owners
    BY <1>9 DEF Reorder, Owners
  <2> QED BY <1>0, <1>9, <2>2, <2>3, <2>4 DEF Reorder, QTypeOK
<1>10. ASSUME NotifyReordered PROVE Goal
  <2>1. Owners' = Owners
    BY <1>10 DEF NotifyReordered, Owners
  <2> QED BY <1>0, <1>10, <2>1 DEF NotifyReordered, NotifyWaiters, QTypeOK
<1>11. ASSUME UNCHANGED qvars PROVE Goal
  <2>1. Owners' = Owners
    BY <1>11 DEF qvars, Owners
  <2> QED BY <1>0, <1>11, <2>1 DEF qvars, QTypeOK
<1> QED
  BY <1>2, <1>3, <1>4, <1>5, <1>6, <1>7, <1>8, <1>9, <1>10, <1>11
  DEF QNext, AcquireStep, FinishStep

(* Every step keeps the wake-ups: an operation that frees a slot or changes
   the front leaves its notify outstanding, a notify reaches every task that
   has registered, and a task that registered later looks at the state after
   the operation before it parks. *)
LEMMA WakeupStep == PermitInv /\ NoLostWakeup /\ [QNext]_qvars => NoLostWakeup'
<1> SUFFICES ASSUME PermitInv, NoLostWakeup, [QNext]_qvars,
                    NEW u \in Task, permits' > 0, AtFront(u)', qpc'[u] = "parked"
             PROVE  \/ woken'[u]
                    \/ reorderNotify'
                    \/ \E v \in Task : qpc'[v] \in Notifying
  BY DEF NoLostWakeup
<1>0. /\ permits \in Nat /\ qpc \in [Task -> QueuePc] /\ woken \in [Task -> BOOLEAN]
      /\ reorderNotify \in BOOLEAN
  BY SlotCountPositive DEF PermitInv, QTypeOK
<1>1. ASSUME NEW t \in Task,
             NotifyEnqueued(t) \/ Announce(t) \/ NotifyReleased(t)
               \/ NotifyDropped(t) \/ NotifyReordered
      PROVE  woken'[u]
  <2>1. qpc[u] = "parked"
    BY <1>0, <1>1 DEF NotifyEnqueued, Announce, NotifyReleased, NotifyDropped,
                      NotifyReordered, Goto
  <2>2. NotifyWaiters
    BY <1>1 DEF NotifyEnqueued, Announce, NotifyReleased, NotifyDropped, NotifyReordered
  <2> QED BY <2>1, <2>2 DEF NotifyWaiters, Listening
<1>2. ASSUME NEW t \in Task,
             Enqueue(t) \/ Dequeue(t) \/ DropAcquire(t) \/ ReleasePermit(t)
      PROVE  qpc'[t] \in Notifying
  BY <1>0, <1>2 DEF Enqueue, Dequeue, DropAcquire, ReleasePermit, Goto, Notifying
<1>3. ASSUME NEW id \in Id, NEW mv \in QueueMove, Reorder(id, mv)
      PROVE  reorderNotify'
  BY <1>3 DEF Reorder
<1>4. ASSUME permits > 0, AtFront(u), qpc[u] = "parked", woken'[u] = woken[u],
             reorderNotify' = reorderNotify,
             \A v \in Task : qpc[v] \in Notifying => qpc'[v] \in Notifying
      PROVE  \/ woken'[u]
             \/ reorderNotify'
             \/ \E v \in Task : qpc'[v] \in Notifying
  BY <1>4 DEF NoLostWakeup
<1>5. ASSUME NEW t \in Task, Register(t) \/ Wake(t)
      PROVE  /\ permits > 0 /\ AtFront(u) /\ qpc[u] = "parked" /\ woken'[u] = woken[u]
             /\ reorderNotify' = reorderNotify
             /\ \A v \in Task : qpc[v] \in Notifying => qpc'[v] \in Notifying
  BY <1>0, <1>5 DEF Register, Wake, Goto, AtFront, Notifying
<1>6. ASSUME NEW t \in Task, CheckFront(t)
      PROVE  /\ permits > 0 /\ AtFront(u) /\ qpc[u] = "parked" /\ woken'[u] = woken[u]
             /\ reorderNotify' = reorderNotify
             /\ \A v \in Task : qpc[v] \in Notifying => qpc'[v] \in Notifying
  <2>1. AtFront(u)
    BY <1>6 DEF CheckFront, AtFront
  <2>2. u # t
    BY <1>0, <1>6, <2>1 DEF CheckFront, Goto
  <2> QED BY <1>0, <1>6, <2>1, <2>2 DEF CheckFront, Goto, Notifying
<1>7. ASSUME NEW t \in Task, TryAcquire(t)
      PROVE  /\ permits > 0 /\ AtFront(u) /\ qpc[u] = "parked" /\ woken'[u] = woken[u]
             /\ reorderNotify' = reorderNotify
             /\ \A v \in Task : qpc[v] \in Notifying => qpc'[v] \in Notifying
  <2>1. permits > 0
    BY <1>0, <1>7 DEF TryAcquire
  <2>2. u # t
    BY <1>0, <1>7, <2>1 DEF TryAcquire, Goto
  <2> QED BY <1>0, <1>7, <2>1, <2>2 DEF TryAcquire, Goto, AtFront, Notifying
<1>8. ASSUME UNCHANGED qvars
      PROVE  /\ permits > 0 /\ AtFront(u) /\ qpc[u] = "parked" /\ woken'[u] = woken[u]
             /\ reorderNotify' = reorderNotify
             /\ \A v \in Task : qpc[v] \in Notifying => qpc'[v] \in Notifying
  BY <1>8 DEF qvars, AtFront
<1> QED
  BY <1>1, <1>2, <1>3, <1>4, <1>5, <1>6, <1>7, <1>8 DEF QNext, AcquireStep, FinishStep

(* The initial state has every permit free and nobody waiting. *)
LEMMA PermitInit == QInit => PermitInv /\ NoLostWakeup
<1> SUFFICES ASSUME QInit PROVE PermitInv /\ NoLostWakeup
  OBVIOUS
<1>1. QTypeOK
  <2>1. permits \in 0 .. SlotCount
    BY SlotCountPositive DEF QInit
  <2>2. reorders \in 0 .. MaxReorders
    BY QueueAssumption DEF QInit, QueueAssumption
  <2>3. qpc \in [Task -> QueuePc] /\ woken \in [Task -> BOOLEAN]
    BY DEF QInit, QueuePc
  <2>4. waiting \in Seq(Id) /\ reorderNotify \in BOOLEAN
    BY EmptySeq DEF QInit
  <2> QED BY <2>1, <2>2, <2>3, <2>4 DEF QTypeOK
<1>2. Owners = {}
  BY DEF QInit, Owners, Owning
<1>3. SlotsConserved
  <2>1. Cardinality(Owners) = 0
    BY <1>2, FS_EmptySet
  <2>2. permits + Cardinality(Owners) = SlotCount
    BY <2>1, SlotCountPositive DEF QInit
  <2> QED BY <2>2 DEF SlotsConserved, Owners
<1>4. NoLostWakeup
  BY DEF QInit, NoLostWakeup, AtFront
<1> QED BY <1>1, <1>3, <1>4 DEF PermitInv

(* Type correctness: in particular the semaphore never has more free permits
   than slots. *)
THEOREM QueueTypeCorrect == QSpec => []QTypeOK
<1>1. PermitInv => QTypeOK
  BY DEF PermitInv
<1> QED BY <1>1, PermitInit, PermitStep, PTL DEF QSpec

(* Admission, cancellation and release never lose or duplicate a permit, for
   any number of callers and slots. *)
THEOREM QueueConservesSlots == QSpec => []SlotsConserved
<1>1. PermitInv => SlotsConserved
  BY DEF PermitInv
<1> QED BY <1>1, PermitInit, PermitStep, PTL DEF QSpec

(* No wake-up is lost: a parked front of the queue facing a free slot has been
   woken or is about to be. *)
THEOREM QueueLosesNoWakeup == QSpec => []NoLostWakeup
BY PermitInit, PermitStep, WakeupStep, PTL DEF QSpec

----------------------------------------------------------------------------
(* The waiting list, when no two callers share an id. *)

QueuedIds == {idOf[t] : t \in {u \in Task : qpc[u] \in Queued}}

ListInv == PermitInv /\ Distinct(waiting) /\ ToSet(waiting) = QueuedIds

(* Every step keeps the list and the set of waiting callers equal. *)
LEMMA ListStep == DistinctIds /\ ListInv /\ [QNext]_qvars => ListInv'
<1> SUFFICES ASSUME DistinctIds, ListInv, [QNext]_qvars
             PROVE  Distinct(waiting)' /\ ToSet(waiting)' = QueuedIds'
  BY PermitStep DEF ListInv
<1>0. /\ waiting \in Seq(Id) /\ qpc \in [Task -> QueuePc]
      /\ Distinct(waiting) /\ ToSet(waiting) = QueuedIds
      /\ \A t \in Task : idOf[t] \in Id
      /\ \A t, u \in Task : idOf[t] = idOf[u] => t = u
  BY QueueAssumption DEF ListInv, PermitInv, QTypeOK, DistinctIds, QueueAssumption
<1>1. ASSUME NEW t \in Task, Enqueue(t)
      PROVE  Distinct(waiting)' /\ ToSet(waiting)' = QueuedIds'
  <2>1. QueuedIds' = QueuedIds \cup {idOf[t]}
    BY <1>0, <1>1 DEF Enqueue, Goto, QueuedIds, Queued
  <2>2. idOf[t] \notin QueuedIds
    BY <1>0, <1>1 DEF Enqueue, Goto, QueuedIds, Queued
  <2>3. ~Contains(waiting, idOf[t])
    BY <1>0, <2>2, LenProperties DEF Contains, ToSet
  <2>4. waiting' = Append(waiting, idOf[t])
    BY <1>1, <2>3 DEF Enqueue
  <2> QED BY <1>0, <2>1, <2>3, <2>4, AppendKeepsDistinct
<1>2. ASSUME NEW t \in Task, Dequeue(t) \/ DropAcquire(t)
      PROVE  Distinct(waiting)' /\ ToSet(waiting)' = QueuedIds'
  <2>1. QueuedIds' = QueuedIds \ {idOf[t]}
    <3>1. \A u \in Task : qpc'[u] \in Queued <=> (qpc[u] \in Queued /\ u # t)
      BY <1>0, <1>2 DEF Dequeue, DropAcquire, Goto, Queued
    <3> QED BY <1>0, <3>1 DEF QueuedIds
  <2>2. waiting' = Without(waiting, idOf[t])
    BY <1>2 DEF Dequeue, DropAcquire
  <2> QED BY <1>0, <2>1, <2>2, WithoutProperties
<1>3. ASSUME NEW id \in Id, NEW mv \in QueueMove, Reorder(id, mv)
      PROVE  Distinct(waiting)' /\ ToSet(waiting)' = QueuedIds'
  <2>1. Position(waiting, id) \in 1 .. Len(waiting)
    <3>1. \E k \in 1 .. Len(waiting) : waiting[k] = id
      BY <1>0, <1>3, LenProperties DEF Reorder, Contains
    <3> QED BY <3>1 DEF Position
  <2>2. QueuedIds' = QueuedIds
    BY <1>3 DEF Reorder, QueuedIds
  <2>3. waiting' = Moved(waiting, Position(waiting, id), mv)
    BY <1>3 DEF Reorder
  <2> QED BY <1>0, <2>1, <2>2, <2>3, MovedProperties
<1>4. ASSUME waiting' = waiting,
             \A u \in Task : qpc'[u] \in Queued <=> qpc[u] \in Queued
      PROVE  Distinct(waiting)' /\ ToSet(waiting)' = QueuedIds'
  <2>1. {u \in Task : qpc'[u] \in Queued} = {u \in Task : qpc[u] \in Queued}
    BY <1>4
  <2>2. QueuedIds' = QueuedIds
    BY <2>1 DEF QueuedIds
  <2> QED BY <1>0, <1>4, <2>2 DEF Distinct, ToSet
<1>5. ASSUME NEW t \in Task,
             NotifyEnqueued(t) \/ Register(t) \/ CheckFront(t) \/ TryAcquire(t)
               \/ Announce(t) \/ Wake(t) \/ ReleasePermit(t) \/ FinishStep(t)
      PROVE  /\ waiting' = waiting
             /\ \A u \in Task : qpc'[u] \in Queued <=> qpc[u] \in Queued
  BY <1>0, <1>5 DEF NotifyEnqueued, Register, CheckFront, TryAcquire, Announce, Wake,
     ReleasePermit, FinishStep, NotifyReleased, NotifyDropped, Goto, Queued
<1>6. ASSUME NotifyReordered \/ UNCHANGED qvars
      PROVE  /\ waiting' = waiting
             /\ \A u \in Task : qpc'[u] \in Queued <=> qpc[u] \in Queued
  BY <1>6 DEF NotifyReordered, qvars
<1> QED
  BY <1>1, <1>2, <1>3, <1>4, <1>5, <1>6 DEF QNext, AcquireStep

LEMMA ListInit == QInit => ListInv
<1> SUFFICES ASSUME QInit PROVE ListInv
  OBVIOUS
<1>1. Distinct(waiting)
  BY DEF QInit, Distinct
<1>2. ToSet(waiting) = {} /\ QueuedIds = {}
  BY DEF QInit, ToSet, QueuedIds, Queued
<1> QED BY <1>1, <1>2, PermitInit DEF ListInv

(* The reorderable list is exactly the set of waiting transfers, each once,
   as long as no two callers share an id. *)
THEOREM QueueListsTheWaiting == ASSUME DistinctIds PROVE QSpec => []WaitingIsExact
<1>1. QInit => ListInv
  BY ListInit
<1>2. ListInv => WaitingIsExact
  BY LenProperties
     DEF ListInv, PermitInv, QTypeOK, WaitingIsExact, Distinct, IsInjective, QueuedIds
<1>3. ListInv /\ [QNext]_qvars => ListInv'
  BY ListStep
<1> QED BY <1>1, <1>2, <1>3, PTL DEF QSpec

----------------------------------------------------------------------------
(* The queue implements AdmissionQueue. *)

(* Removing an id that is in the list takes one position out; the head stays
   unless the head is that id. *)
LEMMA WithoutPosition ==
    ASSUME NEW S, NEW q \in Seq(S), NEW id, id \in ToSet(q)
    PROVE  /\ \E i \in 1 .. Len(q) : q[i] = id /\ Without(q, id) = RemoveAt(q, i)
           /\ Head(q) # id => Without(q, id) # <<>> /\ Head(Without(q, id)) = Head(q)
<1>0. Len(q) \in Nat /\ DOMAIN q = 1 .. Len(q)
  BY LenProperties
<1>1. PICK i : i = Position(q, id)
  OBVIOUS
<1>2. i \in 1 .. Len(q) /\ q[i] = id /\ Without(q, id) = RemoveAt(q, i)
  <2>1. \E k \in 1 .. Len(q) : q[k] = id
    BY <1>0 DEF ToSet
  <2>2. Contains(q, id)
    BY <1>0, <2>1 DEF Contains
  <2> QED BY <1>1, <2>1, <2>2 DEF Position, Without
<1>3. ASSUME Head(q) # id PROVE Without(q, id) # <<>> /\ Head(Without(q, id)) = Head(q)
  <2>1. PICK r \in Seq(S) : /\ r = RemoveAt(q, i) /\ Len(r) = Len(q) - 1
                            /\ \A j \in 1 .. Len(q) - 1 : r[j] = IF j < i THEN q[j] ELSE q[j + 1]
    BY <1>2, RemoveAtProperties
  <2>2. q # <<>> /\ Head(q) = q[1]
    BY <1>0, <1>2
  <2>3. i > 1 /\ Len(q) > 1
    BY <1>0, <1>2, <1>3, <2>2
  <2>4. r[1] = q[1] /\ Len(r) > 0
    BY <1>0, <2>1, <2>3
  <2>5. r # <<>> /\ Head(r) = r[1]
    BY <2>4
  <2> QED BY <1>2, <2>1, <2>2, <2>4, <2>5
<1> QED BY <1>2, <1>3

(* Without a reorder, whoever has seen itself at the front still is there:
   the entries behind it come and go, the front only by its own hand. *)
FrontInv == reorders = 0 => \A t \in Task : qpc[t] \in {"try", "dequeue"} => AtFront(t)

LEMMA FrontStep ==
    ASSUME DistinctIds
    PROVE  ListInv /\ FrontInv /\ [QNext]_qvars => FrontInv'
<1> SUFFICES ASSUME ListInv, FrontInv, [QNext]_qvars, reorders' = 0,
                    NEW u \in Task, qpc'[u] \in {"try", "dequeue"}
             PROVE  AtFront(u)'
  BY DEF FrontInv
<1>0. /\ waiting \in Seq(Id) /\ qpc \in [Task -> QueuePc] /\ reorders \in Nat
      /\ ToSet(waiting) = QueuedIds
      /\ \A t \in Task : idOf[t] \in Id
      /\ \A t, v \in Task : idOf[t] = idOf[v] => t = v
  BY QueueAssumption DEF ListInv, PermitInv, QTypeOK, DistinctIds, QueueAssumption
<1>1. ASSUME NEW id \in Id, NEW mv \in QueueMove, Reorder(id, mv) PROVE FALSE
  BY <1>0, <1>1 DEF Reorder
<1>2. reorders = 0
  BY <1>1 DEF QNext, qvars, Enqueue, AcquireStep, NotifyEnqueued, Register, CheckFront, TryAcquire,
     Dequeue, Announce, Wake, ReleasePermit, DropAcquire, FinishStep, NotifyReleased,
     NotifyDropped, NotifyReordered
<1>3. ASSUME NEW t \in Task, Enqueue(t) PROVE AtFront(u)'
  <2>1. AtFront(u)
    BY <1>0, <1>2, <1>3 DEF Enqueue, Goto, FrontInv
  <2>2. PICK x \in Id : x = idOf[t]
    BY <1>0
  <2>3. waiting' \in {waiting, Append(waiting, x)}
    BY <1>3, <2>2 DEF Enqueue
  <2>4. waiting # <<>> => Append(waiting, x) # <<>> /\ Head(Append(waiting, x)) = Head(waiting)
    BY <1>0
  <2> QED BY <2>1, <2>3, <2>4 DEF AtFront
<1>4. ASSUME NEW t \in Task, Dequeue(t) \/ DropAcquire(t) PROVE AtFront(u)'
  <2>1. u # t /\ AtFront(u)
    BY <1>0, <1>2, <1>4 DEF Dequeue, DropAcquire, Goto, FrontInv
  <2>2. waiting' = Without(waiting, idOf[t]) /\ idOf[t] \in ToSet(waiting)
    BY <1>0, <1>4 DEF Dequeue, DropAcquire, Goto, QueuedIds, Queued
  <2>3. Head(waiting) # idOf[t]
    BY <1>0, <2>1 DEF AtFront
  <2> QED BY <1>0, <2>1, <2>2, <2>3, WithoutPosition DEF AtFront
<1>5. ASSUME NEW t \in Task, CheckFront(t) PROVE AtFront(u)'
  <2>1. AtFront(u)
    BY <1>0, <1>2, <1>5 DEF CheckFront, Goto, FrontInv
  <2> QED BY <1>5, <2>1 DEF CheckFront, AtFront
<1>6. ASSUME NEW t \in Task, TryAcquire(t) PROVE AtFront(u)'
  <2>1. AtFront(u)
    BY <1>0, <1>2, <1>6 DEF TryAcquire, Goto, FrontInv
  <2> QED BY <1>6, <2>1 DEF TryAcquire, AtFront
<1>7. ASSUME NEW t \in Task,
             NotifyEnqueued(t) \/ Register(t) \/ Announce(t) \/ Wake(t) \/ ReleasePermit(t)
               \/ FinishStep(t)
      PROVE  AtFront(u)'
  BY <1>0, <1>2, <1>7 DEF NotifyEnqueued, Register, Announce, Wake, ReleasePermit, FinishStep,
     NotifyReleased, NotifyDropped, Goto, AtFront, FrontInv
<1>8. CASE NotifyReordered \/ UNCHANGED qvars
  BY <1>2, <1>8 DEF NotifyReordered, qvars, AtFront, FrontInv
<1> QED
  BY <1>1, <1>3, <1>4, <1>5, <1>6, <1>7, <1>8 DEF QNext, AcquireStep

LEMMA FrontInit == QInit => FrontInv
BY DEF QInit, FrontInv

(* The transfers that run are at most the owners of a permit; one that is
   still in the list with its permit leaves room for itself. *)
LEMMA AdmittedCount ==
    ASSUME PermitInv, NEW t \in Task, qpc[t] = "dequeue"
    PROVE  Cardinality(AdmittedIds) < SlotCount
<1> DEFINE held == {u \in Task : qpc[u] \in {"announce", "held"}}
<1>1. IsFiniteSet(Owners) /\ IsFiniteSet(held) /\ held \subseteq Owners \ {t}
  <2>1. held \subseteq Owners \ {t} /\ Owners \subseteq Task
    BY DEF Owners, Owning
  <2> QED BY <2>1, FS_Subset, QueueAssumption DEF QueueAssumption
<1>2. Cardinality(AdmittedIds) <= Cardinality(held) /\ IsFiniteSet(AdmittedIds)
  <2>1. AdmittedIds = {idOf[u] : u \in held}
    BY DEF AdmittedIds
  <2> HIDE DEF held
  <2> DEFINE f == [u \in held |-> idOf[u]]
  <2>2. AdmittedIds = {f[u] : u \in held}
    BY <2>1
  <2>3. f \in Surjection(held, AdmittedIds)
    BY <2>2 DEF Surjection
  <2> HIDE DEF f
  <2> QED BY <1>1, <2>3, FS_Surjection
<1>3. Cardinality(held) <= Cardinality(Owners \ {t}) /\ Cardinality(held) \in Nat
  BY <1>1, FS_Subset, FS_RemoveElement, FS_CardinalityType
<1>4. Cardinality(Owners \ {t}) = Cardinality(Owners) - 1 /\ Cardinality(Owners) \in Nat
  <2>1. t \in Owners
    BY DEF Owners, Owning
  <2> QED BY <1>1, <2>1, FS_RemoveElement, FS_CardinalityType
<1>5. permits \in Nat /\ permits + Cardinality(Owners) = SlotCount
  BY SlotCountPositive DEF PermitInv, QTypeOK, SlotsConserved, Owners
<1>6. Cardinality(AdmittedIds) \in Nat
  BY <1>2, FS_CardinalityType
<1> QED BY <1>2, <1>3, <1>4, <1>5, <1>6, SlotCountPositive

(* Every step of the queue is a step of AdmissionQueue or leaves what it sees
   alone. *)
LEMMA AdmissionStep ==
    ASSUME DistinctIds
    PROVE  ListInv /\ FrontInv /\ [QNext]_qvars => [Admission!ANext]_(Admission!avars)
<1> SUFFICES ASSUME ListInv, FrontInv, [QNext]_qvars
             PROVE  Admission!ANext \/ UNCHANGED Admission!avars
  OBVIOUS
<1>0. /\ PermitInv /\ waiting \in Seq(Id) /\ qpc \in [Task -> QueuePc] /\ reorders \in Nat
      /\ ToSet(waiting) = QueuedIds /\ Len(waiting) \in Nat
      /\ \A t \in Task : idOf[t] \in Id
      /\ \A t, u \in Task : idOf[t] = idOf[u] => t = u
  BY QueueAssumption, LenProperties DEF ListInv, PermitInv, QTypeOK, DistinctIds, QueueAssumption
<1>1. ASSUME NEW t \in Task, Enqueue(t) PROVE Admission!Join(idOf[t])
  <2>1. idOf[t] \notin QueuedIds /\ idOf[t] \notin AdmittedIds /\ AdmittedIds' = AdmittedIds
    BY <1>0, <1>1 DEF Enqueue, Goto, QueuedIds, Queued, AdmittedIds
  <2>2. ~Contains(waiting, idOf[t])
    BY <1>0, <2>1, LenProperties DEF Contains, ToSet
  <2> QED BY <1>1, <2>1, <2>2 DEF Enqueue, Contains, Admission!Join, Admission!Contains
<1>2. ASSUME NEW t \in Task, Dequeue(t) \/ DropAcquire(t) PROVE Admission!Depart(idOf[t])
  <2>1. waiting' = Without(waiting, idOf[t]) /\ idOf[t] \in ToSet(waiting)
    BY <1>0, <1>2 DEF Dequeue, DropAcquire, Goto, QueuedIds, Queued
  <2> QED BY <1>0, <2>1, WithoutPosition DEF RemoveAt, Admission!Depart, Admission!RemoveAt
<1>3. ASSUME NEW t \in Task, Dequeue(t) PROVE Admission!Admit(idOf[t])
  <2>1. qpc[t] = "dequeue" /\ reorders' = reorders
    BY <1>3 DEF Dequeue, Goto
  <2>2. AdmittedIds' = AdmittedIds \cup {idOf[t]}
    <3>1. \A u \in Task : qpc'[u] \in {"announce", "held"} <=> qpc[u] \in {"announce", "held"} \/ u = t
      BY <1>0, <1>3 DEF Dequeue, Goto
    <3> QED BY <3>1 DEF AdmittedIds
  <2>3. reorders = 0 => idOf[t] = Head(waiting)
    BY <2>1 DEF FrontInv, AtFront
  <2>4. Cardinality(AdmittedIds) < SlotCount
    BY <1>0, <2>1, AdmittedCount
  <2>5. ~(reorders > 0) => reorders = 0
    BY <1>0
  <2>6. Admission!Cardinality(AdmittedIds) = Cardinality(AdmittedIds)
    BY Zenon DEF Cardinality, Admission!Cardinality
  <2> QED BY <1>2, <1>3, <2>1, <2>2, <2>3, <2>4, <2>5, <2>6 DEF Admission!Admit
<1>4. ASSUME NEW t \in Task, DropAcquire(t) PROVE Admission!Leave(idOf[t])
  <2>1. AdmittedIds' = AdmittedIds /\ reorders' = reorders
    BY <1>0, <1>4 DEF DropAcquire, Goto, AdmittedIds
  <2> QED BY <1>2, <1>4, <2>1 DEF Admission!Leave
<1>5. ASSUME NEW t \in Task, ReleasePermit(t) PROVE Admission!Finish(idOf[t])
  <2>1. idOf[t] \in AdmittedIds /\ AdmittedIds' = AdmittedIds \ {idOf[t]}
    <3>1. qpc[t] = "held"
      BY <1>5 DEF ReleasePermit, Goto
    <3>2. \A u \in Task : qpc'[u] \in {"announce", "held"} <=> qpc[u] \in {"announce", "held"} /\ u # t
      BY <1>0, <1>5 DEF ReleasePermit, Goto
    <3> QED BY <1>0, <3>1, <3>2 DEF AdmittedIds
  <2> QED BY <1>5, <2>1 DEF ReleasePermit, Admission!Finish
<1>6. ASSUME NEW id \in Id, NEW mv \in QueueMove, Reorder(id, mv) PROVE Admission!Rearrange
  <2>1. Position(waiting, id) \in 1 .. Len(waiting)
    <3>1. \E k \in 1 .. Len(waiting) : waiting[k] = id
      BY <1>0, <1>6, LenProperties DEF Reorder, Contains
    <3> QED BY <3>1 DEF Position
  <2>2. /\ ToSet(waiting') = ToSet(waiting) /\ Len(waiting') = Len(waiting)
    BY <1>0, <1>6, <2>1, MovedProperties DEF Reorder
  <2>3. reorders' > 0 /\ AdmittedIds' = AdmittedIds
    BY <1>0, <1>6 DEF Reorder, AdmittedIds
  <2> QED BY <2>2, <2>3 DEF ToSet, Admission!Rearrange, Admission!ToSet
<1>7. ASSUME waiting' = waiting, reorders' = reorders,
             \A u \in Task : qpc'[u] \in {"announce", "held"} <=> qpc[u] \in {"announce", "held"}
      PROVE  UNCHANGED Admission!avars
  <2>1. AdmittedIds' = AdmittedIds
    BY <1>7 DEF AdmittedIds
  <2> QED BY <1>7, <2>1 DEF Admission!avars
<1>8. ASSUME NEW t \in Task,
             NotifyEnqueued(t) \/ Register(t) \/ CheckFront(t) \/ TryAcquire(t)
               \/ Announce(t) \/ Wake(t) \/ FinishStep(t)
      PROVE  /\ waiting' = waiting /\ reorders' = reorders
             /\ \A u \in Task : qpc'[u] \in {"announce", "held"} <=> qpc[u] \in {"announce", "held"}
  BY <1>0, <1>8 DEF NotifyEnqueued, Register, CheckFront, TryAcquire, Announce, Wake, FinishStep,
     NotifyReleased, NotifyDropped, Goto
<1>9. CASE NotifyReordered \/ UNCHANGED qvars
  BY <1>7, <1>9 DEF NotifyReordered, qvars
<1> QED
  BY <1>0, <1>1, <1>3, <1>4, <1>5, <1>6, <1>7, <1>8, <1>9 DEF QNext, AcquireStep, Admission!ANext

(* The queue takes only the steps AdmissionQueue allows: entries join at the
   end, the front is admitted first until the user reorders, at most SlotCount
   run, and a reorder neither loses nor adds an entry. *)
THEOREM QueueAdmitsInOrder == ASSUME DistinctIds PROVE QSpec => Admission!ASteps
<1> DEFINE Inv == ListInv /\ FrontInv
<1>1. QInit => Inv /\ Admission!AInit
  BY ListInit, FrontInit DEF QInit, Admission!AInit, AdmittedIds
<1>2. Inv /\ [QNext]_qvars => Inv'
  BY ListStep, FrontStep
<1>3. Inv /\ [QNext]_qvars => [Admission!ANext]_(Admission!avars)
  BY AdmissionStep
<1> QED
  <2> HIDE DEF Inv
  <2> QED BY <1>1, <1>2, <1>3, PTL DEF QSpec, Admission!ASteps

(* The whole refinement, service included, given that every caller that queues
   is eventually admitted or dropped (EventuallyAdmitted). *)
THEOREM QueueImplementsAdmission ==
    ASSUME DistinctIds
    PROVE  QSpec /\ EventuallyAdmitted => ImplementsAdmission
<1> DEFINE In(x) == Admission!Contains(waiting, x)
<1>1. ListInv => \A x \in Id : In(x) <=> x \in QueuedIds
  <2>1. ListInv => /\ waiting \in Seq(Id) /\ Len(waiting) \in Nat /\ DOMAIN waiting = 1 .. Len(waiting)
                   /\ ToSet(waiting) = QueuedIds
    BY LenProperties DEF ListInv, PermitInv, QTypeOK
  <2> QED BY <2>1 DEF ToSet, Admission!Contains
<1> HIDE DEF In
<1>2. QSpec => []ListInv
  BY ListInit, ListStep, PTL DEF QSpec
<1>3. ASSUME NEW x \in Id
      PROVE  QSpec /\ EventuallyAdmitted => (In(x) ~> ~In(x))
  <2>1. CASE \E t \in Task : idOf[t] = x
    <3>1. PICK t \in Task : idOf[t] = x
      BY <2>1
    <3> DEFINE Q == qpc[t] \in Queued
               H == qpc[t] \in {"held", "dropped"}
    <3>2. ListInv => (In(x) => Q) /\ (H => ~In(x))
      BY <1>1, <3>1 DEF QueuedIds, DistinctIds, Queued
    <3>3. EventuallyAdmitted => (Q ~> H)
      BY DEF EventuallyAdmitted
    <3> HIDE DEF Q, H
    <3> QED BY <1>2, <3>2, <3>3, PTL
  <2>2. CASE ~\E t \in Task : idOf[t] = x
    <3>1. ListInv => ~In(x)
      BY <1>1, <2>2 DEF QueuedIds
    <3> QED BY <1>2, <3>1, PTL
  <2> QED BY <2>1, <2>2
<1>4. QSpec /\ EventuallyAdmitted => Admission!Served
  BY <1>3 DEF Admission!Served, In
<1> QED BY <1>4, QueueAdmitsInOrder DEF ImplementsAdmission, Admission!ASpec
----------------------------------------------------------------------------
(* The life of a transfer. *)

RunPc == {"unborn", "lookup", "begin", "clearCancel", "clearDiscard", "setQueued",
          "select", "discover", "upsert", "mark", "markSet", "stream", "complete",
          "fin", "finTemp", "finRow", "finPause", "release", "notify", "final",
          "unregister", "latch", "end", "tail", "left", "done", "gone"}

Asking == {"stop1", "stop2", "stop3", "pause1", "pause2", "pause3"}

(* A run past its lookup and a call that asks for a pause or a stop hold a
   control. *)
Refers ==
    /\ \A t \in Task : run[t].pc \notin {"unborn", "lookup", "done", "gone"} => run[t].ctl # 0
    /\ \A th \in Thread : call[th].at \in Asking => call[th].ctl # 0

TypeInv == TypeOK /\ Refers

----------------------------------------------------------------------------
(* Updates of one run, one control, one row. *)

LEMMA Constants ==
    /\ MaxControls \in Nat /\ MaxCommands \in Nat /\ MaxCrashes \in Nat
    /\ IsFiniteSet(Id) /\ Id # {} /\ Ui \notin Task /\ Ui \in Thread
    /\ \A t \in Task : idOf[t] \in Id /\ t \in Thread /\ t # Ui
BY TransfersAssumption, QueueAssumption DEF TransfersAssumption, QueueAssumption, Thread

LEMMA GoesEffect ==
    ASSUME run \in [Task -> RunType], NEW t \in Task, NEW pc \in RunPc, Goes(t, pc)
    PROVE  /\ run' \in [Task -> RunType]
           /\ \A u \in Task : /\ u # t => run'[u] = run[u]
                              /\ run'[u].ctl = run[u].ctl /\ run'[u].result = run[u].result
                              /\ run'[u].latched = run[u].latched
           /\ run'[t].pc = pc
BY DEF Goes, RunType, RunPc

LEMMA ReturnsEffect ==
    ASSUME run \in [Task -> RunType], NEW t \in Task, NEW pc \in RunPc,
           NEW r \in {"Ok", "Cancelled", "Stopped", "Failed", "AlreadyRunning"}, Returns(t, r, pc)
    PROVE  /\ run' \in [Task -> RunType]
           /\ \A u \in Task : /\ u # t => run'[u] = run[u]
                              /\ run'[u].ctl = run[u].ctl /\ run'[u].latched = run[u].latched
           /\ run'[t].pc = pc /\ run'[t].result = r
<1>1. /\ run' = [run EXCEPT ![t] = run'[t]]
      /\ run'[t] = [run[t] EXCEPT !.pc = pc, !.result = r]
  BY DEF Returns
<1>2. run[t] \in RunType
  OBVIOUS
<1>3. /\ run'[t] \in RunType /\ run'[t].pc = pc /\ run'[t].result = r
      /\ run'[t].ctl = run[t].ctl /\ run'[t].latched = run[t].latched
  BY <1>1, <1>2 DEF RunType, RunPc
<1> QED BY <1>1, <1>3

LEMMA SetStateEffect ==
    ASSUME ctl \in [Control -> ControlType], NEW c \in Control, NEW s \in TransferState, SetState(c, s)
    PROVE  /\ ctl' \in [Control -> ControlType]
           /\ \A d \in Control : /\ d # c => ctl'[d] = ctl[d]
                                 /\ ctl'[d].executing = ctl[d].executing
                                 /\ ctl'[d].discard = ctl[d].discard
                                 /\ ctl'[d].cancel = ctl[d].cancel
                                 /\ ctl'[d].wanted = ctl[d].wanted
           /\ ctl'[c].state = s
BY DEF SetState, ControlType

LEMMA SetDownloadStateEffect ==
    ASSUME disk \in [Id -> DiskType], NEW i \in Id, NEW s \in RowState \ {"none"}, SetDownloadState(i, s)
    PROVE  /\ disk' \in [Id -> DiskType]
           /\ \A j \in Id : /\ j # i => disk'[j] = disk[j]
                            /\ disk'[j].part = disk[j].part /\ disk'[j].blob = disk[j].blob
                            /\ disk'[j].row = "none" <=> disk[j].row = "none"
           /\ disk'[i].row \in {"none", s}
<1>1. /\ disk' = [disk EXCEPT ![i] = disk'[i]]
      /\ disk'[i] = [disk[i] EXCEPT !.row = IF disk[i].row = "none" THEN "none" ELSE s]
  BY DEF SetDownloadState
<1>2. /\ disk'[i] \in DiskType /\ disk'[i].part = disk[i].part /\ disk'[i].blob = disk[i].blob
      /\ disk'[i].row = IF disk[i].row = "none" THEN "none" ELSE s
  BY <1>1 DEF DiskType, RowState
<1> QED BY <1>1, <1>2

LEMMA StepEffect ==
    ASSUME call \in [Thread -> CallType], NEW th \in Thread, NEW from, NEW to, Step(th, from, to),
           to \in {"none", "stop1", "stop2", "stop3", "pause1", "pause2", "pause3",
                   "check", "temps", "row", "unregister", "list", "scan", "reapTemp", "reapRow",
                   "normalize"}
    PROVE  /\ call' \in [Thread -> CallType]
           /\ call[th].at = from /\ call'[th].at = to
           /\ \A x \in Thread : /\ x # th => call'[x] = call[x]
                                /\ call'[x].id = call[x].id /\ call'[x].ctl = call[x].ctl
                                /\ call'[x].discard = call[x].discard
BY DEF Step, CallType

LEMMA IdleType == Idle \in CallType
<1>1. (CHOOSE i \in Id : TRUE) \in Id
  BY Constants
<1> QED BY <1>1, Constants DEF Idle, CallType

----------------------------------------------------------------------------
(* Types *)

(* A step other than a crash is one of the queue's or leaves it alone. *)
LEMMA QueueStep ==
    ASSUME [Next]_tvars, ~Crash
    PROVE  [QNext]_qvars
<1>1. ASSUME NEW t \in Task, RunNext(t) PROVE [QNext]_qvars
  <2>1. CASE WaitForSlot(t)
    BY <2>1 DEF WaitForSlot, QNext
  <2>2. CASE DropPermit(t)
    BY <2>2 DEF DropPermit, QNext
  <2>3. CASE DropPermitNotify(t)
    BY <2>3 DEF DropPermitNotify, QNext, FinishStep
  <2>4. CASE LeaveQueue(t)
    BY <2>4 DEF LeaveQueue, QNext
  <2>5. CASE LeaveNotify(t)
    BY <2>5 DEF LeaveNotify, QNext, FinishStep
  <2> QED BY <1>1, <2>1, <2>2, <2>3, <2>4, <2>5
       DEF RunNext, Lookup, TryBegin, ClearCancel, ClearDiscard, SetQueued, Connect, Interrupted,
           Discover, UpsertDownload, ReadState, StoreDownloading, WriteBytes, CommitBlob,
           SetComplete, SourcesExhausted, NoticeCancel, FinishCancelled, FinishRemoveTemp,
           FinishDeleteRow, FinishPause, FinalState, UnregisterStopped, LatchDiscard, EndExecution
<1>2. ASSUME NEW th \in Thread, CallNext(th) PROVE UNCHANGED qvars
  BY <1>2 DEF CallNext, Stop1, Stop2, Stop3, Pause1, Pause2, Pause3, DiscardCheck, DiscardTemps,
              DiscardRow, DiscardUnregister
<1>3. CASE ReconcileNext
  BY <1>3 DEF ReconcileNext, ListRows, ScanRow, ReapTemp, ReapRow, Normalize
<1>4. CASE UiNext
  BY <1>4 DEF UiNext, Start, Resume, Pause, Stop, RemoveTransfer, Calling, Refresh, SyncCards,
              HandleDone
<1>5. CASE UNCHANGED tvars
  BY <1>5 DEF tvars
<1> QED BY <1>1, <1>2, <1>3, <1>4, <1>5 DEF Next

(* What a type invariant says of the variables of this module. *)
LEMMA Typed ==
    ASSUME TypeInv
    PROVE  /\ registry \in [Id -> 0 .. MaxControls] /\ controls \in 0 .. MaxControls
           /\ ctl \in [Control -> ControlType] /\ run \in [Task -> RunType]
           /\ disk \in [Id -> DiskType] /\ card \in [Id -> CardType]
           /\ call \in [Thread -> CallType] /\ live \subseteq Id
           /\ listed \in [Id -> RowState]
           /\ \A t \in Task : run[t].pc \notin {"unborn", "lookup", "done", "gone"} =>
                    /\ run[t].ctl \in Control /\ Driven(t) \in ControlType
                    /\ Driven(t) = ctl[run[t].ctl]
           /\ \A th \in Thread : call[th].at \in Asking => call[th].ctl \in Control
<1>1. \A c \in 0 .. MaxControls : c # 0 => c \in Control
  BY Constants DEF Control
<1> QED BY <1>1 DEF TypeInv, TypeOK, Refers, RunType, CallType, Driven

(* Where a run goes next.  A run that holds a control keeps it. *)
Moves(t) == \E pc \in RunPc : Goes(t, pc) \/ \E r \in {"Ok", "Cancelled", "Stopped", "Failed",
                                                      "AlreadyRunning"} : Returns(t, r, pc)

LEMMA MovesTypes ==
    ASSUME TypeInv, NEW t \in Task, Moves(t), run[t].ctl # 0, UNCHANGED call
    PROVE  run' \in [Task -> RunType] /\ Refers'
<1>0. run \in [Task -> RunType]
  BY Typed
<1>1. run' \in [Task -> RunType] /\ \A u \in Task : run'[u].ctl = run[u].ctl /\ (u # t => run'[u] = run[u])
  <2>1. PICK pc \in RunPc : Goes(t, pc) \/ \E r \in {"Ok", "Cancelled", "Stopped", "Failed",
                                                    "AlreadyRunning"} : Returns(t, r, pc)
    BY DEF Moves
  <2> QED BY <1>0, <2>1, GoesEffect, ReturnsEffect
<1> QED BY <1>1 DEF TypeInv, Refers

(* The steps of a run that only move it on. *)
LEMMA MoveTypes ==
    ASSUME TypeInv, NEW t \in Task,
           \/ Lookup(t) \/ Interrupted(t) \/ Discover(t) \/ ReadState(t) \/ NoticeCancel(t)
           \/ FinishCancelled(t) \/ LatchDiscard(t)
    PROVE  run' \in [Task -> RunType] /\ Refers'
<1>0. /\ run \in [Task -> RunType] /\ registry[idOf[t]] \in 0 .. MaxControls
      /\ run[t] \in RunType /\ Interruption(Driven(t)) \in {"Stopped", "Cancelled"}
      /\ run[t].pc \notin {"unborn", "lookup", "done", "gone"} => run[t].ctl # 0
  BY Typed, Constants DEF Interruption, TypeInv, Refers
<1>1. CASE Lookup(t)
  BY <1>0, <1>1 DEF TypeInv, Refers, Lookup, At, RunType, Thread
<1>2. CASE \/ Interrupted(t) \/ Discover(t) \/ ReadState(t) \/ NoticeCancel(t) \/ FinishCancelled(t)
  BY <1>0, <1>2, MovesTypes
     DEF Moves, Interrupted, Discover, ReadState, NoticeCancel, FinishCancelled, At, RunPc
<1>3. CASE LatchDiscard(t)
  <2>1. Driven(t).discard \in BOOLEAN
    BY <1>3, Typed DEF LatchDiscard, At, ControlType
  <2> QED BY <1>0, <1>3, <2>1 DEF TypeInv, Refers, LatchDiscard, At, RunType, Thread
<1> QED BY <1>1, <1>2, <1>3

(* The steps of a run that set its control. *)
LEMMA ControlTypes ==
    ASSUME TypeInv, NEW t \in Task,
           \/ TryBegin(t) \/ ClearCancel(t) \/ ClearDiscard(t) \/ SetQueued(t) \/ Connect(t)
           \/ StoreDownloading(t) \/ FinalState(t)
    PROVE  run' \in [Task -> RunType] /\ Refers' /\ ctl' \in [Control -> ControlType]
<1>0. /\ run[t].ctl \in Control /\ ctl \in [Control -> ControlType] /\ run[t].ctl # 0
      /\ ctl[run[t].ctl] \in ControlType
  <2>1. run[t].pc \notin {"unborn", "lookup", "done", "gone"}
    BY DEF TryBegin, ClearCancel, ClearDiscard, SetQueued, Connect, StoreDownloading, FinalState, At
  <2> QED BY <2>1, Typed DEF TypeInv, Refers
<1>1. Moves(t) /\ UNCHANGED call
  BY DEF Moves, TryBegin, ClearCancel, ClearDiscard, SetQueued, Connect, StoreDownloading, FinalState,
         RunPc
<1>2. run' \in [Task -> RunType] /\ Refers'
  BY <1>0, <1>1, MovesTypes
<1>3. CASE SetQueued(t) \/ Connect(t) \/ StoreDownloading(t) \/ FinalState(t)
  <2>1. \E s \in TransferState : SetState(run[t].ctl, s)
    BY <1>3 DEF SetQueued, Connect, StoreDownloading, FinalState, TransferState
  <2> QED BY <1>0, <1>2, <2>1, SetStateEffect
<1>4. CASE TryBegin(t) \/ ClearCancel(t) \/ ClearDiscard(t)
  <2>1. \A f \in BOOLEAN :
          /\ [ctl[run[t].ctl] EXCEPT !.executing = TRUE, !.wanted = {}] \in ControlType
          /\ [ctl[run[t].ctl] EXCEPT !.cancel = f] \in ControlType
          /\ [ctl[run[t].ctl] EXCEPT !.discard = f] \in ControlType
    BY <1>0 DEF ControlType
  <2> QED BY <1>0, <1>2, <1>4, <2>1 DEF TryBegin, ClearCancel, ClearDiscard
<1> QED BY <1>3, <1>4

(* The steps of a run that touch the disk. *)
LEMMA DiskTypes ==
    ASSUME TypeInv, NEW t \in Task,
           \/ UpsertDownload(t) \/ WriteBytes(t) \/ CommitBlob(t) \/ SetComplete(t)
           \/ SourcesExhausted(t) \/ FinishRemoveTemp(t) \/ FinishDeleteRow(t) \/ FinishPause(t)
    PROVE  run' \in [Task -> RunType] /\ Refers' /\ disk' \in [Id -> DiskType]
<1>0. /\ run[t].ctl # 0 /\ disk \in [Id -> DiskType] /\ idOf[t] \in Id /\ disk[idOf[t]] \in DiskType
      /\ UNCHANGED call /\ run \in [Task -> RunType]
  BY Typed, Constants DEF TypeInv, Refers, UpsertDownload, WriteBytes, CommitBlob, SetComplete,
               SourcesExhausted, FinishRemoveTemp, FinishDeleteRow, FinishPause, At
<1>1. run' \in [Task -> RunType] /\ Refers'
  <2>1. CASE WriteBytes(t)
    BY <1>0, <2>1 DEF TypeInv, Refers, WriteBytes
  <2>2. CASE ~WriteBytes(t)
    <3>1. Moves(t)
      BY <2>2 DEF Moves, UpsertDownload, CommitBlob, SetComplete,
               SourcesExhausted, FinishRemoveTemp, FinishDeleteRow, FinishPause, RunPc
    <3> QED BY <1>0, <3>1, MovesTypes
  <2> QED BY <2>1, <2>2
<1>2. CASE SetComplete(t) \/ SourcesExhausted(t) \/ FinishPause(t)
  <2>1. \E s \in RowState \ {"none"} : SetDownloadState(idOf[t], s)
    BY <1>2 DEF SetComplete, SourcesExhausted, FinishPause, RowState
  <2> QED BY <1>0, <1>1, <2>1, SetDownloadStateEffect
<1>3. CASE \/ UpsertDownload(t) \/ WriteBytes(t) \/ CommitBlob(t) \/ FinishRemoveTemp(t)
           \/ FinishDeleteRow(t)
  <2>0. \A f \in BOOLEAN, r \in RowState :
          /\ [disk[idOf[t]] EXCEPT !.part = f] \in DiskType
          /\ [disk[idOf[t]] EXCEPT !.row = r] \in DiskType
          /\ [disk[idOf[t]] EXCEPT !.part = FALSE, !.blob = TRUE] \in DiskType
    BY <1>0 DEF DiskType
  <2>1. disk' \in [Id -> DiskType]
    BY <1>0, <1>3, <2>0 DEF UpsertDownload, WriteBytes, CommitBlob, FinishRemoveTemp, FinishDeleteRow,
                            RowState
  <2> QED BY <1>1, <2>1
<1> QED BY <1>2, <1>3

(* The steps of a run that wait for the queue, leave it or end. *)
LEMMA EndTypes ==
    ASSUME TypeInv, NEW t \in Task,
           \/ WaitForSlot(t) \/ DropPermit(t) \/ DropPermitNotify(t) \/ UnregisterStopped(t)
           \/ EndExecution(t) \/ LeaveQueue(t) \/ LeaveNotify(t)
    PROVE  /\ run' \in [Task -> RunType] /\ Refers' /\ ctl' \in [Control -> ControlType]
           /\ registry' \in [Id -> 0 .. MaxControls] /\ call' \in [Thread -> CallType]
<1>0. /\ run[t].ctl \in Control /\ run[t].ctl # 0 /\ ctl \in [Control -> ControlType]
      /\ ctl[run[t].ctl] \in ControlType /\ idOf[t] \in Id /\ t \in Thread
      /\ registry \in [Id -> 0 .. MaxControls] /\ call \in [Thread -> CallType]
      /\ run \in [Task -> RunType]
  BY Typed, Constants DEF TypeInv, Refers, WaitForSlot, DropPermit, DropPermitNotify,
     UnregisterStopped, EndExecution, LeaveQueue, LeaveNotify, At
<1>1. CASE WaitForSlot(t)
  BY <1>0, <1>1 DEF TypeInv, Refers, WaitForSlot
<1>2. CASE DropPermit(t) \/ DropPermitNotify(t) \/ UnregisterStopped(t) \/ LeaveQueue(t) \/ LeaveNotify(t)
  <2>1. Moves(t) /\ UNCHANGED <<call, ctl>>
    BY <1>2 DEF Moves, DropPermit, DropPermitNotify, UnregisterStopped, LeaveQueue, LeaveNotify, RunPc
  <2>2. registry' \in [Id -> 0 .. MaxControls]
    BY <1>0, <1>2, Constants DEF DropPermit, DropPermitNotify, UnregisterStopped, LeaveQueue, LeaveNotify
  <2> QED BY <1>0, <2>1, <2>2, MovesTypes
<1>3. CASE EndExecution(t)
  <2>1. ctl' \in [Control -> ControlType] /\ registry' = registry
    BY <1>0, <1>3 DEF EndExecution, ControlType
  <2>2. [Idle EXCEPT !.at = "check", !.id = idOf[t]] \in CallType
    BY <1>0, IdleType DEF CallType
  <2>3. call' \in [Thread -> CallType]
    BY <1>0, <1>3, <2>2 DEF EndExecution
  <2>4. \A th \in Thread : call'[th] = call[th] \/ (th = t /\ call'[th].at = "check")
    <3>1. [Idle EXCEPT !.at = "check", !.id = idOf[t]].at = "check"
      BY DEF Idle
    <3> QED BY <1>0, <1>3, <3>1 DEF EndExecution
  <2>5. \E pc \in RunPc : Goes(t, pc)
    BY <1>3 DEF EndExecution, RunPc
  <2>6. /\ run' \in [Task -> RunType]
        /\ \A u \in Task : run'[u].ctl = run[u].ctl /\ (u # t => run'[u] = run[u])
    BY <1>0, <2>5, GoesEffect
  <2>7. Refers'
    BY <1>0, <2>4, <2>6 DEF TypeInv, Refers, Asking
  <2> QED BY <1>0, <2>1, <2>3, <2>6, <2>7
<1> QED BY <1>1, <1>2, <1>3

(* The steps of a pause, a stop or a discard. *)
LEMMA CallTypes ==
    ASSUME TypeInv, NEW th \in Thread, CallNext(th)
    PROVE  /\ UNCHANGED <<run, card, controls, envVars>> /\ Refers' /\ ctl' \in [Control -> ControlType]
           /\ registry' \in [Id -> 0 .. MaxControls] /\ call' \in [Thread -> CallType]
           /\ disk' \in [Id -> DiskType]
<1> USE DEF Asking
<1>0. /\ ctl \in [Control -> ControlType] /\ registry \in [Id -> 0 .. MaxControls]
      /\ call \in [Thread -> CallType] /\ disk \in [Id -> DiskType]
      /\ call[th].id \in Id /\ call[th].ctl \in 0 .. MaxControls
      /\ call[th].at \in Asking => call[th].ctl \in Control
      /\ \A x \in Thread : call[x].at \in Asking => call[x].ctl # 0
  BY Typed DEF CallType, TypeInv, Refers
<1>1. /\ UNCHANGED <<run, card, controls, envVars>>
  BY DEF CallNext, Stop1, Stop2, Stop3, Pause1, Pause2, Pause3, DiscardCheck, DiscardTemps,
         DiscardRow, DiscardUnregister
<1>2. SUFFICES /\ \A x \in Thread : call'[x].at \in Asking => call'[x].ctl # 0
               /\ ctl' \in [Control -> ControlType] /\ call' \in [Thread -> CallType]
               /\ registry' \in [Id -> 0 .. MaxControls] /\ disk' \in [Id -> DiskType]
  BY <1>1, <1>2 DEF TypeInv, Refers
<1>3. CASE Stop1(th) \/ Stop2(th) \/ Stop3(th) \/ Pause1(th) \/ Pause2(th) \/ Pause3(th)
  <2>1. /\ \E to \in Asking \cup {"check", "none"} : Step(th, call[th].at, to)
        /\ call[th].at \in Asking
    BY <1>3 DEF Stop1, Stop2, Stop3, Pause1, Pause2, Pause3, Step
  <2>2. /\ call' \in [Thread -> CallType]
        /\ \A x \in Thread : call'[x].ctl = call[x].ctl /\ (x # th => call'[x] = call[x])
    BY <1>0, <2>1, StepEffect
  <2>3. ctl' \in [Control -> ControlType]
    <3>1. PICK c \in Control : c = call[th].ctl /\ ctl[c] \in ControlType
      BY <1>0, <2>1
    <3>2. CASE Stop1(th) \/ Pause1(th)
      <4> DEFINE next(f, w) == [ctl[c] EXCEPT !.discard = f, !.wanted = ctl[c].wanted \cup {w}]
      <4>1. \/ ctl' = [ctl EXCEPT ![c] = next(TRUE, "stop")]
            \/ ctl' = [ctl EXCEPT ![c] = next(FALSE, "pause")]
        BY <3>1, <3>2 DEF Stop1, Pause1
      <4>2. ASSUME NEW f \in BOOLEAN, NEW w \in {"pause", "stop"} PROVE next(f, w) \in ControlType
        <5>1. ctl[c].wanted \cup {w} \in SUBSET {"pause", "stop"}
          BY <3>1 DEF ControlType
        <5> QED BY <3>1, <5>1 DEF ControlType
      <4> HIDE DEF next
      <4> QED BY <1>0, <4>1, <4>2
    <3>3. CASE Stop2(th) \/ Pause2(th)
      <4>1. ctl' = [ctl EXCEPT ![c].cancel = TRUE]
        BY <3>1, <3>3 DEF Stop2, Pause2
      <4> QED BY <1>0, <3>1, <4>1 DEF ControlType
    <3>4. CASE Stop3(th) \/ Pause3(th)
      <4>1. \E st \in TransferState : SetState(c, st)
        BY <3>1, <3>4 DEF Stop3, Pause3, SetState, TransferState
      <4> QED BY <1>0, <4>1, SetStateEffect
    <3> QED BY <1>3, <3>2, <3>3, <3>4
  <2>4. UNCHANGED <<registry, disk>>
    BY <1>3 DEF Stop1, Stop2, Stop3, Pause1, Pause2, Pause3
  <2> QED BY <1>0, <2>1, <2>2, <2>3, <2>4
<1>4. CASE DiscardCheck(th)
  <2> DEFINE c == registry[call[th].id]
             stop == c # 0 /\ ctl[c].executing
             next == [call[th] EXCEPT !.at = IF stop THEN "stop1" ELSE "temps",
                                      !.ctl = IF stop THEN c ELSE 0, !.discard = FALSE]
  <2>1. call' = [call EXCEPT ![th] = next] /\ UNCHANGED <<registry, disk, ctl>>
    BY <1>4 DEF DiscardCheck
  <2>2. c \in 0 .. MaxControls /\ 0 \in 0 .. MaxControls
    BY <1>0, Constants
  <2>3. next \in CallType /\ (next.at \in Asking => next.ctl # 0)
    BY <1>0, <2>2 DEF CallType
  <2> HIDE DEF next
  <2> QED BY <1>0, <2>1, <2>3
<1>5. CASE DiscardTemps(th) \/ DiscardRow(th) \/ DiscardUnregister(th)
  <2>1. \E from \in {"temps", "row", "unregister"}, to \in {"row", "unregister", "none"} : Step(th, from, to)
    BY <1>5 DEF DiscardTemps, DiscardRow, DiscardUnregister
  <2>2. /\ call' \in [Thread -> CallType] /\ call'[th].at \notin Asking
        /\ \A x \in Thread : x # th => call'[x] = call[x]
    BY <1>0, <2>1, StepEffect
  <2>3. registry' \in [Id -> 0 .. MaxControls] /\ ctl' = ctl
    BY <1>0, <1>5, Constants DEF DiscardTemps, DiscardRow, DiscardUnregister
  <2>4. disk' \in [Id -> DiskType]
    <3>1. /\ [disk[call[th].id] EXCEPT !.part = FALSE] \in DiskType
          /\ [disk[call[th].id] EXCEPT !.row = "none"] \in DiskType
      BY <1>0 DEF DiskType, RowState
    <3> QED BY <1>0, <1>5, <3>1 DEF DiscardTemps, DiscardRow, DiscardUnregister
  <2> QED BY <1>0, <2>2, <2>3, <2>4
<1> QED BY <1>3, <1>4, <1>5 DEF CallNext

(* The steps of reconcile. *)
LEMMA ReconcileTypes ==
    ASSUME TypeInv, ReconcileNext
    PROVE  /\ UNCHANGED <<qvars, registry, controls, ctl, run, card, commands, crashes>> /\ Refers'
           /\ call' \in [Thread -> CallType] /\ disk' \in [Id -> DiskType]
           /\ live' \subseteq Id /\ listed' \in [Id -> RowState]
<1> USE DEF Asking
<1>0. /\ call \in [Thread -> CallType] /\ disk \in [Id -> DiskType] /\ Ui \in Thread
      /\ call[Ui].id \in Id /\ call[Ui] \in CallType /\ live \subseteq Id /\ listed \in [Id -> RowState]
      /\ \A x \in Thread : call[x].at \in Asking => call[x].ctl # 0
  BY Typed, Constants DEF CallType, TypeInv, Refers
<1>1. UNCHANGED <<qvars, registry, controls, ctl, run, card, commands, crashes>>
  BY DEF ReconcileNext, ListRows, ScanRow, ReapTemp, ReapRow, Normalize, envVars
<1>2. SUFFICES /\ \A x \in Thread : call'[x].at \in Asking => call'[x].ctl # 0
               /\ call' \in [Thread -> CallType] /\ disk' \in [Id -> DiskType]
               /\ live' \subseteq Id /\ listed' \in [Id -> RowState]
  BY <1>1, <1>2 DEF TypeInv, Refers
<1>3. ASSUME NEW to \in {"reapRow", "none", "scan"}, NEW from \in {"list", "reapTemp", "reapRow", "normalize"},
             Step(Ui, from, to)
      PROVE  /\ call' \in [Thread -> CallType]
             /\ \A x \in Thread : call'[x].at \in Asking => call'[x].ctl # 0
  BY <1>0, <1>3, StepEffect
<1>4. CASE ListRows
  <2>1. \E to \in {"none", "scan"} : Step(Ui, "list", to)
    BY <1>4 DEF ListRows, NextRow
  <2>2. listed' \in [Id -> RowState]
    BY <1>0, <1>4 DEF ListRows, DiskType, RowState
  <2> QED BY <1>0, <1>3, <1>4, <2>1, <2>2 DEF ListRows
<1>5. ASSUME NEW i \in Id, ScanRow(i)
      PROVE  /\ \A x \in Thread : call'[x].at \in Asking => call'[x].ctl # 0
             /\ call' \in [Thread -> CallType] /\ disk' \in [Id -> DiskType]
             /\ live' \subseteq Id /\ listed' \in [Id -> RowState]
  <2> DEFINE at == CASE ~Keeps(listed[i], disk[i]) -> "reapTemp"
                     [] listed[i] = "running"      -> "normalize"
                     [] OTHER                      -> NextRow([listed EXCEPT ![i] = "none"])
  <2>0. call' = [call EXCEPT ![Ui] = [call[Ui] EXCEPT !.id = i, !.at = at]]
    <3>1. call' = [call EXCEPT ![Ui].id = i, ![Ui].at = at]
      BY <1>5, Zenon DEF ScanRow
    <3> HIDE DEF at
    <3> QED BY <1>0, <3>1
  <2>1. at \in {"reapTemp", "normalize", "none", "scan"}
    <3>1. CASE ~Keeps(listed[i], disk[i])  BY <3>1
    <3>2. CASE Keeps(listed[i], disk[i]) /\ listed[i] = "running"  BY <3>2
    <3>3. CASE Keeps(listed[i], disk[i]) /\ listed[i] # "running"  BY <3>3 DEF NextRow
    <3> QED BY <3>1, <3>2, <3>3
  <2> HIDE DEF at
  <2>2. /\ [call[Ui] EXCEPT !.id = i, !.at = at] \in CallType
        /\ [call[Ui] EXCEPT !.id = i, !.at = at].at = at
    BY <1>0, <2>1 DEF CallType
  <2>3. listed' \in [Id -> RowState] /\ UNCHANGED <<disk, live>>
    BY <1>0, <1>5 DEF ScanRow, RowState
  <2> QED BY <1>0, <2>0, <2>1, <2>2, <2>3
<1>6. CASE ReapTemp \/ ReapRow \/ Normalize
  <2>1. \E to \in {"reapRow", "none", "scan"}, from \in {"reapTemp", "reapRow", "normalize"} : Step(Ui, from, to)
    BY <1>6 DEF ReapTemp, ReapRow, Normalize, NextRow
  <2>2. disk' \in [Id -> DiskType]
    <3>1. PICK j \in Id : j = call[Ui].id /\ disk[j] \in DiskType
      BY <1>0
    <3>2. CASE ReapTemp \/ ReapRow
      <4>1. /\ [disk[j] EXCEPT !.part = FALSE] \in DiskType
            /\ [disk[j] EXCEPT !.row = "none"] \in DiskType
        BY <3>1 DEF DiskType, RowState
      <4> QED BY <1>0, <3>1, <3>2, <4>1 DEF ReapTemp, ReapRow
    <3>3. CASE Normalize
      <4>1. PICK i \in Id, r \in RowState \ {"none"} : SetDownloadState(i, r)
        BY <1>0, <3>3 DEF Normalize, RowState
      <4> QED BY <1>0, <4>1, SetDownloadStateEffect
    <3> QED BY <1>6, <3>2, <3>3
  <2> QED BY <1>0, <1>3, <1>6, <2>1, <2>2 DEF ReapTemp, ReapRow, Normalize, envVars
<1> QED BY <1>4, <1>5, <1>6 DEF ReconcileNext

(* Spawn moves one unborn run of the transfer to its lookup. *)
LEMMA SpawnEffect ==
    ASSUME run \in [Task -> RunType], NEW i \in Id, Spawn(i)
    PROVE  \E t \in Task : idOf[t] = i /\ run[t].pc = "unborn" /\ Goes(t, "lookup")
BY DEF Spawn, At

LEMMA CardTypes ==
    ASSUME card \in [Id -> CardType], NEW i \in Id
    PROVE  /\ NoCard \in CardType
           /\ [NoCard EXCEPT !.shown = TRUE, !.launched = TRUE] \in CardType
           /\ [card EXCEPT ![i].launched = TRUE, ![i].failed = FALSE] \in [Id -> CardType]
           /\ [card[i] EXCEPT !.running = TRUE] \in CardType
           /\ \A f \in BOOLEAN : /\ [card[i] EXCEPT !.running = FALSE, !.failed = f] \in CardType
                                 /\ [NoCard EXCEPT !.shown = f] \in CardType
<1>1. [card[i] EXCEPT !.launched = TRUE, !.failed = FALSE] \in CardType
  BY DEF CardType
<1>2. [card EXCEPT ![i].launched = TRUE, ![i].failed = FALSE] \in [Id -> CardType]
  BY <1>1
<1> QED BY <1>2 DEF NoCard, CardType

(* The steps of the user interface. *)
LEMMA UiTypes ==
    ASSUME TypeInv, UiNext
    PROVE  /\ UNCHANGED <<qvars, ctl, disk, listed, crashes>> /\ Refers'
           /\ run' \in [Task -> RunType] /\ card' \in [Id -> CardType]
           /\ call' \in [Thread -> CallType] /\ live' \subseteq Id
           /\ registry' \in [Id -> 0 .. MaxControls] /\ controls' \in 0 .. MaxControls
           /\ commands' \in 0 .. MaxCommands
<1> USE DEF Asking
<1>0. /\ run \in [Task -> RunType] /\ card \in [Id -> CardType] /\ call \in [Thread -> CallType]
      /\ registry \in [Id -> 0 .. MaxControls] /\ controls \in 0 .. MaxControls
      /\ commands \in 0 .. MaxCommands /\ live \subseteq Id /\ MaxCommands \in Nat /\ MaxControls \in Nat
      /\ Ui \in Thread
      /\ \A t \in Task : run[t].pc \notin {"unborn", "lookup", "done", "gone"} => run[t].ctl # 0
      /\ \A th \in Thread : call[th].at \in Asking => call[th].ctl # 0
  BY Typed, Constants DEF TypeInv, TypeOK, Refers
<1>1. UNCHANGED <<qvars, ctl, disk, listed, crashes>>
  BY DEF UiNext, Start, Resume, Pause, Stop, RemoveTransfer, Calling, Refresh, SyncCards,
         HandleDone, StartReconcile, envVars
<1>2. ASSUME NEW name, Command(name) PROVE commands' \in 0 .. MaxCommands
  BY <1>0, <1>2 DEF Command
<1>3. ASSUME NEW i \in Id, Spawn(i)
      PROVE  /\ run' \in [Task -> RunType]
             /\ \A t \in Task : run'[t].pc \notin {"unborn", "lookup", "done", "gone"} => run'[t].ctl # 0
  <2>1. PICK t \in Task : run[t].pc = "unborn" /\ Goes(t, "lookup")
    BY <1>0, <1>3, SpawnEffect
  <2> QED BY <1>0, <2>1, GoesEffect DEF RunPc
<1>4. ASSUME NEW i \in Id, Start(i) \/ Resume(i)
      PROVE  /\ Refers' /\ run' \in [Task -> RunType] /\ card' \in [Id -> CardType]
             /\ UNCHANGED <<call, live>> /\ commands' \in 0 .. MaxCommands
             /\ registry' \in [Id -> 0 .. MaxControls] /\ controls' \in 0 .. MaxControls
  <2>1. Spawn(i) /\ UNCHANGED <<call, live>> /\ commands' \in 0 .. MaxCommands
    BY <1>2, <1>4 DEF Start, Resume
  <2>2. card' \in [Id -> CardType]
    BY <1>0, <1>4, CardTypes DEF Start, Resume
  <2>3. registry' \in [Id -> 0 .. MaxControls] /\ controls' \in 0 .. MaxControls
    BY <1>0, <1>4 DEF Start, Resume
  <2>4. Refers'
    BY <1>0, <1>3, <2>1 DEF Refers
  <2> QED BY <1>3, <2>1, <2>2, <2>3, <2>4
<1>5. ASSUME NEW i \in Id, Pause(i) \/ Stop(i) \/ RemoveTransfer(i)
      PROVE  /\ Refers' /\ card' \in [Id -> CardType] /\ call' \in [Thread -> CallType]
             /\ UNCHANGED <<run, live, registry, controls>> /\ commands' \in 0 .. MaxCommands
  <2>1. UNCHANGED <<run, live, registry, controls>> /\ commands' \in 0 .. MaxCommands
    BY <1>2, <1>5 DEF Pause, Stop, RemoveTransfer, Calling
  <2>2. card' \in [Id -> CardType]
    BY <1>0, <1>5, CardTypes DEF Pause, Stop, RemoveTransfer
  <2>3. PICK at \in {"pause1", "stop1", "check"}, d \in BOOLEAN :
          /\ call' = [call EXCEPT ![Ui] = [at |-> at, id |-> i, ctl |-> registry[i], discard |-> d]]
          /\ at # "check" => registry[i] # 0
    BY <1>5 DEF Pause, Stop, RemoveTransfer, Calling
  <2>4. [at |-> at, id |-> i, ctl |-> registry[i], discard |-> d] \in CallType
    BY <1>0 DEF CallType
  <2>5. call' \in [Thread -> CallType] /\ Refers'
    BY <1>0, <2>1, <2>3, <2>4 DEF Refers
  <2> QED BY <2>1, <2>2, <2>5
<1>6. ASSUME NEW reg, StartReconcile(reg)
      PROVE  /\ live' \subseteq Id /\ call' \in [Thread -> CallType]
             /\ \A th \in Thread : call'[th].at \in Asking => call'[th].ctl # 0
  <2>1. [Idle EXCEPT !.at = "list"] \in CallType /\ [Idle EXCEPT !.at = "list"].at = "list"
    BY IdleType DEF Idle, CallType
  <2> QED BY <1>0, <1>6, <2>1 DEF StartReconcile
<1>7. CASE Refresh
  BY <1>0, <1>2, <1>6, <1>7 DEF Refresh, Refers
<1>8. CASE SyncCards
  <2>1. card' \in [Id -> CardType]
    BY <1>0, <1>8, CardTypes DEF SyncCards
  <2> QED BY <1>0, <1>8, <2>1 DEF SyncCards, Refers, envVars
<1>9. ASSUME NEW t \in Task, HandleDone(t)
      PROVE  /\ Refers' /\ run' \in [Task -> RunType] /\ card' \in [Id -> CardType]
             /\ call' \in [Thread -> CallType] /\ live' \subseteq Id
             /\ registry' \in [Id -> 0 .. MaxControls] /\ UNCHANGED <<controls, commands>>
  <2>1. /\ run' \in [Task -> RunType]
        /\ \A u \in Task : run'[u].pc \notin {"unborn", "lookup", "done", "gone"} => run'[u].ctl # 0
    BY <1>0, <1>9, GoesEffect DEF HandleDone, RunPc
  <2>2. /\ live' \subseteq Id /\ call' \in [Thread -> CallType]
        /\ \A th \in Thread : call'[th].at \in Asking => call'[th].ctl # 0
    BY <1>6, <1>9 DEF HandleDone
  <2>3. card' \in [Id -> CardType]
    <3>1. idOf[t] \in Id /\ card[idOf[t]].shown \in BOOLEAN
      BY <1>0, Constants DEF CardType
    <3> QED BY <1>0, <1>9, <3>1, CardTypes DEF HandleDone
  <2>4. registry' \in [Id -> 0 .. MaxControls] /\ UNCHANGED <<controls, commands>>
    <3>1. /\ registry' = registry \/ registry' = [registry EXCEPT ![idOf[t]] = 0]
          /\ UNCHANGED <<controls, commands>>
      BY <1>9, Zenon DEF HandleDone
    <3> QED BY <1>0, <3>1, Constants
  <2> QED BY <2>1, <2>2, <2>3, <2>4 DEF Refers
<1> QED BY <1>0, <1>1, <1>4, <1>5, <1>7, <1>8, <1>9 DEF UiNext, Refresh, SyncCards

(* The controls a restart registers: one each for the downloads it restores. *)
LEMMA RestoredControls ==
    ASSUME NEW S \in SUBSET Id
    PROVE  LET n == Cardinality(S)
               f == CHOOSE g \in [S -> 1 .. Cardinality(S)] : IsInjective(g)
           IN  /\ n \in 0 .. MaxControls
               /\ f \in [S -> 1 .. n]
               /\ \A i, j \in S : f[i] = f[j] => i = j
<1>1. IsFiniteSet(S) /\ Cardinality(S) \in Nat /\ Cardinality(S) <= MaxControls
  BY FS_Subset, FS_CardinalityType, TransfersAssumption DEF TransfersAssumption
<1>2. ExistsBijection(S, 1 .. Cardinality(S))
  BY <1>1, FS_CardinalityType, Fun_ExistsBijSymmetric
<1>3. \E g \in [S -> 1 .. Cardinality(S)] : IsInjective(g)
  BY <1>2 DEF ExistsBijection, Bijection, Injection
<1> DEFINE f == CHOOSE g \in [S -> 1 .. Cardinality(S)] : IsInjective(g)
<1>4. f \in [S -> 1 .. Cardinality(S)] /\ IsInjective(f)
  BY <1>3, Zenon
<1> HIDE DEF f
<1>5. f \in [S -> 1 .. Cardinality(S)] /\ \A i, j \in S : f[i] = f[j] => i = j
  BY <1>4 DEF IsInjective
<1>6. Cardinality(S) \in 0 .. MaxControls
  BY <1>1, Constants
<1> QED BY <1>5, <1>6 DEF f

LEMMA ReconciledType ==
    ASSUME NEW d \in DiskType
    PROVE  /\ Reconciled(d) \in DiskType
           /\ Reconciled(d).part = d.part /\ Reconciled(d).blob = d.blob
           /\ Reconciled(d).row = "failed" => d.row = "failed" /\ d.part
           /\ Reconciled(d).row = "none" /\ d.part => d.row = "none"
<1> DEFINE dead == d.row \notin {"none", "complete"} /\ ~Keeps(d.row, d)
           r == CASE d.row \notin {"none", "complete"} /\ ~Keeps(d.row, d) -> "none"
                  [] d.row = "running"                                    -> "paused"
                  [] OTHER                                                -> d.row
<1>0. Reconciled(d) = [d EXCEPT !.row = r]
  BY Zenon DEF Reconciled
<1>1. r = IF dead THEN "none" ELSE IF d.row = "running" THEN "paused" ELSE d.row
  <2>0. d.row = "running" => ~dead
    BY DEF Keeps
  <2>1. CASE dead  BY <2>0, <2>1
  <2>2. CASE ~dead /\ d.row = "running"  BY <2>2
  <2>3. CASE ~dead /\ d.row # "running"  BY <2>3
  <2> QED BY <2>1, <2>2, <2>3
<1> HIDE DEF r
<1> QED BY <1>0, <1>1 DEF DiskType, RowState, Keeps

(* A restart: the disk is reconciled, the restored downloads get controls of
   their own, and nothing runs. *)
LEMMA CrashEffect ==
    ASSUME TypeInv, Crash
    PROVE  /\ disk' \in [Id -> DiskType]
           /\ \A i \in Id : disk'[i] = Reconciled(disk[i])
           /\ controls' \in 0 .. MaxControls /\ registry' \in [Id -> 0 .. controls']
           /\ registry' \in [Id -> 0 .. MaxControls]
           /\ \A i, j \in Id : registry'[i] = registry'[j] /\ registry'[i] # 0 => i = j
           /\ \A i \in Id : registry'[i] # 0 <=> Resumable(disk'[i])
           /\ ctl' \in [Control -> ControlType] /\ ctl' = [c \in Control |-> NewControl]
           /\ run' \in [Task -> RunType]
           /\ \A t \in Task : /\ run'[t].pc = IF run[t].pc = "unborn" THEN "unborn" ELSE "gone"
                              /\ run'[t].ctl = 0 /\ run'[t].result = "None" /\ ~run'[t].latched
           /\ card' \in [Id -> CardType] /\ \A i \in Id : ~card'[i].running
           /\ call' \in [Thread -> CallType] /\ \A th \in Thread : call'[th] = Idle
           /\ live' = {} /\ listed' = NothingListed
           /\ qpc' = [t \in Task |-> "idle"] /\ waiting' = <<>>
<1> DEFINE after == [i \in Id |-> Reconciled(disk[i])]
           restored == {i \in Id : Resumable(after[i])}
           fresh == CHOOSE f \in [restored -> 1 .. Cardinality(restored)] : IsInjective(f)
           n == Cardinality(restored)
<1>0. disk \in [Id -> DiskType] /\ run \in [Task -> RunType] /\ card \in [Id -> CardType]
  BY Typed
<1>1. /\ disk' = after /\ controls' = n
      /\ registry' = [i \in Id |-> IF i \in restored THEN fresh[i] ELSE 0]
  BY Zenon DEF Crash
<1>2. /\ n \in 0 .. MaxControls /\ fresh \in [restored -> 1 .. n]
      /\ \A i, j \in restored : fresh[i] = fresh[j] => i = j
  <2>1. restored \in SUBSET Id
    OBVIOUS
  <2> HIDE DEF restored
  <2> QED BY <2>1, RestoredControls, Zenon
<1>3. disk' \in [Id -> DiskType] /\ \A i \in Id : disk'[i] = Reconciled(disk[i])
  BY <1>0, <1>1, ReconciledType
<1>4. restored = {i \in Id : Resumable(disk'[i])}
  BY <1>1
<1> HIDE DEF fresh, n, restored, after
<1>5. n \in Nat /\ MaxControls \in Nat /\ n <= MaxControls /\ \A i \in restored : fresh[i] \in 1 .. n /\ fresh[i] # 0
  BY <1>2, Constants
<1>6. /\ controls' \in 0 .. MaxControls /\ registry' \in [Id -> 0 .. controls']
      /\ registry' \in [Id -> 0 .. MaxControls]
  <2>1. \A i \in restored : fresh[i] \in 0 .. MaxControls /\ fresh[i] \in 0 .. n
    BY <1>5
  <2> QED BY <1>1, <1>5, <2>1
<1>7. /\ \A i, j \in Id : registry'[i] = registry'[j] /\ registry'[i] # 0 => i = j
      /\ \A i \in Id : registry'[i] # 0 <=> Resumable(disk'[i])
  BY <1>1, <1>2, <1>4, <1>5
<1>8. /\ ctl' = [c \in Control |-> NewControl] /\ ctl' \in [Control -> ControlType]
  BY DEF Crash, NewControl, ControlType, TransferState
<1>9. /\ run' \in [Task -> RunType]
      /\ \A t \in Task : /\ run'[t].pc = IF run[t].pc = "unborn" THEN "unborn" ELSE "gone"
                         /\ run'[t].ctl = 0 /\ run'[t].result = "None" /\ ~run'[t].latched
  <2>1. /\ NewRun \in RunType /\ NewRun.pc = "unborn" /\ NewRun.ctl = 0 /\ NewRun.result = "None"
        /\ ~NewRun.latched
    BY Constants DEF NewRun, RunType
  <2> DEFINE gone == [NewRun EXCEPT !.pc = "gone"]
  <2>2. /\ gone \in RunType /\ gone.pc = "gone" /\ gone.ctl = 0 /\ gone.result = "None"
        /\ ~gone.latched
    BY <2>1 DEF RunType, NewRun
  <2>3. run' = [t \in Task |-> IF run[t].pc = "unborn" THEN NewRun ELSE gone]
    BY Zenon DEF Crash, At
  <2> HIDE DEF gone
  <2> QED BY <2>1, <2>2, <2>3
<1>10. card' \in [Id -> CardType] /\ \A i \in Id : ~card'[i].running
  <2>1. \A f \in BOOLEAN : [NoCard EXCEPT !.shown = f] \in CardType /\ ~[NoCard EXCEPT !.shown = f].running
    BY DEF NoCard, CardType
  <2>2. card' = [i \in Id |-> [NoCard EXCEPT !.shown = i \in restored]]
    BY Zenon DEF Crash, restored, after
  <2>3. \A i \in Id : (i \in restored) \in BOOLEAN
    OBVIOUS
  <2>4. \A i \in Id : card'[i] \in CardType /\ ~card'[i].running
    BY <2>1, <2>2, <2>3
  <2> QED BY <2>2, <2>4
<1>11. call' \in [Thread -> CallType] /\ \A th \in Thread : call'[th] = Idle
  BY IdleType DEF Crash
<1>12. live' = {} /\ listed' = NothingListed /\ qpc' = [t \in Task |-> "idle"] /\ waiting' = <<>>
  BY DEF Crash
<1> QED BY <1>3, <1>6, <1>7, <1>8, <1>9, <1>10, <1>11, <1>12

(* After a restart every slot is free again. *)
LEMMA CrashPermits ==
    ASSUME PermitInv, Crash
    PROVE  PermitInv'
<1>1. /\ permits' = SlotCount /\ waiting' = <<>> /\ reorderNotify' = FALSE
      /\ woken' = [t \in Task |-> FALSE] /\ qpc' = [t \in Task |-> "idle"] /\ reorders' = reorders
  BY DEF Crash
<1>2. {t \in Task : qpc'[t] \in Owning} = {}
  BY <1>1 DEF Owning
<1>3. SlotsConserved'
  BY <1>1, <1>2, FS_EmptySet, SlotCountPositive DEF SlotsConserved
<1>4. QTypeOK'
  <2>1. permits' \in 0 .. SlotCount /\ waiting' \in Seq(Id)
    BY <1>1, SlotCountPositive, EmptySeq
  <2> QED BY <1>1, <2>1 DEF PermitInv, QTypeOK, QueuePc
<1> QED BY <1>3, <1>4 DEF PermitInv

TransferInv == TypeInv /\ SlotsConserved

LEMMA TransferInit == Init => TransferInv
<1> SUFFICES ASSUME Init PROVE TransferInv
  OBVIOUS
<1>1. QTypeOK /\ SlotsConserved
  BY PermitInit DEF Init, PermitInv
<1>2. ctl \in [Control -> ControlType] /\ run \in [Task -> RunType] /\ disk \in [Id -> DiskType]
  BY Constants DEF Init, NewControl, ControlType, TransferState, NewRun, RunType, DiskType, RowState
<1>3. card \in [Id -> CardType] /\ call \in [Thread -> CallType] /\ listed \in [Id -> RowState]
  BY IdleType DEF Init, NoCard, CardType, NothingListed, RowState
<1>4. TypeOK
  BY <1>1, <1>2, <1>3, Constants DEF Init, TypeOK
<1>5. Refers
  BY DEF Init, Refers, NewRun, Idle, Asking
<1> QED BY <1>1, <1>4, <1>5 DEF TransferInv, TypeInv

LEMMA TransferStep == TransferInv /\ [Next]_tvars => TransferInv'
<1> SUFFICES ASSUME TransferInv, [Next]_tvars PROVE TransferInv'
  OBVIOUS
<1>0. TypeInv /\ PermitInv
  BY DEF TransferInv, TypeInv, TypeOK, PermitInv
<1>1. PermitInv'
  <2>1. CASE Crash
    BY <1>0, <2>1, CrashPermits
  <2>2. CASE ~Crash
    BY <1>0, <2>2, QueueStep, PermitStep
  <2> QED BY <2>1, <2>2
<1>2. /\ registry \in [Id -> 0 .. MaxControls] /\ controls \in 0 .. MaxControls
      /\ ctl \in [Control -> ControlType] /\ run \in [Task -> RunType]
      /\ disk \in [Id -> DiskType] /\ card \in [Id -> CardType] /\ call \in [Thread -> CallType]
      /\ live \subseteq Id /\ listed \in [Id -> RowState] /\ commands \in 0 .. MaxCommands
      /\ crashes \in 0 .. MaxCrashes /\ Refers
  BY <1>0, Typed DEF TypeInv, TypeOK
<1> DEFINE Goal == /\ registry' \in [Id -> 0 .. MaxControls] /\ controls' \in 0 .. MaxControls
                   /\ ctl' \in [Control -> ControlType] /\ run' \in [Task -> RunType]
                   /\ disk' \in [Id -> DiskType] /\ card' \in [Id -> CardType]
                   /\ call' \in [Thread -> CallType] /\ live' \subseteq Id
                   /\ listed' \in [Id -> RowState] /\ commands' \in 0 .. MaxCommands
                   /\ crashes' \in 0 .. MaxCrashes /\ Refers'
<1>3. Goal
  <2>1. ASSUME NEW t \in Task, RunNext(t) PROVE Goal
    <3>1. CASE \/ Lookup(t) \/ Interrupted(t) \/ Discover(t) \/ ReadState(t) \/ NoticeCancel(t)
               \/ FinishCancelled(t) \/ LatchDiscard(t)
      <4>1. UNCHANGED <<registry, controls, ctl, disk, card, call, live, listed, commands, crashes>>
        BY <3>1 DEF Lookup, Interrupted, Discover, ReadState, NoticeCancel, FinishCancelled,
                    LatchDiscard, envVars
      <4> QED BY <1>0, <1>2, <3>1, <4>1, MoveTypes
    <3>2. CASE \/ TryBegin(t) \/ ClearCancel(t) \/ ClearDiscard(t) \/ SetQueued(t) \/ Connect(t)
               \/ StoreDownloading(t) \/ FinalState(t)
      <4>1. UNCHANGED <<registry, controls, disk, card, call, live, listed, commands, crashes>>
        BY <3>2 DEF TryBegin, ClearCancel, ClearDiscard, SetQueued, Connect, StoreDownloading,
                    FinalState, envVars
      <4> QED BY <1>0, <1>2, <3>2, <4>1, ControlTypes
    <3>3. CASE \/ UpsertDownload(t) \/ WriteBytes(t) \/ CommitBlob(t) \/ SetComplete(t)
               \/ SourcesExhausted(t) \/ FinishRemoveTemp(t) \/ FinishDeleteRow(t) \/ FinishPause(t)
      <4>1. UNCHANGED <<registry, controls, ctl, card, call, live, listed, commands, crashes>>
        BY <3>3 DEF UpsertDownload, WriteBytes, CommitBlob, SetComplete, SourcesExhausted,
                    FinishRemoveTemp, FinishDeleteRow, FinishPause, envVars
      <4> QED BY <1>0, <1>2, <3>3, <4>1, DiskTypes
    <3>4. CASE \/ WaitForSlot(t) \/ DropPermit(t) \/ DropPermitNotify(t) \/ UnregisterStopped(t)
               \/ EndExecution(t) \/ LeaveQueue(t) \/ LeaveNotify(t)
      <4>1. UNCHANGED <<controls, disk, card, live, listed, commands, crashes>>
        BY <3>4 DEF WaitForSlot, DropPermit, DropPermitNotify, UnregisterStopped, EndExecution,
                    LeaveQueue, LeaveNotify, envVars
      <4> QED BY <1>0, <1>2, <3>4, <4>1, EndTypes
    <3> QED BY <2>1, <3>1, <3>2, <3>3, <3>4 DEF RunNext
  <2>2. ASSUME NEW th \in Thread, CallNext(th) PROVE Goal
    BY <1>0, <1>2, <2>2, CallTypes DEF envVars
  <2>3. CASE ReconcileNext
    BY <1>0, <1>2, <2>3, ReconcileTypes
  <2>4. CASE UiNext
    BY <1>0, <1>2, <2>4, UiTypes
  <2>5. CASE Crash
    <3>1. /\ listed' \in [Id -> RowState] /\ live' \subseteq Id
      BY <1>0, <2>5, CrashEffect DEF NothingListed, RowState
    <3>2. Refers'
      <4>1. Idle.at = "none"
        BY DEF Idle
      <4> QED BY <1>0, <2>5, <4>1, CrashEffect DEF Refers, Asking
    <3>3. commands' \in 0 .. MaxCommands /\ crashes' \in 0 .. MaxCrashes
      BY <1>2, <2>5, Constants DEF Crash
    <3> QED BY <1>0, <2>5, <3>1, <3>2, <3>3, CrashEffect
  <2>6. CASE UNCHANGED tvars
    BY <1>2, <2>6 DEF tvars, envVars, Refers
  <2> QED BY <2>1, <2>2, <2>3, <2>4, <2>5, <2>6 DEF Next
<1> QED BY <1>1, <1>3 DEF TransferInv, TypeInv, TypeOK, PermitInv

(* The life of a transfer keeps its types: a run past its lookup always has a
   control to drive, whoever removes, stops or restarts the transfer. *)
THEOREM TransfersTypeCorrect == Spec => []TypeOK
<1>1. TransferInv => TypeOK
  BY DEF TransferInv, TypeInv
<1> QED BY <1>1, TransferInit, TransferStep, PTL DEF Spec

----------------------------------------------------------------------------
(* `executing` *)

(* A step of a run leaves the others alone, and touches the executing flag and
   what it executes only when it begins or ends. *)
SameExecution ==
    /\ \A c \in Control : ctl'[c].executing = ctl[c].executing
    /\ \A t \in Task : /\ run'[t].pc \in Executing <=> run[t].pc \in Executing
                       /\ run[t].pc \in Executing => run'[t].ctl = run[t].ctl

LEMMA RunLeavesOthers ==
    ASSUME TypeInv, NEW t \in Task, RunNext(t)
    PROVE  \A u \in Task : u # t => run'[u] = run[u]
BY Typed DEF RunNext, Lookup, TryBegin, ClearCancel, ClearDiscard, SetQueued, WaitForSlot, Connect,
       Interrupted, Discover, UpsertDownload, ReadState, StoreDownloading, WriteBytes, CommitBlob,
       SetComplete, SourcesExhausted, NoticeCancel, FinishCancelled, FinishRemoveTemp,
       FinishDeleteRow, FinishPause, DropPermit, DropPermitNotify, FinalState, UnregisterStopped,
       LatchDiscard, EndExecution, LeaveQueue, LeaveNotify, Goes, Returns

(* The program points a run goes through. *)
LEMMA RunPoints ==
    ASSUME TypeInv, NEW t \in Task, RunNext(t)
    PROVE  /\ Lookup(t) => run[t].pc = "lookup" /\ run'[t].pc \in {"begin", "done"}
           /\ TryBegin(t) => run[t].pc = "begin" /\ run'[t].pc \in {"clearCancel", "done"}
           /\ ClearCancel(t) => run[t].pc = "clearCancel" /\ run'[t].pc = "clearDiscard"
           /\ ClearDiscard(t) => run[t].pc = "clearDiscard" /\ run'[t].pc = "setQueued"
           /\ SetQueued(t) => run[t].pc = "setQueued" /\ run'[t].pc = "select"
           /\ WaitForSlot(t) => run[t].pc = "select" /\ run'[t].pc = "select"
           /\ Connect(t) => run[t].pc = "select" /\ run'[t].pc = "discover"
           /\ Interrupted(t) => run[t].pc = "select" /\ run'[t].pc = "final"
           /\ Discover(t) => run[t].pc = "discover" /\ run'[t].pc \in {"release", "upsert"}
           /\ UpsertDownload(t) => run[t].pc = "upsert" /\ run'[t].pc = "mark"
           /\ ReadState(t) => run[t].pc = "mark" /\ run'[t].pc \in {"stream", "markSet"}
           /\ StoreDownloading(t) => run[t].pc = "markSet" /\ run'[t].pc = "stream"
           /\ WriteBytes(t) => run[t].pc = "stream" /\ run'[t].pc = "stream"
           /\ CommitBlob(t) => run[t].pc = "stream" /\ run'[t].pc = "complete"
           /\ SetComplete(t) => run[t].pc = "complete" /\ run'[t].pc = "release"
           /\ SourcesExhausted(t) => run[t].pc = "stream" /\ run'[t].pc = "release"
           /\ NoticeCancel(t) => run[t].pc = "stream" /\ run'[t].pc = "fin"
           /\ FinishCancelled(t) => run[t].pc = "fin" /\ run'[t].pc \in {"finTemp", "finPause"}
           /\ FinishRemoveTemp(t) => run[t].pc = "finTemp" /\ run'[t].pc = "finRow"
           /\ FinishDeleteRow(t) => run[t].pc = "finRow" /\ run'[t].pc = "release"
           /\ FinishPause(t) => run[t].pc = "finPause" /\ run'[t].pc = "release"
           /\ DropPermit(t) => run[t].pc = "release" /\ run'[t].pc = "notify"
           /\ DropPermitNotify(t) => run[t].pc = "notify" /\ run'[t].pc = "final"
           /\ FinalState(t) => run[t].pc = "final" /\ run'[t].pc \in {"unregister", "latch"}
           /\ UnregisterStopped(t) => run[t].pc = "unregister" /\ run'[t].pc = "latch"
           /\ LatchDiscard(t) => run[t].pc = "latch" /\ run'[t].pc = "end"
           /\ EndExecution(t) => run[t].pc = "end" /\ run'[t].pc \in {"tail", "done"}
           /\ LeaveQueue(t) => run[t].pc = "tail" /\ run'[t].pc \in {"left", "done"}
           /\ LeaveNotify(t) => run[t].pc = "left" /\ run'[t].pc = "done"
<1>1. run \in [Task -> RunType] /\ run[t] \in RunType
  BY Typed
<1>2. \A pc \in RunPc : Goes(t, pc) => run'[t].pc = pc
  BY <1>1 DEF Goes, RunType
<1>3. ASSUME NEW pc \in RunPc, NEW r, Returns(t, r, pc) PROVE run'[t].pc = pc
  BY <1>1, <1>3 DEF Returns, RunType
<1>4. /\ Lookup(t) => run[t].pc = "lookup" /\ run'[t].pc \in {"begin", "done"}
      /\ LatchDiscard(t) => run[t].pc = "latch" /\ run'[t].pc = "end"
  <2>1. /\ Lookup(t) => \/ run'[t] = [run[t] EXCEPT !.pc = "done", !.result = "Failed"]
                        \/ run'[t] = [run[t] EXCEPT !.pc = "begin", !.ctl = registry[idOf[t]]]
        /\ LatchDiscard(t) => run'[t] = [run[t] EXCEPT !.pc = "end", !.latched = Driven(t).discard]
    BY <1>1 DEF Lookup, LatchDiscard
  <2> QED BY <1>1, <2>1 DEF Lookup, LatchDiscard, At, RunType
<1>5. WaitForSlot(t) \/ WriteBytes(t) => run'[t] = run[t]
  BY DEF WaitForSlot, WriteBytes
<1> QED BY <1>2, <1>3, <1>4, <1>5
    DEF TryBegin, ClearCancel, ClearDiscard, SetQueued, WaitForSlot, Connect,
       Interrupted, Discover, UpsertDownload, ReadState, StoreDownloading, WriteBytes, CommitBlob,
       SetComplete, SourcesExhausted, NoticeCancel, FinishCancelled, FinishRemoveTemp,
       FinishDeleteRow, FinishPause, DropPermit, DropPermitNotify, FinalState, UnregisterStopped,
       EndExecution, LeaveQueue, LeaveNotify, At, RunPc

(* Only the lookup gives a run a control. *)
LEMMA RunKeepsControl ==
    ASSUME TypeInv, NEW t \in Task, RunNext(t), ~Lookup(t)
    PROVE  run'[t].ctl = run[t].ctl
<1>1. run \in [Task -> RunType] /\ run[t] \in RunType
  BY Typed
<1>2. \A pc : Goes(t, pc) => run'[t].ctl = run[t].ctl
  BY <1>1 DEF Goes, RunType
<1>3. \A r, pc : Returns(t, r, pc) => run'[t].ctl = run[t].ctl
  BY <1>1 DEF Returns, RunType
<1>4. LatchDiscard(t) => run'[t].ctl = run[t].ctl
  BY <1>1 DEF LatchDiscard, RunType
<1>5. WaitForSlot(t) \/ WriteBytes(t) => run'[t] = run[t]
  BY DEF WaitForSlot, WriteBytes
<1> QED BY <1>2, <1>3, <1>4, <1>5
    DEF RunNext, TryBegin, ClearCancel, ClearDiscard, SetQueued, Connect,
       Interrupted, Discover, UpsertDownload, ReadState, StoreDownloading, CommitBlob,
       SetComplete, SourcesExhausted, NoticeCancel, FinishCancelled, FinishRemoveTemp,
       FinishDeleteRow, FinishPause, DropPermit, DropPermitNotify, FinalState, UnregisterStopped,
       EndExecution, LeaveQueue, LeaveNotify

(* The user interface starts runs and forgets finished ones. *)
LEMMA UiRuns ==
    ASSUME TypeInv, UiNext
    PROVE  \A t \in Task :
             /\ run'[t].ctl = run[t].ctl /\ run'[t].result = run[t].result
             /\ run'[t].latched = run[t].latched
             /\ \/ run'[t] = run[t]
                \/ run[t].pc = "unborn" /\ run'[t].pc = "lookup"
                \/ run[t].pc = "done" /\ run'[t].pc = "gone"
<1>0. run \in [Task -> RunType]
  BY Typed
<1>1. ASSUME NEW i \in Id, Start(i) \/ Resume(i)
      PROVE  \E t \in Task : run[t].pc = "unborn" /\ Goes(t, "lookup")
  BY <1>0, <1>1, SpawnEffect DEF Start, Resume
<1>2. ASSUME NEW t \in Task, HandleDone(t)
      PROVE  run[t].pc = "done" /\ Goes(t, "gone")
  BY <1>2 DEF HandleDone, At
<1>3. CASE \/ Refresh \/ SyncCards \/ \E i \in Id : Pause(i) \/ Stop(i) \/ RemoveTransfer(i)
  BY <1>3 DEF Refresh, SyncCards, Pause, Stop, RemoveTransfer, Calling
<1> QED BY <1>0, <1>1, <1>2, <1>3, GoesEffect DEF UiNext, RunPc

(* A pause, a stop or a discard does not touch the executing flag. *)
LEMMA CallKeepsExecuting ==
    ASSUME TypeInv, NEW th \in Thread, CallNext(th)
    PROVE  \A c \in Control : ctl'[c].executing = ctl[c].executing
<1>0. /\ ctl \in [Control -> ControlType]
      /\ call[th].at \in Asking => call[th].ctl \in Control
  BY Typed
<1>1. CASE Stop1(th) \/ Stop2(th) \/ Stop3(th) \/ Pause1(th) \/ Pause2(th) \/ Pause3(th)
  BY <1>0, <1>1 DEF Stop1, Stop2, Stop3, Pause1, Pause2, Pause3, ControlType
<1>2. CASE ~(Stop1(th) \/ Stop2(th) \/ Stop3(th) \/ Pause1(th) \/ Pause2(th) \/ Pause3(th))
  BY <1>2 DEF CallNext, DiscardCheck, DiscardTemps, DiscardRow, DiscardUnregister
<1> QED BY <1>1, <1>2

(* The steps of a run that neither begin nor end it. *)
LEMMA RunKeepsExecuting ==
    ASSUME TypeInv, NEW t \in Task, RunNext(t), ~TryBegin(t), ~EndExecution(t)
    PROVE  SameExecution
<1>0. ctl \in [Control -> ControlType] /\ run \in [Task -> RunType]
  BY Typed
<1>1. \A c \in Control : ctl'[c].executing = ctl[c].executing
  <2>1. CASE SetQueued(t) \/ Connect(t) \/ StoreDownloading(t) \/ FinalState(t)
    <3>1. \E s \in TransferState : SetState(run[t].ctl, s)
      BY <2>1 DEF SetQueued, Connect, StoreDownloading, FinalState, TransferState
    <3>2. run[t].ctl \in Control
      BY <2>1, Typed DEF SetQueued, Connect, StoreDownloading, FinalState, At
    <3> QED BY <1>0, <3>1, <3>2, SetStateEffect
  <2>2. CASE ClearCancel(t) \/ ClearDiscard(t)
    BY <1>0, <2>2 DEF ClearCancel, ClearDiscard, ControlType
  <2>3. CASE UNCHANGED ctl
    BY <2>3
  <2> QED BY <2>1, <2>2, <2>3
       DEF RunNext, Lookup, WaitForSlot, Interrupted, Discover, UpsertDownload, ReadState, WriteBytes,
           CommitBlob, SetComplete, SourcesExhausted, NoticeCancel, FinishCancelled, FinishRemoveTemp,
           FinishDeleteRow, FinishPause, DropPermit, DropPermitNotify, UnregisterStopped,
           LatchDiscard, LeaveQueue, LeaveNotify
<1>2. /\ run'[t].pc \in Executing <=> run[t].pc \in Executing
      /\ run[t].pc \in Executing => run'[t].ctl = run[t].ctl
  <2>1. run'[t].pc \in Executing <=> run[t].pc \in Executing
    BY RunPoints DEF RunNext, Executing
  <2>2. run[t].pc \in Executing => ~Lookup(t)
    BY DEF Executing, Lookup, At
  <2> QED BY <2>1, <2>2, RunKeepsControl
<1> QED BY <1>1, <1>2, RunLeavesOthers DEF SameExecution

(* The flag is set exactly while a run executes, and for one run only. *)
ExecInv ==
    \A c \in Control :
        /\ ctl[c].executing <=> \E t \in Task : run[t].pc \in Executing /\ run[t].ctl = c
        /\ \A t, u \in Task :
              /\ run[t].pc \in Executing /\ run[t].ctl = c
              /\ run[u].pc \in Executing /\ run[u].ctl = c
              => t = u

LEMMA ExecStep == TransferInv /\ ExecInv /\ [Next]_tvars => ExecInv'
<1> SUFFICES ASSUME TransferInv, ExecInv, [Next]_tvars PROVE ExecInv'
  OBVIOUS
<1>0. /\ TypeInv /\ ctl \in [Control -> ControlType] /\ run \in [Task -> RunType]
      /\ call \in [Thread -> CallType]
  BY Typed DEF TransferInv
<1>1. CASE SameExecution
  BY <1>1 DEF ExecInv, SameExecution
<1>2. ASSUME NEW t \in Task, TryBegin(t) PROVE ExecInv'
  <2>0. /\ run[t].ctl \in Control /\ run[t].pc = "begin" /\ run'[t].ctl = run[t].ctl
        /\ \A u \in Task : u # t => run'[u] = run[u]
    BY <1>0, <1>2, Typed, RunLeavesOthers, RunKeepsControl DEF RunNext, TryBegin, Lookup, At
  <2>1. CASE Driven(t).executing
    <3>1. ctl' = ctl /\ run'[t].pc = "done"
      BY <1>0, <1>2, <2>1, ReturnsEffect DEF TryBegin, RunPc
    <3> QED BY <2>0, <3>1 DEF ExecInv, Executing
  <2>2. CASE ~Driven(t).executing
    <3>1. /\ run'[t].pc = "clearCancel"
          /\ ctl' = [ctl EXCEPT ![run[t].ctl] =
                        [ctl[run[t].ctl] EXCEPT !.executing = TRUE, !.wanted = {}]]
      BY <1>0, <1>2, <2>2, GoesEffect DEF TryBegin, RunPc
    <3>2. /\ ctl'[run[t].ctl].executing
          /\ \A c \in Control : c # run[t].ctl => ctl'[c] = ctl[c]
      BY <1>0, <2>0, <3>1 DEF ControlType
    <3> QED BY <2>0, <2>2, <3>1, <3>2 DEF ExecInv, Executing, Driven
  <2> QED BY <2>1, <2>2
<1>3. ASSUME NEW t \in Task, EndExecution(t) PROVE ExecInv'
  <2>0. /\ run[t].ctl \in Control /\ run[t].pc = "end" /\ run'[t].ctl = run[t].ctl
        /\ run'[t].pc \in {"tail", "done"}
        /\ \A u \in Task : u # t => run'[u] = run[u]
    BY <1>0, <1>3, Typed, RunLeavesOthers, RunKeepsControl, RunPoints DEF RunNext, EndExecution, Lookup, At
  <2>1. /\ ~ctl'[run[t].ctl].executing
        /\ \A c \in Control : c # run[t].ctl => ctl'[c] = ctl[c]
    BY <1>0, <1>3, <2>0 DEF EndExecution, ControlType
  <2> QED BY <2>0, <2>1 DEF ExecInv, Executing
<1>4. ASSUME NEW t \in Task, RunNext(t) PROVE ExecInv'
  BY <1>0, <1>1, <1>2, <1>3, <1>4, RunKeepsExecuting
<1>5. ASSUME NEW th \in Thread, CallNext(th) PROVE ExecInv'
  BY <1>0, <1>1, <1>5, CallKeepsExecuting, CallTypes DEF SameExecution
<1>6. CASE ReconcileNext
  BY <1>0, <1>1, <1>6, ReconcileTypes DEF SameExecution
<1>7. CASE UiNext
  BY <1>0, <1>1, <1>7, UiTypes, UiRuns DEF SameExecution, Executing
<1>8. CASE Crash
  <2>1. \A c \in Control : ~ctl'[c].executing
    BY <1>0, <1>8, CrashEffect DEF NewControl
  <2>2. \A t \in Task : run'[t].pc \notin Executing
    BY <1>0, <1>8, CrashEffect DEF Executing
  <2> QED BY <2>1, <2>2 DEF ExecInv
<1>9. CASE UNCHANGED tvars
  BY <1>1, <1>9 DEF SameExecution, tvars
<1> QED BY <1>4, <1>5, <1>6, <1>7, <1>8, <1>9 DEF Next

LEMMA ExecInit == Init => ExecInv
BY DEF Init, ExecInv, NewControl, NewRun, Executing

(* The invariant says what the counting form says. *)
LEMMA ExecCounts == TransferInv /\ ExecInv => ExecutingIsExact
<1> SUFFICES ASSUME ExecInv, NEW c \in Control
             PROVE  LET drivers == {t \in Task : run[t].pc \in Executing /\ run[t].ctl = c} IN
                    /\ ctl[c].executing <=> drivers # {}
                    /\ Cardinality(drivers) <= 1
  BY DEF ExecutingIsExact
<1> DEFINE drivers == {t \in Task : run[t].pc \in Executing /\ run[t].ctl = c}
<1>1. ctl[c].executing <=> drivers # {}
  BY DEF ExecInv
<1>2. CASE drivers = {}
  BY <1>1, <1>2, FS_EmptySet
<1>3. CASE drivers # {}
  <2>1. PICK t \in Task : drivers = {t}
    BY <1>3 DEF ExecInv
  <2>2. Cardinality(drivers) = 1
    BY <2>1, FS_Singleton
  <2> QED BY <1>1, <2>2
<1> QED BY <1>2, <1>3

(* try_begin and ExecGuard: `executing` is set exactly while one run drives the
   control, for any number of runs, pauses, stops, removals and restarts. *)
THEOREM ExecutingExact == Spec => []ExecutingIsExact
<1>1. Init => TransferInv /\ ExecInv
  BY TransferInit, ExecInit
<1>2. TransferInv /\ ExecInv /\ [Next]_tvars => (TransferInv /\ ExecInv)'
  BY TransferStep, ExecStep
<1> QED BY <1>1, <1>2, ExecCounts, PTL DEF Spec

----------------------------------------------------------------------------
(* The queue and the runs *)

(* Where a run is in the queue, for every point it can be at: it holds a
   permit exactly while it downloads; an interrupted one is still parked until
   its tail drops the acquire future. *)
Outside == {"unborn", "lookup", "begin", "clearCancel", "clearDiscard", "setQueued", "done", "gone"}
Ending == {"final", "unregister", "latch", "end", "tail"}

SlotLink ==
    \A t \in Task :
        /\ run[t].pc \in Outside => qpc[t] = "idle"
        /\ run[t].pc \in Downloading => qpc[t] = "held"
        /\ run[t].pc = "notify" => qpc[t] = "released"
        /\ run[t].pc = "left" => qpc[t] = "dropped"
        /\ run[t].pc \in Ending => qpc[t] \in {"idle", "parked"}
        /\ run[t].pc = "select" => qpc[t] \notin {"released", "dropped"}

LEMMA AcquireMoves ==
    ASSUME QTypeOK, NEW t \in Task, Enqueue(t) \/ AcquireStep(t)
    PROVE  /\ qpc'[t] \in QueuePc \ {"idle", "released", "dropped"}
           /\ \A u \in Task : u # t => qpc'[u] = qpc[u]
BY DEF QTypeOK, AcquireStep, Enqueue, NotifyEnqueued, Register, CheckFront, TryAcquire, Dequeue,
       Announce, Wake, Goto, QueuePc

LEMMA LinkStep == TransferInv /\ SlotLink /\ [Next]_tvars => SlotLink'
<1> SUFFICES ASSUME TransferInv, SlotLink, [Next]_tvars PROVE SlotLink'
  OBVIOUS
<1> USE DEF Outside, Ending, Downloading, Writing
<1>0. TypeInv /\ QTypeOK /\ qpc \in [Task -> QueuePc]
  BY DEF TransferInv, TypeInv, TypeOK, QTypeOK
<1>1. ASSUME NEW t \in Task, RunNext(t) PROVE SlotLink'
  <2>0. \A u \in Task : u # t => run'[u] = run[u]
    BY <1>0, <1>1, RunLeavesOthers
  <2>1. CASE WaitForSlot(t)
    <3>1. run'[t].pc = "select"
      BY <1>0, <1>1, <2>1, RunPoints
    <3> QED BY <1>0, <2>0, <2>1, <3>1, AcquireMoves DEF WaitForSlot, SlotLink
  <2>2. CASE DropPermit(t)
    <3>1. run'[t].pc = "notify"
      BY <1>0, <1>1, <2>2, RunPoints
    <3> QED BY <1>0, <2>0, <2>2, <3>1 DEF DropPermit, ReleasePermit, Goto, SlotLink
  <2>3. CASE DropPermitNotify(t)
    <3>1. run'[t].pc = "final"
      BY <1>0, <1>1, <2>3, RunPoints
    <3> QED BY <1>0, <2>0, <2>3, <3>1 DEF DropPermitNotify, NotifyReleased, Goto, SlotLink
  <2>4. CASE LeaveQueue(t)
    <3>1. CASE qpc[t] = "parked"
      <4>1. run'[t].pc = "left" /\ qpc' = [qpc EXCEPT ![t] = "dropped"]
        BY <1>0, <2>4, <3>1, GoesEffect, Typed DEF LeaveQueue, DropAcquire, Goto, RunPc
      <4> QED BY <1>0, <2>0, <4>1 DEF SlotLink
    <3>2. CASE qpc[t] # "parked"
      <4>1. run'[t].pc = "done" /\ qpc' = qpc /\ qpc[t] = "idle"
        BY <1>0, <2>4, <3>2, GoesEffect, Typed DEF LeaveQueue, qvars, RunPc
      <4> QED BY <1>0, <2>0, <4>1 DEF SlotLink
    <3> QED BY <3>1, <3>2
  <2>5. CASE LeaveNotify(t)
    <3>1. run'[t].pc = "done"
      BY <1>0, <1>1, <2>5, RunPoints
    <3> QED BY <1>0, <2>0, <2>5, <3>1 DEF LeaveNotify, NotifyDropped, Goto, SlotLink
  <2>6. CASE EndExecution(t)
    <3>1. /\ run'[t].pc \in {"tail", "done"} /\ run[t].pc = "end" /\ qpc' = qpc
          /\ run'[t].pc = "done" => qpc[t] # "parked"
      BY <1>0, <2>6, GoesEffect, Typed DEF EndExecution, At, qvars, RunPc
    <3> QED BY <1>0, <2>0, <3>1 DEF SlotLink
  <2>7. CASE Connect(t) \/ Interrupted(t)
    <3>1. /\ qpc' = qpc /\ run'[t].pc \in {"discover", "final"}
          /\ run'[t].pc = "discover" => qpc[t] = "held"
          /\ run'[t].pc = "final" => qpc[t] \in {"idle", "parked"}
      BY <1>0, <1>1, <2>7, RunPoints DEF Connect, Interrupted, qvars
    <3> QED BY <1>0, <2>0, <3>1 DEF SlotLink
  <2>8. CASE \/ Lookup(t) \/ TryBegin(t) \/ ClearCancel(t) \/ ClearDiscard(t) \/ SetQueued(t)
             \/ Discover(t) \/ UpsertDownload(t) \/ ReadState(t) \/ StoreDownloading(t)
             \/ WriteBytes(t) \/ CommitBlob(t) \/ SetComplete(t) \/ SourcesExhausted(t)
             \/ NoticeCancel(t) \/ FinishCancelled(t) \/ FinishRemoveTemp(t)
             \/ FinishDeleteRow(t) \/ FinishPause(t) \/ FinalState(t) \/ UnregisterStopped(t)
             \/ LatchDiscard(t)
    <3>1. qpc' = qpc
      BY <2>8 DEF Lookup, TryBegin, ClearCancel, ClearDiscard, SetQueued, Discover, UpsertDownload,
         ReadState, StoreDownloading, WriteBytes, CommitBlob, SetComplete, SourcesExhausted,
         NoticeCancel, FinishCancelled, FinishRemoveTemp, FinishDeleteRow, FinishPause, FinalState,
         UnregisterStopped, LatchDiscard, qvars
    <3>2. \/ run[t].pc \in Outside /\ run'[t].pc \in Outside \cup {"select"}
          \/ run[t].pc \in Downloading /\ run'[t].pc \in Downloading
          \/ run[t].pc \in Ending /\ run'[t].pc \in Ending
      BY <1>0, <1>1, <2>8, RunPoints
    <3> QED BY <1>0, <2>0, <3>1, <3>2 DEF SlotLink
  <2> QED BY <1>1, <2>1, <2>2, <2>3, <2>4, <2>5, <2>6, <2>7, <2>8 DEF RunNext
<1>2. ASSUME NEW th \in Thread, CallNext(th) PROVE SlotLink'
  <2>1. UNCHANGED <<run, qpc>>
    BY <1>2 DEF CallNext, Stop1, Stop2, Stop3, Pause1, Pause2, Pause3, DiscardCheck, DiscardTemps,
              DiscardRow, DiscardUnregister, qvars
  <2> QED BY <2>1 DEF SlotLink
<1>3. CASE ReconcileNext
  BY <1>0, <1>3, ReconcileTypes DEF SlotLink, qvars
<1>4. CASE UiNext
  BY <1>0, <1>4, UiTypes, UiRuns DEF SlotLink, qvars
<1>5. CASE Crash
  BY <1>0, <1>5, CrashEffect DEF SlotLink
<1>6. CASE UNCHANGED tvars
  BY <1>6 DEF SlotLink, tvars, qvars
<1> QED BY <1>1, <1>2, <1>3, <1>4, <1>5, <1>6 DEF Next

LEMMA LinkInit == Init => SlotLink
BY DEF Init, QInit, SlotLink, NewRun, Outside, Ending, Downloading, Writing

(* Whoever downloads owns a permit. *)
LEMMA LimitHolds == TransferInv /\ SlotLink => DownloadLimit
<1> SUFFICES ASSUME TransferInv, SlotLink PROVE DownloadLimit
  OBVIOUS
<1> DEFINE D == {t \in Task : run[t].pc \in Downloading}
<1>1. D \subseteq Owners
  BY DEF SlotLink, Owners, Owning
<1>2. Cardinality(D) <= Cardinality(Owners) /\ Cardinality(D) \in Nat
  BY <1>1, OwnersCount, FS_Subset, FS_CardinalityType
<1>3. permits + Cardinality(Owners) = SlotCount /\ permits \in Nat
  BY SlotCountPositive DEF TransferInv, SlotsConserved, Owners, TypeInv, TypeOK, QTypeOK
<1> QED BY <1>2, <1>3, OwnersCount DEF DownloadLimit

(* The download limit holds: no more runs download than there are slots,
   whatever is paused, stopped, discarded, reordered or restarted meanwhile. *)
THEOREM DownloadLimitHolds == Spec => []DownloadLimit
<1>1. Init => TransferInv /\ SlotLink
  BY TransferInit, LinkInit
<1>2. TransferInv /\ SlotLink /\ [Next]_tvars => (TransferInv /\ SlotLink)'
  BY TransferStep, LinkStep
<1> QED BY <1>1, <1>2, LimitHolds, PTL DEF Spec

(* Nobody's entry outlives its waiter, also when several runs queue under one
   id: every step that ends a waiter removes the id altogether. *)
GhostInv == Distinct(waiting) /\ ToSet(waiting) \subseteq QueuedIds

LEMMA GhostStep ==
    ASSUME QTypeOK, GhostInv, [QNext]_qvars
    PROVE  GhostInv'
<1>0. /\ waiting \in Seq(Id) /\ qpc \in [Task -> QueuePc]
      /\ Distinct(waiting) /\ ToSet(waiting) \subseteq QueuedIds
      /\ \A t \in Task : idOf[t] \in Id
  BY QueueAssumption DEF QTypeOK, GhostInv, QueueAssumption
<1> DEFINE Goal == Distinct(waiting') /\ ToSet(waiting') \subseteq QueuedIds'
<1>1. ASSUME NEW t \in Task, Enqueue(t) PROVE Goal
  <2>1. QueuedIds' = QueuedIds \cup {idOf[t]}
    BY <1>0, <1>1 DEF Enqueue, Goto, QueuedIds, Queued
  <2>2. CASE Contains(waiting, idOf[t])
    BY <1>0, <1>1, <2>1, <2>2 DEF Enqueue
  <2>3. CASE ~Contains(waiting, idOf[t])
    BY <1>0, <1>1, <2>1, <2>3, AppendKeepsDistinct DEF Enqueue
  <2> QED BY <2>2, <2>3
<1>2. ASSUME NEW t \in Task, Dequeue(t) \/ DropAcquire(t) PROVE Goal
  <2>1. QueuedIds \ {idOf[t]} \subseteq QueuedIds'
    <3>1. \A u \in Task : qpc[u] \in Queued /\ u # t => qpc'[u] \in Queued
      BY <1>0, <1>2 DEF Dequeue, DropAcquire, Goto, Queued
    <3> QED BY <1>0, <3>1 DEF QueuedIds
  <2>2. waiting' = Without(waiting, idOf[t])
    BY <1>2 DEF Dequeue, DropAcquire
  <2> QED BY <1>0, <2>1, <2>2, WithoutProperties
<1>3. ASSUME NEW id \in Id, NEW mv \in QueueMove, Reorder(id, mv) PROVE Goal
  <2>1. Position(waiting, id) \in 1 .. Len(waiting)
    <3>1. \E k \in 1 .. Len(waiting) : waiting[k] = id
      BY <1>0, <1>3, LenProperties DEF Reorder, Contains
    <3> QED BY <3>1 DEF Position
  <2>2. QueuedIds' = QueuedIds
    BY <1>3 DEF Reorder, QueuedIds
  <2>3. waiting' = Moved(waiting, Position(waiting, id), mv)
    BY <1>3 DEF Reorder
  <2> QED BY <1>0, <2>1, <2>2, <2>3, MovedProperties
<1>4. ASSUME waiting' = waiting, \A u \in Task : qpc[u] \in Queued => qpc'[u] \in Queued
      PROVE  Goal
  BY <1>0, <1>4 DEF QueuedIds
<1>5. ASSUME NEW t \in Task,
             NotifyEnqueued(t) \/ Register(t) \/ CheckFront(t) \/ TryAcquire(t)
               \/ Announce(t) \/ Wake(t) \/ ReleasePermit(t) \/ FinishStep(t)
      PROVE  /\ waiting' = waiting
             /\ \A u \in Task : qpc[u] \in Queued => qpc'[u] \in Queued
  BY <1>0, <1>5 DEF NotifyEnqueued, Register, CheckFront, TryAcquire, Announce, Wake,
     ReleasePermit, FinishStep, NotifyReleased, NotifyDropped, Goto, Queued
<1>6. ASSUME NotifyReordered \/ UNCHANGED qvars
      PROVE  waiting' = waiting /\ \A u \in Task : qpc[u] \in Queued => qpc'[u] \in Queued
  BY <1>6 DEF NotifyReordered, qvars
<1>7. Goal
  BY <1>1, <1>2, <1>3, <1>4, <1>5, <1>6 DEF QNext, AcquireStep
<1> QED BY <1>7 DEF GhostInv

(* Nobody waits behind a ghost, whatever the user stops, pauses, discards or
   restarts, and however many runs share an id. *)
THEOREM NoGhosts == Spec => []NoGhostEntry
<1>1. Init => TransferInv /\ GhostInv
  <2> SUFFICES ASSUME Init PROVE GhostInv
    BY TransferInit
  <2>1. waiting = <<>>
    BY DEF Init, QInit
  <2> QED BY <2>1 DEF GhostInv, Distinct, ToSet
<1>2. TransferInv /\ GhostInv /\ [Next]_tvars => (TransferInv /\ GhostInv)'
  <2> SUFFICES ASSUME TransferInv, GhostInv, [Next]_tvars PROVE GhostInv'
    BY TransferStep
  <2>1. CASE Crash
    <3>1. waiting' = <<>>
      BY <2>1 DEF Crash
    <3> QED BY <3>1 DEF GhostInv, Distinct, ToSet
  <2>2. CASE ~Crash
    BY <2>2, QueueStep, GhostStep DEF TransferInv, TypeInv, TypeOK
  <2> QED BY <2>1, <2>2
<1>3. TransferInv /\ GhostInv => NoGhostEntry
  BY LenProperties
     DEF TransferInv, TypeInv, TypeOK, QTypeOK, GhostInv, NoGhostEntry, Distinct, IsInjective, QueuedIds
<1> QED BY <1>1, <1>2, <1>3, PTL DEF Spec

----------------------------------------------------------------------------
(* Who owns a control *)

(* A control belongs to one transfer: two ids never share one, and the runs
   that drive a control are runs of the transfer it was registered for. *)
Owned ==
    /\ \A i \in Id : registry[i] <= controls
    /\ \A t \in Task : run[t].ctl <= controls
    /\ \A i, j \in Id : registry[i] = registry[j] /\ registry[i] # 0 => i = j
    /\ \A t \in Task, i \in Id : run[t].ctl = registry[i] /\ registry[i] # 0 => idOf[t] = i
    /\ \A t, u \in Task : run[t].ctl = run[u].ctl /\ run[t].ctl # 0 => idOf[t] = idOf[u]

(* Only a start registers a control; everything else keeps or removes it. *)
RegistryShrinks ==
    /\ UNCHANGED controls
    /\ \A i \in Id : registry'[i] = registry[i] \/ registry'[i] = 0

LEMMA RunRegistry ==
    ASSUME TypeInv, NEW t \in Task, RunNext(t)
    PROVE  RegistryShrinks
<1>1. registry \in [Id -> 0 .. MaxControls]
  BY Typed
<1>2. UNCHANGED controls /\ (registry' = registry \/ registry' = [registry EXCEPT ![idOf[t]] = 0])
  BY DEF RunNext, Lookup, TryBegin, ClearCancel, ClearDiscard, SetQueued, WaitForSlot, Connect,
       Interrupted, Discover, UpsertDownload, ReadState, StoreDownloading, WriteBytes, CommitBlob,
       SetComplete, SourcesExhausted, NoticeCancel, FinishCancelled, FinishRemoveTemp,
       FinishDeleteRow, FinishPause, DropPermit, DropPermitNotify, FinalState, UnregisterStopped,
       LatchDiscard, EndExecution, LeaveQueue, LeaveNotify
<1> QED BY <1>1, <1>2 DEF RegistryShrinks

LEMMA CallRegistry ==
    ASSUME TypeInv, NEW th \in Thread, CallNext(th)
    PROVE  RegistryShrinks
<1>1. registry \in [Id -> 0 .. MaxControls]
  BY Typed
<1>2. UNCHANGED controls /\ (registry' = registry \/ registry' = [registry EXCEPT ![call[th].id] = 0])
  BY DEF CallNext, Stop1, Stop2, Stop3, Pause1, Pause2, Pause3, DiscardCheck, DiscardTemps,
         DiscardRow, DiscardUnregister
<1> QED BY <1>1, <1>2 DEF RegistryShrinks

LEMMA UiRegistry ==
    ASSUME TypeInv, UiNext
    PROVE  \/ RegistryShrinks
           \/ \E i \in Id : /\ Start(i) /\ registry[i] = 0
                            /\ controls' = controls + 1
                            /\ registry' = [registry EXCEPT ![i] = controls + 1]
<1>1. registry \in [Id -> 0 .. MaxControls]
  BY Typed
<1>2. ASSUME NEW i \in Id, Start(i)
      PROVE  \/ UNCHANGED <<registry, controls>>
             \/ /\ registry[i] = 0 /\ controls' = controls + 1
                /\ registry' = [registry EXCEPT ![i] = controls + 1]
  BY <1>2 DEF Start
<1>3. CASE Refresh \/ SyncCards \/ \E i \in Id : Resume(i) \/ Pause(i) \/ Stop(i) \/ RemoveTransfer(i)
  BY <1>3 DEF RegistryShrinks, Refresh, SyncCards, Resume, Pause, Stop, RemoveTransfer, Calling
<1>4. ASSUME NEW t \in Task, HandleDone(t) PROVE RegistryShrinks
  <2>1. UNCHANGED controls /\ (registry' = registry \/ registry' = [registry EXCEPT ![idOf[t]] = 0])
    BY <1>4, Zenon DEF HandleDone
  <2> QED BY <1>1, <2>1 DEF RegistryShrinks
<1> QED BY <1>2, <1>3, <1>4 DEF UiNext, RegistryShrinks

LEMMA OwnedStep == TransferInv /\ Owned /\ [Next]_tvars => Owned'
<1> SUFFICES ASSUME TransferInv, Owned, [Next]_tvars PROVE Owned'
  OBVIOUS
<1>0. /\ TypeInv /\ registry \in [Id -> 0 .. MaxControls] /\ run \in [Task -> RunType]
      /\ controls \in Nat /\ \A t \in Task : idOf[t] \in Id
      /\ \A i \in Id : registry[i] \in Nat
      /\ \A t \in Task : run[t].ctl \in Nat
  BY Typed, Constants DEF TransferInv, RunType
<1>1. ASSUME RegistryShrinks, \A t \in Task : run'[t].ctl = run[t].ctl PROVE Owned'
  BY <1>0, <1>1 DEF RegistryShrinks, Owned
<1>2. ASSUME NEW t \in Task, Lookup(t) PROVE Owned'
  <2>1. UNCHANGED <<registry, controls>> /\ run'[t].ctl \in {run[t].ctl, registry[idOf[t]]}
    <3>1. \/ run'[t] = [run[t] EXCEPT !.pc = "done", !.result = "Failed"]
          \/ run'[t] = [run[t] EXCEPT !.pc = "begin", !.ctl = registry[idOf[t]]]
      BY <1>0, <1>2 DEF Lookup
    <3>2. run[t] \in RunType
      BY <1>0
    <3> QED BY <1>2, <3>1, <3>2 DEF Lookup, RunType
  <2>2. \A u \in Task : u # t => run'[u] = run[u]
    BY <1>0, <1>2, RunLeavesOthers DEF RunNext
  <2> QED BY <1>0, <2>1, <2>2 DEF Owned
<1>3. ASSUME NEW t \in Task, RunNext(t) PROVE Owned'
  BY <1>0, <1>1, <1>2, <1>3, RunRegistry, RunLeavesOthers, RunKeepsControl
<1>4. ASSUME NEW th \in Thread, CallNext(th) PROVE Owned'
  BY <1>0, <1>1, <1>4, CallRegistry, CallTypes
<1>5. CASE ReconcileNext
  BY <1>0, <1>1, <1>5, ReconcileTypes DEF RegistryShrinks
<1>6. CASE UiNext
  <2>1. \A t \in Task : run'[t].ctl = run[t].ctl
    BY <1>0, <1>6, UiRuns
  <2>2. ASSUME NEW i \in Id, registry[i] = 0, controls' = controls + 1,
               registry' = [registry EXCEPT ![i] = controls + 1]
        PROVE  Owned'
    BY <1>0, <2>1, <2>2 DEF Owned
  <2> QED BY <1>0, <1>1, <1>6, <2>1, <2>2, UiRegistry
<1>7. CASE Crash
  <2>1. /\ controls' \in Nat /\ registry' \in [Id -> 0 .. controls']
        /\ \A i, j \in Id : registry'[i] = registry'[j] /\ registry'[i] # 0 => i = j
        /\ \A t \in Task : run'[t].ctl = 0
    BY <1>0, <1>7, CrashEffect, Constants
  <2> QED BY <2>1 DEF Owned
<1>8. CASE UNCHANGED tvars
  BY <1>8 DEF tvars, Owned
<1> QED BY <1>3, <1>4, <1>5, <1>6, <1>7, <1>8 DEF Next

LEMMA OwnedInit == Init => Owned
BY DEF Init, Owned, NewRun

----------------------------------------------------------------------------
(* Cards, while the process does not restart *)

ActiveState == {"Queued", "Connecting", "Downloading"}
Closing == {"unregister", "latch", "end"}
Active(t) == run[t].pc \notin {"unborn", "gone"}

(* An active state is backed by a run that will still set a final one, and a
   running card by a run whose end will be handled. *)
Backs(t, i) ==
    /\ idOf[t] = i
    /\ \/ run[t].pc = "lookup"
       \/ run[t].ctl = registry[i] /\ run[t].pc \in (Executing \ Closing) \cup {"begin"}

CardInv ==
    /\ \A t \in Task : run[t].pc \in Closing => Driven(t).state \notin ActiveState
    /\ \A i \in Id : EngineExecuting(i) => \E t \in Task : Backs(t, i)
    /\ \A i \in Id : card[i].running => \E t \in Task : idOf[t] = i /\ Active(t)

(* What the steps of a run do to the states of the controls. *)
LEMMA RunStates ==
    ASSUME TypeInv, NEW t \in Task, RunNext(t), NEW c \in Control
    PROVE  \/ ctl'[c].state = ctl[c].state /\ ~(FinalState(t) /\ c = run[t].ctl)
           \/ c = run[t].ctl /\ (SetQueued(t) \/ Connect(t) \/ StoreDownloading(t))
           \/ c = run[t].ctl /\ FinalState(t) /\ ctl'[c].state \notin ActiveState
<1>0. ctl \in [Control -> ControlType]
  BY Typed
<1>1. CASE SetQueued(t) \/ Connect(t) \/ StoreDownloading(t)
  <2>1. \E s \in TransferState : SetState(run[t].ctl, s)
    BY <1>1 DEF SetQueued, Connect, StoreDownloading, TransferState
  <2>2. run[t].ctl \in Control /\ run[t].pc # "final"
    BY <1>1, Typed DEF SetQueued, Connect, StoreDownloading, At
  <2> QED BY <1>0, <1>1, <2>1, <2>2, SetStateEffect
<1>2. CASE FinalState(t)
  <2>1. \E s \in TransferState \ ActiveState : SetState(run[t].ctl, s)
    BY <1>2 DEF FinalState, TransferState, ActiveState
  <2>2. run[t].ctl \in Control
    BY <1>2, Typed DEF FinalState, At
  <2> QED BY <1>0, <1>2, <2>1, <2>2, SetStateEffect
<1>3. CASE TryBegin(t) \/ ClearCancel(t) \/ ClearDiscard(t) \/ EndExecution(t)
  <2>1. run[t].pc # "final"
    BY <1>3 DEF TryBegin, ClearCancel, ClearDiscard, EndExecution, At
  <2>2. ctl'[c].state = ctl[c].state
    <3>1. CASE ClearCancel(t) \/ ClearDiscard(t) \/ EndExecution(t)
      BY <1>0, <3>1 DEF ClearCancel, ClearDiscard, EndExecution, ControlType
    <3>2. CASE TryBegin(t)
      <4>1. [ctl[c] EXCEPT !.executing = TRUE, !.wanted = {}].state = ctl[c].state
        BY <1>0 DEF ControlType
      <4> QED BY <1>0, <3>2, <4>1 DEF TryBegin
    <3> QED BY <1>3, <3>1, <3>2
  <2> QED BY <2>1, <2>2 DEF FinalState, At
<1>4. CASE UNCHANGED ctl /\ ~FinalState(t)
  BY <1>4
<1> QED BY <1>1, <1>2, <1>3, <1>4
     DEF RunNext, Lookup, WaitForSlot, Interrupted, Discover, UpsertDownload, ReadState, WriteBytes,
         CommitBlob, SetComplete, SourcesExhausted, NoticeCancel, FinishCancelled, FinishRemoveTemp,
         FinishDeleteRow, FinishPause, DropPermit, DropPermitNotify, UnregisterStopped,
         LatchDiscard, LeaveQueue, LeaveNotify

(* A pause or a stop never makes a state active. *)
LEMMA CallStates ==
    ASSUME TypeInv, NEW th \in Thread, CallNext(th), NEW c \in Control
    PROVE  ctl'[c].state = ctl[c].state \/ ctl'[c].state \notin ActiveState
<1>0. /\ ctl \in [Control -> ControlType]
      /\ call[th].at \in Asking => call[th].ctl \in Control
  BY Typed
<1>1. CASE Stop1(th) \/ Stop2(th) \/ Pause1(th) \/ Pause2(th)
  BY <1>0, <1>1 DEF Stop1, Stop2, Pause1, Pause2, ControlType
<1>2. CASE Stop3(th) \/ Pause3(th)
  <2>1. call[th].ctl \in Control
    BY <1>0, <1>2 DEF Stop3, Pause3, Step, Asking
  <2>2. SetState(call[th].ctl, "Stopped") \/ SetState(call[th].ctl, "Paused")
    BY <1>2 DEF Stop3, Pause3, SetState
  <2> QED BY <1>0, <2>1, <2>2, SetStateEffect DEF TransferState, ActiveState
<1>3. CASE UNCHANGED ctl
  BY <1>3
<1> QED BY <1>1, <1>2, <1>3 DEF CallNext, DiscardCheck, DiscardTemps, DiscardRow, DiscardUnregister

(* What begin and lookup do to a run. *)
LEMMA BeginEffect ==
    ASSUME TypeInv, NEW t \in Task
    PROVE  /\ Lookup(t) /\ registry[idOf[t]] # 0 =>
                run'[t].pc = "begin" /\ run'[t].ctl = registry[idOf[t]]
           /\ TryBegin(t) /\ run'[t].pc = "done" => Driven(t).executing
<1>0. run \in [Task -> RunType] /\ run[t] \in RunType
  BY Typed
<1>1. ASSUME Lookup(t), registry[idOf[t]] # 0
      PROVE  run'[t].pc = "begin" /\ run'[t].ctl = registry[idOf[t]]
  <2>1. run'[t] = [run[t] EXCEPT !.pc = "begin", !.ctl = registry[idOf[t]]]
    BY <1>0, <1>1 DEF Lookup
  <2> QED BY <1>0, <2>1 DEF RunType
<1>2. TryBegin(t) /\ run'[t].pc = "done" => Driven(t).executing
  BY <1>0, GoesEffect DEF TryBegin, RunPc
<1> QED BY <1>1, <1>2

LEMMA CardStep ==
    ASSUME MaxCrashes = 0
    PROVE  TransferInv /\ ExecInv /\ Owned /\ CardInv /\ [Next]_tvars => CardInv'
<1> SUFFICES ASSUME TransferInv, ExecInv, Owned, CardInv, [Next]_tvars PROVE CardInv'
  OBVIOUS
<1>0. /\ TypeInv /\ registry \in [Id -> 0 .. MaxControls] /\ run \in [Task -> RunType]
      /\ ctl \in [Control -> ControlType] /\ card \in [Id -> CardType]
      /\ \A i \in Id : registry[i] # 0 => registry[i] \in Control
      /\ \A t \in Task : idOf[t] \in Id
      /\ TypeInv'
  BY Typed, Constants, TransferStep DEF TransferInv, Control
<1>1. ASSUME NEW t \in Task, RunNext(t) PROVE CardInv'
  <2>0. /\ \A u \in Task : u # t => run'[u] = run[u]
        /\ RegistryShrinks
        /\ \A i \in Id : registry'[i] # 0 => registry'[i] = registry[i] /\ registry[i] \in Control
    BY <1>0, <1>1, RunLeavesOthers, RunRegistry DEF RegistryShrinks
  <2>1. ASSUME NEW u \in Task, run'[u].pc \in Closing PROVE ctl'[run'[u].ctl].state \notin ActiveState
    <3>1. run'[u].ctl \in Control /\ run'[u].ctl = run[u].ctl
      <4>1. u = t => ~Lookup(t)
        BY <1>0, <1>1, <2>1, RunPoints DEF Closing
      <4>2. run'[u].ctl = run[u].ctl
        BY <1>0, <1>1, <2>0, <4>1, RunKeepsControl
      <4>3. run[u].pc \in Executing
        BY <1>0, <1>1, <2>0, <2>1, RunPoints DEF Closing, Executing, RunNext
      <4> QED BY <4>2, <4>3, <1>0, Typed DEF Executing
    <3> DEFINE c == run[u].ctl
    <3>2. CASE u = t
      <4>1. FinalState(t) \/ run[t].pc \in Closing
        BY <1>0, <1>1, <2>1, <3>2, RunPoints DEF Closing, RunNext
      <4>2. run[t].pc \in Closing => ctl[c].state \notin ActiveState
        BY <3>2 DEF CardInv, Driven
      <4>3. ~(SetQueued(t) \/ Connect(t) \/ StoreDownloading(t))
        BY <4>1 DEF FinalState, SetQueued, Connect, StoreDownloading, At, Closing
      <4> QED BY <1>0, <1>1, <3>1, <3>2, <4>1, <4>2, <4>3, RunStates
    <3>3. CASE u # t
      <4>1. run[u].pc \in Closing /\ ctl[c].state \notin ActiveState
        BY <2>0, <2>1, <3>3 DEF CardInv, Driven
      <4>2. SetQueued(t) \/ Connect(t) \/ StoreDownloading(t) => run[t].ctl # c
        <5>1. SetQueued(t) \/ Connect(t) \/ StoreDownloading(t) => run[t].pc \in Executing
          BY DEF SetQueued, Connect, StoreDownloading, At, Executing
        <5>2. run[u].pc \in Executing
          BY <4>1 DEF Closing, Executing
        <5> QED BY <3>1, <3>3, <5>1, <5>2 DEF ExecInv
      <4> QED BY <1>0, <1>1, <3>1, <4>1, <4>2, RunStates
    <3> QED BY <3>2, <3>3
  <2>2. ASSUME NEW i \in Id, EngineExecuting(i)' PROVE \E u \in Task : Backs(u, i)'
    <3>1. /\ registry'[i] = registry[i] /\ registry[i] \in Control /\ registry[i] # 0
          /\ ctl'[registry[i]].state \in ActiveState
      BY <2>0, <2>2 DEF EngineExecuting, ActiveState
    <3>2. CASE run[t].ctl = registry[i] /\ (SetQueued(t) \/ Connect(t) \/ StoreDownloading(t))
      <4>1. /\ run'[t].pc \in {"select", "discover", "stream"} /\ run'[t].ctl = run[t].ctl
            /\ idOf[t] = i
        BY <1>0, <1>1, <3>1, <3>2, RunPoints, RunKeepsControl
           DEF SetQueued, Connect, StoreDownloading, Lookup, At, Owned
      <4> QED BY <3>1, <3>2, <4>1 DEF Backs, Executing, Closing
    <3>3. CASE ~(run[t].ctl = registry[i] /\ (SetQueued(t) \/ Connect(t) \/ StoreDownloading(t)))
      <4>1. EngineExecuting(i) /\ ~(FinalState(t) /\ registry[i] = run[t].ctl)
        BY <1>0, <1>1, <3>1, <3>3, RunStates DEF EngineExecuting, ActiveState
      <4>2. PICK u \in Task : Backs(u, i)
        BY <4>1 DEF CardInv
      <4>3. CASE u # t
        BY <2>0, <3>1, <4>2, <4>3 DEF Backs
      <4>4. CASE u = t /\ Lookup(t)
        BY <1>0, <3>1, <4>2, <4>4, BeginEffect DEF Backs
      <4>5. CASE u = t /\ TryBegin(t) /\ run'[t].pc = "done"
        <5>1. ctl[registry[i]].executing
          BY <1>0, <4>2, <4>5, BeginEffect DEF Backs, Driven, TryBegin, At
        <5>2. PICK v \in Task : run[v].pc \in Executing /\ run[v].ctl = registry[i]
          BY <3>1, <5>1 DEF ExecInv
        <5>3. run[v].pc \notin Closing
          BY <4>1, <5>2 DEF CardInv, Driven, EngineExecuting, ActiveState
        <5>4. v # t
          BY <4>5, <5>2 DEF TryBegin, At, Executing
        <5>5. idOf[v] = i
          BY <3>1, <5>2 DEF Owned
        <5> QED BY <2>0, <3>1, <5>2, <5>3, <5>4, <5>5 DEF Backs
      <4>6. CASE u = t /\ ~Lookup(t) /\ ~(TryBegin(t) /\ run'[t].pc = "done")
        <5>1. run[t].ctl = registry[i] /\ run'[t].ctl = run[t].ctl
          <6>1. run[t].pc # "lookup"
            BY <1>0, <1>1, <4>6, RunPoints DEF RunNext
          <6> QED BY <1>0, <1>1, <4>2, <4>6, <6>1, RunKeepsControl DEF Backs
        <5>2. run[t].pc \in (Executing \ Closing) \cup {"begin"} /\ ~FinalState(t)
          BY <1>0, <1>1, <4>1, <4>2, <4>6, <5>1, RunPoints DEF Backs, RunNext
        <5>3. run'[t].pc \in (Executing \ Closing) \cup {"begin"}
          BY <1>0, <1>1, <4>6, <5>2, RunPoints DEF RunNext, Executing, Closing
        <5> QED BY <3>1, <4>2, <4>6, <5>1, <5>3 DEF Backs
      <4> QED BY <4>3, <4>4, <4>5, <4>6
    <3> QED BY <3>2, <3>3
  <2>3. ASSUME NEW i \in Id, card'[i].running PROVE \E u \in Task : idOf[u] = i /\ Active(u)'
    <3>1. card' = card
      BY <1>1 DEF RunNext, Lookup, TryBegin, ClearCancel, ClearDiscard, SetQueued, WaitForSlot, Connect,
       Interrupted, Discover, UpsertDownload, ReadState, StoreDownloading, WriteBytes, CommitBlob,
       SetComplete, SourcesExhausted, NoticeCancel, FinishCancelled, FinishRemoveTemp,
       FinishDeleteRow, FinishPause, DropPermit, DropPermitNotify, FinalState, UnregisterStopped,
       LatchDiscard, EndExecution, LeaveQueue, LeaveNotify
    <3>2. PICK u \in Task : idOf[u] = i /\ Active(u)
      BY <2>3, <3>1 DEF CardInv
    <3>3. run'[t].pc \notin {"unborn", "gone"}
      BY <1>0, <1>1, RunPoints DEF RunNext
    <3> QED BY <2>0, <3>2, <3>3 DEF Active
  <2> QED BY <2>1, <2>2, <2>3 DEF CardInv, Driven
<1>2. ASSUME NEW th \in Thread, CallNext(th) PROVE CardInv'
  <2>1. UNCHANGED <<run, card>> /\ RegistryShrinks
    BY <1>0, <1>2, CallTypes, CallRegistry
  <2>2. \A c \in Control : ctl'[c].state \in ActiveState => ctl[c].state \in ActiveState
    BY <1>0, <1>2, CallStates
  <2>3. \A t \in Task : run[t].pc \in Closing => run[t].ctl \in Control
    BY <1>0, Typed DEF Closing
  <2>4. \A t \in Task : run'[t].pc \in Closing => Driven(t)'.state \notin ActiveState
    BY <2>1, <2>2, <2>3 DEF CardInv, Driven
  <2>5. \A i \in Id : EngineExecuting(i)' => EngineExecuting(i) /\ registry'[i] = registry[i]
    BY <1>0, <2>1, <2>2 DEF RegistryShrinks, EngineExecuting, ActiveState
  <2>6. \A i \in Id : EngineExecuting(i)' => \E t \in Task : Backs(t, i)'
    BY <2>1, <2>5 DEF CardInv, Backs
  <2> QED BY <2>1, <2>4, <2>6 DEF CardInv, Active
<1>3. CASE ReconcileNext
  BY <1>0, <1>3, ReconcileTypes DEF CardInv, Driven, EngineExecuting, Backs, Active
<1>4. CASE UiNext
  <2>0. /\ ctl' = ctl
        /\ \A t \in Task : /\ run'[t].ctl = run[t].ctl
                           /\ \/ run'[t] = run[t]
                              \/ run[t].pc = "unborn" /\ run'[t].pc = "lookup"
                              \/ run[t].pc = "done" /\ run'[t].pc = "gone"
    BY <1>0, <1>4, UiTypes, UiRuns
  <2>1. \A t \in Task : run'[t].pc \in Closing => Driven(t)'.state \notin ActiveState
    BY <2>0 DEF CardInv, Driven, Closing
  <2>2. ASSUME NEW i \in Id, EngineExecuting(i)' PROVE \E u \in Task : Backs(u, i)'
    <3>1. CASE RegistryShrinks
      <4>1. registry'[i] = registry[i] /\ EngineExecuting(i)
        BY <2>0, <2>2, <3>1 DEF RegistryShrinks, EngineExecuting
      <4>2. PICK u \in Task : Backs(u, i)
        BY <4>1 DEF CardInv
      <4>3. run'[u] = run[u]
        BY <2>0, <4>2 DEF Backs, Executing
      <4> QED BY <4>1, <4>2, <4>3 DEF Backs
    <3>2. ASSUME NEW j \in Id, Start(j), registry[j] = 0,
                 registry' = [registry EXCEPT ![j] = controls + 1]
          PROVE  \E u \in Task : Backs(u, i)'
      <4>1. CASE i = j
        <5>1. PICK u \in Task : idOf[u] = i /\ Goes(u, "lookup")
          BY <1>0, <3>2, <4>1, SpawnEffect DEF Start
        <5>2. run'[u].pc = "lookup"
          BY <1>0, <5>1, GoesEffect DEF RunPc
        <5> QED BY <5>1, <5>2 DEF Backs
      <4>2. CASE i # j
        <5>1. registry'[i] = registry[i] /\ EngineExecuting(i)
          BY <1>0, <2>0, <2>2, <3>2, <4>2 DEF EngineExecuting
        <5>2. PICK u \in Task : Backs(u, i)
          BY <5>1 DEF CardInv
        <5>3. run'[u] = run[u]
          BY <2>0, <5>2 DEF Backs, Executing
        <5> QED BY <5>1, <5>2, <5>3 DEF Backs
      <4> QED BY <4>1, <4>2
    <3> QED BY <1>0, <1>4, <3>1, <3>2, UiRegistry
  <2>3. ASSUME NEW i \in Id, card'[i].running PROVE \E u \in Task : idOf[u] = i /\ Active(u)'
    <3>1. ASSUME NEW t \in Task, HandleDone(t) PROVE card[i].running /\ idOf[t] # i
      <4> DEFINE j == idOf[t]
                 ended == run[t].result \in {"Ok", "Stopped"}
                 kept == [card[j] EXCEPT !.running = FALSE,
                                         !.failed = card[j].shown /\ run[t].result # "Cancelled"]
      <4>1. card' = [card EXCEPT ![j] = IF ended THEN NoCard ELSE kept]
        BY <3>1, Zenon DEF HandleDone
      <4>2. ~NoCard.running /\ ~kept.running
        BY <1>0 DEF NoCard, CardType
      <4> HIDE DEF kept, ended
      <4> QED BY <1>0, <2>3, <4>1, <4>2
    <3>2. CASE SyncCards /\ Promoted(i)
      <4>1. PICK u \in Task : Backs(u, i)
        BY <3>2 DEF Promoted, CardInv
      <4> QED BY <3>2, <4>1 DEF SyncCards, Backs, Active, Executing
    <3>3. ASSUME NEW j \in Id, Start(j) \/ Resume(j) \/ Pause(j) \/ Stop(j) \/ RemoveTransfer(j)
          PROVE  card[i].running /\ \A t \in Task : run'[t].pc # "gone" \/ run[t].pc = "gone"
      <4>1. card[i].running
        <5>1. CASE Start(j)
          <6>1. card' = [card EXCEPT ![j] = [NoCard EXCEPT !.shown = TRUE, !.launched = TRUE]]
            BY <5>1 DEF Start
          <6>2. ~[NoCard EXCEPT !.shown = TRUE, !.launched = TRUE].running
            BY DEF NoCard
          <6> QED BY <1>0, <2>3, <6>1, <6>2
        <5>2. CASE Resume(j)
          <6>1. card' = [card EXCEPT ![j] = [card[j] EXCEPT !.launched = TRUE, !.failed = FALSE]]
            BY <1>0, <5>2 DEF Resume
          <6>2. [card[j] EXCEPT !.launched = TRUE, !.failed = FALSE].running = card[j].running
            BY <1>0 DEF CardType
          <6> QED BY <1>0, <2>3, <6>1, <6>2
        <5>3. CASE Pause(j) \/ Stop(j)
          BY <2>3, <5>3 DEF Pause, Stop
        <5>4. CASE RemoveTransfer(j)
          BY <1>0, <2>3, <5>4 DEF RemoveTransfer, NoCard
        <5> QED BY <3>3, <5>1, <5>2, <5>3, <5>4
      <4>2. \A t \in Task : run'[t].pc # "gone" \/ run[t].pc = "gone"
        <5>1. CASE Start(j) \/ Resume(j)
          BY <1>0, <5>1, SpawnEffect, GoesEffect DEF Start, Resume, RunPc
        <5>2. CASE Pause(j) \/ Stop(j) \/ RemoveTransfer(j)
          BY <5>2 DEF Pause, Stop, RemoveTransfer, Calling
        <5> QED BY <3>3, <5>1, <5>2
      <4> QED BY <4>1, <4>2
    <3>4. CASE Refresh \/ (SyncCards /\ ~Promoted(i))
      <4>1. card[i].running /\ run' = run
        BY <2>3, <3>4 DEF Refresh, SyncCards
      <4> QED BY <4>1 DEF CardInv, Active
    <3>5. ASSUME NEW t \in Task, HandleDone(t) PROVE \E u \in Task : idOf[u] = i /\ Active(u)'
      <4>1. PICK u \in Task : idOf[u] = i /\ Active(u)
        BY <3>1, <3>5 DEF CardInv
      <4>2. u # t
        BY <3>1, <3>5, <4>1
      <4>3. run'[u] = run[u]
        BY <1>0, <3>5, <4>2, GoesEffect DEF HandleDone, RunPc
      <4> QED BY <4>1, <4>3 DEF Active
    <3>6. ASSUME NEW j \in Id, Start(j) \/ Resume(j) \/ Pause(j) \/ Stop(j) \/ RemoveTransfer(j)
          PROVE  \E u \in Task : idOf[u] = i /\ Active(u)'
      <4>1. PICK u \in Task : idOf[u] = i /\ Active(u)
        BY <3>3, <3>6 DEF CardInv
      <4>2. run'[u].pc \notin {"unborn", "gone"}
        BY <2>0, <3>3, <3>6, <4>1 DEF Active
      <4> QED BY <4>1, <4>2 DEF Active
    <3> QED BY <1>4, <3>2, <3>4, <3>5, <3>6 DEF UiNext
  <2> QED BY <2>1, <2>2, <2>3 DEF CardInv
<1>5. ~Crash
  BY Constants DEF Crash, TransferInv, TypeInv, TypeOK
<1>6. CASE UNCHANGED tvars
  BY <1>6 DEF CardInv, Driven, EngineExecuting, Backs, Active, tvars
<1> QED BY <1>1, <1>2, <1>3, <1>4, <1>5, <1>6 DEF Next

(* As long as the process does not restart, a card whose transfer nobody drives
   can be resumed or retried. *)
THEOREM IdleCardsCanResume ==
    ASSUME MaxCrashes = 0
    PROVE  Spec => []IdleCardCanResume
<1> DEFINE Inv == TransferInv /\ ExecInv /\ Owned /\ CardInv
<1>1. Init => Inv
  <2>1. Init => CardInv
    BY DEF Init, CardInv, NewRun, Closing, EngineExecuting, NoCard
  <2> QED BY <2>1, TransferInit, ExecInit, OwnedInit
<1>2. Inv /\ [Next]_tvars => Inv'
  BY TransferStep, ExecStep, OwnedStep, CardStep
<1>3. Inv => IdleCardCanResume
  BY DEF CardInv, IdleCardCanResume, Unoccupied, CanResume, Backs, Active, At, Executing
<1> HIDE DEF Inv
<1>4. Spec => []Inv
  BY <1>1, <1>2, PTL DEF Spec
<1> QED BY <1>3, <1>4, PTL

----------------------------------------------------------------------------
(* What transfers leave on disk, for a user who starts a transfer only when no
   run of it is left (Patient) and removes none while it runs: without either,
   TLC finds the disk in the states these theorems exclude. *)

Discarding == {"check", "temps", "row", "unregister"}

(* Runs that have not stopped writing yet. *)
Ahead == {"lookup", "begin", "clearCancel", "clearDiscard", "setQueued", "select", "discover",
          "upsert", "mark", "markSet", "stream"}
NoAhead(i) == \A t \in Task : idOf[t] = i => run[t].pc \notin Ahead

(* One run per transfer at a time; the user interface discards nothing itself;
   a run discards its own transfer, at its very end. *)
Solo == \A t, u \in Task : Active(t) /\ Active(u) /\ idOf[t] = idOf[u] => t = u

UiAsks ==
    /\ call[Ui].at \notin Discarding
    /\ call[Ui].at \in Asking => ~call[Ui].discard

RunDiscards ==
    \A t \in Task : call[t].at # "none" =>
        run[t].pc = "tail" /\ call[t].id = idOf[t] /\ call[t].at \in Discarding

SoloInv == Solo /\ UiAsks /\ RunDiscards

----------------------------------------------------------------------------
(* Effects on disk *)

LEMMA RunDisk ==
    ASSUME TypeInv, NEW t \in Task, RunNext(t)
    PROVE  LET d == disk[idOf[t]]
               e == disk'[idOf[t]] IN
           /\ \A j \in Id : j # idOf[t] => disk'[j] = disk[j]
           /\ UpsertDownload(t) => e.part = d.part /\ e.row = "running"
           /\ WriteBytes(t) => e.part /\ e.row = d.row
           /\ CommitBlob(t) => ~e.part /\ e.blob /\ e.row = d.row
           /\ SetComplete(t) => e.part = d.part /\ e.row \in {"none", "complete"}
           /\ SourcesExhausted(t) => e.part = d.part /\ e.row \in {"none", "failed"}
           /\ FinishPause(t) => e.part = d.part /\ e.row \in {"none", "paused"}
           /\ SetComplete(t) \/ SourcesExhausted(t) \/ FinishPause(t) =>
                 (e.row = "none" <=> d.row = "none")
           /\ FinishRemoveTemp(t) => ~e.part /\ e.row = d.row
           /\ FinishDeleteRow(t) => e.part = d.part /\ e.row = "none"
           /\ ~(\/ UpsertDownload(t) \/ WriteBytes(t) \/ CommitBlob(t) \/ SetComplete(t)
                \/ SourcesExhausted(t) \/ FinishPause(t) \/ FinishRemoveTemp(t) \/ FinishDeleteRow(t))
              => disk' = disk
<1>0. disk \in [Id -> DiskType] /\ idOf[t] \in Id /\ disk[idOf[t]] \in DiskType
  BY Typed, Constants
<1> DEFINE d == disk[idOf[t]]
           e == disk'[idOf[t]]
<1>1. /\ UpsertDownload(t) => disk' = [disk EXCEPT ![idOf[t]] = [d EXCEPT !.row = "running"]]
      /\ WriteBytes(t) => disk' = [disk EXCEPT ![idOf[t]] = [d EXCEPT !.part = TRUE]]
      /\ CommitBlob(t) => disk' = [disk EXCEPT ![idOf[t]] = [d EXCEPT !.part = FALSE, !.blob = TRUE]]
      /\ FinishRemoveTemp(t) => disk' = [disk EXCEPT ![idOf[t]] = [d EXCEPT !.part = FALSE]]
      /\ FinishDeleteRow(t) => disk' = [disk EXCEPT ![idOf[t]] = [d EXCEPT !.row = "none"]]
  BY <1>0 DEF UpsertDownload, WriteBytes, CommitBlob, FinishRemoveTemp, FinishDeleteRow
<1>2. /\ SetComplete(t) => SetDownloadState(idOf[t], "complete")
      /\ SourcesExhausted(t) => SetDownloadState(idOf[t], "failed")
      /\ FinishPause(t) => SetDownloadState(idOf[t], "paused")
  BY DEF SetComplete, SourcesExhausted, FinishPause
<1>3. \A s \in {"complete", "failed", "paused"} : s \in RowState \ {"none"}
  BY DEF RowState
<1>4. ASSUME SetComplete(t) \/ SourcesExhausted(t) \/ FinishPause(t)
      PROVE  /\ e.part = d.part /\ (e.row = "none" <=> d.row = "none")
             /\ \A j \in Id : j # idOf[t] => disk'[j] = disk[j]
  BY <1>0, <1>2, <1>3, <1>4, SetDownloadStateEffect
<1>5. /\ SetComplete(t) => e.row \in {"none", "complete"}
      /\ SourcesExhausted(t) => e.row \in {"none", "failed"}
      /\ FinishPause(t) => e.row \in {"none", "paused"}
  BY <1>0, <1>2, <1>3, SetDownloadStateEffect
<1>6. /\ UpsertDownload(t) => e.part = d.part /\ e.row = "running"
      /\ WriteBytes(t) => e.part /\ e.row = d.row
      /\ CommitBlob(t) => ~e.part /\ e.blob /\ e.row = d.row
      /\ FinishRemoveTemp(t) => ~e.part /\ e.row = d.row
      /\ FinishDeleteRow(t) => e.part = d.part /\ e.row = "none"
      /\ UpsertDownload(t) \/ WriteBytes(t) \/ CommitBlob(t) \/ FinishRemoveTemp(t) \/ FinishDeleteRow(t)
            => \A j \in Id : j # idOf[t] => disk'[j] = disk[j]
  <2>1. CASE UpsertDownload(t)
    BY <1>0, <1>1, <2>1 DEF DiskType, UpsertDownload, WriteBytes, CommitBlob, FinishRemoveTemp, FinishDeleteRow, At
  <2>2. CASE WriteBytes(t)
    BY <1>0, <1>1, <2>2 DEF DiskType, UpsertDownload, WriteBytes, CommitBlob, FinishRemoveTemp, FinishDeleteRow, At
  <2>3. CASE CommitBlob(t)
    BY <1>0, <1>1, <2>3 DEF DiskType, UpsertDownload, WriteBytes, CommitBlob, FinishRemoveTemp, FinishDeleteRow, At
  <2>4. CASE FinishRemoveTemp(t)
    BY <1>0, <1>1, <2>4 DEF DiskType, UpsertDownload, WriteBytes, CommitBlob, FinishRemoveTemp, FinishDeleteRow, At
  <2>5. CASE FinishDeleteRow(t)
    BY <1>0, <1>1, <2>5 DEF DiskType, UpsertDownload, WriteBytes, CommitBlob, FinishRemoveTemp, FinishDeleteRow, At
  <2> QED BY <2>1, <2>2, <2>3, <2>4, <2>5
<1>7. ~(\/ UpsertDownload(t) \/ WriteBytes(t) \/ CommitBlob(t) \/ SetComplete(t)
        \/ SourcesExhausted(t) \/ FinishPause(t) \/ FinishRemoveTemp(t) \/ FinishDeleteRow(t))
      => disk' = disk
  BY DEF RunNext, Lookup, TryBegin, ClearCancel, ClearDiscard, SetQueued, WaitForSlot, Connect,
       Interrupted, Discover, ReadState, StoreDownloading, NoticeCancel, FinishCancelled,
       DropPermit, DropPermitNotify, FinalState, UnregisterStopped,
       LatchDiscard, EndExecution, LeaveQueue, LeaveNotify
<1>8. \A j \in Id : j # idOf[t] => disk'[j] = disk[j]
  BY <1>4, <1>6, <1>7
<1> HIDE DEF d, e
<1> QED BY <1>4, <1>5, <1>6, <1>7, <1>8 DEF d, e

LEMMA CallDisk ==
    ASSUME TypeInv, NEW th \in Thread, CallNext(th)
    PROVE  LET d == disk[call[th].id]
               e == disk'[call[th].id] IN
           /\ \A j \in Id : j # call[th].id => disk'[j] = disk[j]
           /\ call[th].at = "temps" => ~e.part /\ e.row = d.row
           /\ call[th].at = "row" => e.part = d.part /\ e.row = "none"
           /\ call[th].at \notin {"temps", "row"} => disk' = disk
<1>0. disk \in [Id -> DiskType] /\ call[th].id \in Id /\ disk[call[th].id] \in DiskType
  BY Typed DEF CallType
<1> DEFINE i == call[th].id
<1>1. /\ DiscardTemps(th) => disk' = [disk EXCEPT ![i] = [disk[i] EXCEPT !.part = FALSE]]
      /\ DiscardRow(th) => disk' = [disk EXCEPT ![i] = [disk[i] EXCEPT !.row = "none"]]
  BY <1>0 DEF DiscardTemps, DiscardRow
<1>2. /\ call[th].at = "temps" => DiscardTemps(th)
      /\ call[th].at = "row" => DiscardRow(th)
      /\ call[th].at \notin {"temps", "row"} => disk' = disk
  BY DEF CallNext, Stop1, Stop2, Stop3, Pause1, Pause2, Pause3, DiscardCheck, DiscardTemps,
         DiscardRow, DiscardUnregister, Step
<1> QED BY <1>0, <1>1, <1>2 DEF DiskType

----------------------------------------------------------------------------
(* Effects on the calls in progress *)

LEMMA RunCalls ==
    ASSUME TypeInv, NEW t \in Task, RunNext(t)
    PROVE  /\ \A th \in Thread : th # t => call'[th] = call[th]
           /\ ~(EndExecution(t) /\ run[t].latched) => call' = call
           /\ EndExecution(t) /\ run[t].latched =>
                 call'[t].at = "check" /\ call'[t].id = idOf[t] /\ run'[t].pc = "tail"
<1>0. call \in [Thread -> CallType] /\ t \in Thread /\ run \in [Task -> RunType]
  BY Typed, Constants
<1>1. ASSUME EndExecution(t), run[t].latched
      PROVE  /\ call'[t].at = "check" /\ call'[t].id = idOf[t] /\ run'[t].pc = "tail"
             /\ \A th \in Thread : th # t => call'[th] = call[th]
  <2>1. call' = [call EXCEPT ![t] = [Idle EXCEPT !.at = "check", !.id = idOf[t]]]
    BY <1>1 DEF EndExecution
  <2>2. run'[t].pc = "tail"
    BY <1>0, <1>1, GoesEffect DEF EndExecution, RunPc
  <2> QED BY <1>0, <2>1, <2>2 DEF Idle
<1>2. ~(EndExecution(t) /\ run[t].latched) => call' = call
  BY DEF RunNext, Lookup, TryBegin, ClearCancel, ClearDiscard, SetQueued, WaitForSlot, Connect,
       Interrupted, Discover, UpsertDownload, ReadState, StoreDownloading, WriteBytes, CommitBlob,
       SetComplete, SourcesExhausted, NoticeCancel, FinishCancelled, FinishRemoveTemp,
       FinishDeleteRow, FinishPause, DropPermit, DropPermitNotify, FinalState, UnregisterStopped,
       LatchDiscard, EndExecution, LeaveQueue, LeaveNotify
<1> QED BY <1>1, <1>2

LEMMA CallCalls ==
    ASSUME TypeInv, NEW th \in Thread, CallNext(th)
    PROVE  LET a == call[th].at
               b == call'[th].at
               c == registry[call[th].id] IN
           /\ \A x \in Thread : x # th => call'[x] = call[x]
           /\ call'[th].id = call[th].id
           /\ call'[th].discard => call[th].discard
           /\ a \in Asking \cup Discarding
           /\ a \in Asking => b \in Asking \cup {"none"} \/ (b = "check" /\ call[th].discard)
           /\ a = "check" => b = IF c # 0 /\ ctl[c].executing THEN "stop1" ELSE "temps"
           /\ a = "temps" => b = "row"
           /\ a = "row" => b = "unregister"
           /\ a = "unregister" => b = "none"
<1>0. call \in [Thread -> CallType] /\ call[th] \in CallType
  BY Typed
<1>1. CASE Stop1(th) \/ Stop2(th) \/ Stop3(th) \/ Pause1(th) \/ Pause2(th) \/ Pause3(th)
  <2>1. /\ \E to \in Asking \cup {"check", "none"} :
              Step(th, call[th].at, to) /\ (to = "check" => call[th].discard)
        /\ call[th].at \in Asking
    BY <1>1 DEF Stop1, Stop2, Stop3, Pause1, Pause2, Pause3, Step, Asking
  <2> QED BY <1>0, <2>1, StepEffect DEF Asking, Discarding
<1>2. CASE DiscardCheck(th)
  <2> DEFINE c == registry[call[th].id]
             stop == c # 0 /\ ctl[c].executing
             next == [call[th] EXCEPT !.at = IF stop THEN "stop1" ELSE "temps",
                                      !.ctl = IF stop THEN c ELSE 0, !.discard = FALSE]
  <2>1. call' = [call EXCEPT ![th] = next] /\ call[th].at = "check"
    BY <1>2 DEF DiscardCheck
  <2>2. /\ next.at = (IF stop THEN "stop1" ELSE "temps") /\ next.id = call[th].id
        /\ ~next.discard
    BY <1>0 DEF CallType
  <2> HIDE DEF next
  <2> QED BY <1>0, <2>1, <2>2 DEF Asking, Discarding
<1>3. CASE DiscardTemps(th) \/ DiscardRow(th) \/ DiscardUnregister(th)
  <2>1. \/ Step(th, "temps", "row") \/ Step(th, "row", "unregister") \/ Step(th, "unregister", "none")
    BY <1>3 DEF DiscardTemps, DiscardRow, DiscardUnregister
  <2> QED BY <1>0, <2>1, StepEffect DEF Asking, Discarding
<1> QED BY <1>1, <1>2, <1>3 DEF CallNext

(* What the user interface does to its own call when nobody is removed. *)
LEMMA UiCalls ==
    ASSUME TypeInv, UiNext, "Remove" \notin Commands
    PROVE  /\ \A t \in Task : call'[t] = call[t]
           /\ call[Ui].at = "none"
           /\ \/ call' = call
              \/ call'[Ui].at = "list"
              \/ call'[Ui].at \in Asking /\ ~call'[Ui].discard
<1>0. call \in [Thread -> CallType] /\ Ui \in Thread /\ \A t \in Task : t \in Thread /\ t # Ui
  BY Typed, Constants
<1>1. ASSUME NEW reg, StartReconcile(reg)
      PROVE  call'[Ui].at = "list" /\ \A t \in Task : call'[t] = call[t]
  BY <1>0, <1>1 DEF StartReconcile, Idle
<1>2. ASSUME NEW i \in Id, Pause(i) \/ Stop(i)
      PROVE  /\ call'[Ui].at \in Asking /\ ~call'[Ui].discard
             /\ \A t \in Task : call'[t] = call[t]
  BY <1>0, <1>2 DEF Pause, Stop, Calling, Asking
<1>3. ASSUME NEW i \in Id PROVE ~RemoveTransfer(i)
  BY DEF RemoveTransfer, Command
<1>4. call[Ui].at = "none"
  BY <1>3 DEF UiNext, Start, Resume, Pause, Stop, Refresh, SyncCards, HandleDone, Command
<1>5. ASSUME NEW i \in Id, Start(i) \/ Resume(i) PROVE call' = call
  BY <1>5 DEF Start, Resume
<1>6. SyncCards => call' = call
  BY DEF SyncCards
<1>7. Refresh \/ (\E t \in Task : HandleDone(t)) =>
        call'[Ui].at = "list" /\ \A t \in Task : call'[t] = call[t]
  BY <1>1 DEF Refresh, HandleDone
<1> QED BY <1>0, <1>2, <1>3, <1>4, <1>5, <1>6, <1>7 DEF UiNext

LEMMA ReconcileCalls ==
    ASSUME TypeInv, ReconcileNext
    PROVE  /\ \A t \in Task : call'[t] = call[t]
           /\ call[Ui].at \in {"list", "scan", "reapTemp", "reapRow", "normalize"}
           /\ call'[Ui].at \in {"none", "scan", "reapTemp", "reapRow", "normalize"}
<1>0. /\ call \in [Thread -> CallType] /\ Ui \in Thread /\ \A t \in Task : t \in Thread /\ t # Ui
      /\ call[Ui] \in CallType
  BY Typed, Constants
<1>1. ASSUME NEW i \in Id, ScanRow(i)
      PROVE  /\ \A t \in Task : call'[t] = call[t]
             /\ call[Ui].at = "scan" /\ call'[Ui].at \in {"none", "scan", "reapTemp", "normalize"}
  <2> DEFINE at == CASE ~Keeps(listed[i], disk[i]) -> "reapTemp"
                     [] listed[i] = "running"      -> "normalize"
                     [] OTHER                      -> NextRow([listed EXCEPT ![i] = "none"])
  <2>0. call' = [call EXCEPT ![Ui].id = i, ![Ui].at = at] /\ call[Ui].at = "scan"
    BY <1>1, Zenon DEF ScanRow
  <2>1. at \in {"reapTemp", "normalize", "none", "scan"}
    <3>1. CASE ~Keeps(listed[i], disk[i])  BY <3>1
    <3>2. CASE Keeps(listed[i], disk[i]) /\ listed[i] = "running"  BY <3>2
    <3>3. CASE Keeps(listed[i], disk[i]) /\ listed[i] # "running"  BY <3>3 DEF NextRow
    <3> QED BY <3>1, <3>2, <3>3
  <2> HIDE DEF at
  <2>2. call'[Ui].at = at /\ \A t \in Task : call'[t] = call[t]
    BY <1>0, <2>0 DEF CallType
  <2> QED BY <2>0, <2>1, <2>2
<1>2. CASE ListRows \/ ReapTemp \/ ReapRow \/ Normalize
  <2>1. \E from \in {"list", "reapTemp", "reapRow", "normalize"}, to \in {"none", "scan", "reapRow"} :
           Step(Ui, from, to)
    BY <1>2 DEF ListRows, ReapTemp, ReapRow, Normalize, NextRow
  <2> QED BY <1>0, <2>1, StepEffect
<1> QED BY <1>1, <1>2 DEF ReconcileNext

LEMMA SoloStep ==
    ASSUME Patient, "Remove" \notin Commands
    PROVE  TransferInv /\ ExecInv /\ Owned /\ SoloInv /\ [Next]_tvars => SoloInv'
<1> SUFFICES ASSUME TransferInv, ExecInv, Owned, SoloInv, [Next]_tvars PROVE SoloInv'
  OBVIOUS
<1>0. /\ TypeInv /\ run \in [Task -> RunType] /\ registry \in [Id -> 0 .. MaxControls]
      /\ \A i \in Id : registry[i] # 0 => registry[i] \in Control
      /\ Ui \in Thread /\ \A t \in Task : t \in Thread /\ t # Ui /\ idOf[t] \in Id
  BY Typed, Constants DEF TransferInv, Control
<1>1. ASSUME NEW t \in Task, RunNext(t) PROVE SoloInv'
  <2>1. /\ \A u \in Task : u # t => run'[u] = run[u]
        /\ Active(t) /\ run'[t].pc \notin {"unborn", "gone"}
    BY <1>0, <1>1, RunLeavesOthers, RunPoints DEF RunNext, Active
  <2>2. Solo'
    BY <2>1 DEF SoloInv, Solo, Active
  <2>3. UiAsks'
    BY <1>0, <1>1, RunCalls DEF SoloInv, UiAsks
  <2>4. RunDiscards'
    <3>1. \A u \in Task : u # t => call'[u] = call[u]
      BY <1>0, <1>1, RunCalls
    <3>2. CASE EndExecution(t) /\ run[t].latched
      BY <1>0, <1>1, <2>1, <3>1, <3>2, RunCalls DEF SoloInv, RunDiscards, Discarding
    <3>3. CASE ~(EndExecution(t) /\ run[t].latched)
      <4>1. call' = call
        BY <1>0, <1>1, <3>3, RunCalls
      <4>2. run[t].pc = "tail" => call[t].at = "none"
        <5>1. run[t].pc = "tail" => LeaveQueue(t)
          BY <1>0, <1>1, RunPoints DEF RunNext
        <5> QED BY <5>1 DEF LeaveQueue
      <4> QED BY <2>1, <4>1, <4>2 DEF SoloInv, RunDiscards
    <3> QED BY <3>2, <3>3
  <2> QED BY <2>2, <2>3, <2>4 DEF SoloInv
<1>2. ASSUME NEW th \in Thread, CallNext(th) PROVE SoloInv'
  <2>1. UNCHANGED run
    BY <1>0, <1>2, CallTypes
  <2>2. Solo'
    BY <2>1 DEF SoloInv, Solo, Active
  <2>3. CASE th = Ui
    <3>1. call[Ui].at \in Asking /\ ~call[Ui].discard
      BY <1>0, <1>2, <2>3, CallCalls DEF SoloInv, UiAsks
    <3>2. /\ call'[Ui].at \in Asking \cup {"none"} /\ ~call'[Ui].discard
          /\ \A t \in Task : call'[t] = call[t]
      BY <1>0, <1>2, <2>3, <3>1, CallCalls
    <3> QED BY <2>1, <2>2, <3>2 DEF SoloInv, UiAsks, RunDiscards, Asking, Discarding
  <2>4. ASSUME NEW t \in Task, th = t PROVE SoloInv'
    <3>1. call[t].at # "none" /\ (\A x \in Thread : x # t => call'[x] = call[x]) /\ call'[t].id = call[t].id
      BY <1>0, <1>2, <2>4, CallCalls DEF Asking, Discarding
    <3>2. run[t].pc = "tail" /\ call[t].id = idOf[t] /\ call[t].at \in Discarding
      BY <3>1 DEF SoloInv, RunDiscards
    <3>3. ~(registry[idOf[t]] # 0 /\ ctl[registry[idOf[t]]].executing)
      <4> SUFFICES ASSUME registry[idOf[t]] # 0, ctl[registry[idOf[t]]].executing PROVE FALSE
        OBVIOUS
      <4>1. PICK u \in Task : run[u].pc \in Executing /\ run[u].ctl = registry[idOf[t]]
        BY <1>0 DEF ExecInv
      <4>2. idOf[u] = idOf[t]
        BY <1>0, <4>1 DEF Owned
      <4>3. u = t
        BY <3>2, <4>1, <4>2 DEF SoloInv, Solo, Active, Executing
      <4> QED BY <3>2, <4>1, <4>3 DEF Executing
    <3>4. call'[t].at \in Discarding \cup {"none"}
      BY <1>0, <1>2, <2>4, <3>2, <3>3, CallCalls DEF Discarding
    <3> QED BY <1>0, <2>1, <2>2, <3>1, <3>2, <3>4 DEF SoloInv, UiAsks, RunDiscards
  <2> QED BY <2>3, <2>4 DEF Thread
<1>3. CASE ReconcileNext
  BY <1>0, <1>3, ReconcileTypes, ReconcileCalls
     DEF SoloInv, Solo, Active, UiAsks, RunDiscards, Asking, Discarding
<1>4. CASE UiNext
  <2>1. /\ \A t \in Task : call'[t] = call[t]
        /\ call[Ui].at = "none"
        /\ call' = call \/ call'[Ui].at = "list" \/ (call'[Ui].at \in Asking /\ ~call'[Ui].discard)
    BY <1>0, <1>4, UiCalls
  <2>2. UiAsks'
    BY <2>1 DEF SoloInv, UiAsks, Asking, Discarding
  <2>3. RunDiscards'
    BY <1>0, <1>4, <2>1, UiRuns DEF SoloInv, RunDiscards
  <2>4. Solo'
    <3>1. ASSUME NEW i \in Id, Start(i) \/ Resume(i) PROVE Solo'
      <4>1. PICK t \in Task : idOf[t] = i /\ run[t].pc = "unborn" /\ Goes(t, "lookup")
        BY <1>0, <3>1, SpawnEffect DEF Start, Resume
      <4>2. Unoccupied(i)
        BY <3>1 DEF Start, Resume
      <4>3. \A u \in Task : u # t => run'[u] = run[u]
        BY <1>0, <4>1, GoesEffect DEF RunPc
      <4> QED BY <4>1, <4>2, <4>3 DEF SoloInv, Solo, Active, Unoccupied, At
    <3>2. ASSUME \A i \in Id : ~(Start(i) \/ Resume(i)) PROVE Solo'
      <4>1. ASSUME NEW t \in Task, HandleDone(t) PROVE \A u \in Task : Active(u)' => Active(u)
        BY <1>0, <4>1, GoesEffect DEF HandleDone, RunPc, Active, At
      <4>2. CASE run' = run
        BY <4>2 DEF SoloInv, Solo, Active
      <4> QED BY <1>4, <3>2, <4>1, <4>2
           DEF UiNext, SoloInv, Solo, Refresh, SyncCards, Pause, Stop, RemoveTransfer, Calling
    <3> QED BY <3>1, <3>2
  <2> QED BY <2>2, <2>3, <2>4 DEF SoloInv
<1>5. CASE Crash
  <2>1. Idle.at = "none"
    BY DEF Idle
  <2> QED BY <1>0, <1>5, <2>1, CrashEffect
          DEF SoloInv, Solo, Active, UiAsks, RunDiscards, Asking, Discarding
<1>6. CASE UNCHANGED tvars
  BY <1>6 DEF tvars, SoloInv, Solo, Active, UiAsks, RunDiscards
<1> QED BY <1>1, <1>2, <1>3, <1>4, <1>5, <1>6 DEF Next

LEMMA SoloInit == Init => SoloInv
BY Constants DEF Init, SoloInv, Solo, Active, UiAsks, RunDiscards, NewRun, Idle, Asking, Discarding

----------------------------------------------------------------------------
(* Rows and .part files *)

Reaping == call[Ui].at \in {"reapTemp", "reapRow"}
Scanning == {"scan", "reapTemp", "reapRow", "normalize"}

(* A run that writes has its row. *)
WriterHasRow == \A t \in Task : run[t].pc \in {"mark", "markSet", "stream"} => Disk(t).row # "none"

(* Whoever is about to delete a row has deleted the .part file before. *)
TempFirst == \A t \in Task : run[t].pc = "finRow" \/ call[t].at = "row" => ~Disk(t).part

(* A failed row without a .part file is nobody's who still writes: also when
   reconcile works from a list it made earlier. *)
Dead(i) == disk[i].row = "failed" /\ ~disk[i].part
DeadIsOver == \A i \in Id : Dead(i) => NoAhead(i)
ListedIsOver == \A i \in Id : listed[i] = "failed" => disk[i].part \/ NoAhead(i)
ReapedIsOver == \A i \in Id : Reaping /\ call[Ui].id = i => ~disk[i].part /\ NoAhead(i)

(* A failed row without a .part file and without a run is about to be reaped,
   so that the next run of the transfer does not meet it. *)
DeadIsReaped ==
    \A i \in Id : Dead(i) /\ (\A t \in Task : idOf[t] = i => ~Active(t)) =>
        call[Ui].at = "list" \/ listed[i] = "failed" \/ (Reaping /\ call[Ui].id = i)

(* What reconcile takes for live has a run; its list is empty between calls
   and has no complete rows. *)
LiveHasRun == \A i \in live : \E t \in Task : idOf[t] = i /\ Active(t)
ListInUse ==
    /\ call[Ui].at \notin Scanning => listed = NothingListed
    /\ \A i \in Id : listed[i] # "complete"

RowInv ==
    /\ WriterHasRow /\ TempFirst /\ DeadIsOver /\ ListedIsOver /\ ReapedIsOver /\ DeadIsReaped
    /\ LiveHasRun /\ ListInUse /\ PartHasRow

LEMMA Alone ==
    ASSUME SoloInv, NEW t \in Task, Active(t), NEW u \in Task, u # t, idOf[u] = idOf[t]
    PROVE  /\ run[u].pc \in {"unborn", "gone"} /\ call[u].at = "none"
BY DEF SoloInv, Solo, RunDiscards, Active

LEMMA RowsRun ==
    ASSUME TransferInv, SoloInv, RowInv, NEW t \in Task, RunNext(t)
    PROVE  RowInv'
<1> DEFINE i == idOf[t]
<1>0. /\ TypeInv /\ disk \in [Id -> DiskType] /\ i \in Id /\ Ui \in Thread /\ Ui # t /\ t \in Thread
      /\ call[Ui].id \in Id
      /\ \A u \in Task : u \in Thread /\ u # Ui /\ idOf[u] \in Id
  BY Typed, Constants DEF TransferInv, CallType
<1>1. /\ \A u \in Task : u # t => run'[u] = run[u] /\ call'[u] = call[u]
      /\ call'[Ui] = call[Ui]
      /\ \A j \in Id : j # i => disk'[j] = disk[j]
      /\ UNCHANGED <<listed, live>>
  <2>1. UNCHANGED <<listed, live>>
    BY DEF RunNext, Lookup, TryBegin, ClearCancel, ClearDiscard, SetQueued, WaitForSlot, Connect,
       Interrupted, Discover, UpsertDownload, ReadState, StoreDownloading, WriteBytes, CommitBlob,
       SetComplete, SourcesExhausted, NoticeCancel, FinishCancelled, FinishRemoveTemp,
       FinishDeleteRow, FinishPause, DropPermit, DropPermitNotify, FinalState, UnregisterStopped,
       LatchDiscard, EndExecution, LeaveQueue, LeaveNotify, envVars
  <2> QED BY <1>0, <2>1, RunLeavesOthers, RunCalls, RunDisk
<1>2. Active(t) /\ Active(t)' /\ (run'[t].pc \in Ahead => run[t].pc \in Ahead)
  BY <1>0, RunPoints DEF RunNext, Active, Ahead
<1>3. \A u \in Task : u # t /\ idOf[u] = i => run[u].pc \in {"unborn", "gone"} /\ call[u].at = "none"
  BY <1>2, Alone
<1>4. /\ \A j \in Id : NoAhead(j) => NoAhead(j)'
      /\ run'[t].pc \notin Ahead => NoAhead(i)'
  BY <1>1, <1>2, <1>3 DEF NoAhead, Ahead
<1>5. /\ ~disk[i].part /\ disk'[i].part => WriteBytes(t)
      /\ disk[i].part /\ ~disk'[i].part => CommitBlob(t) \/ FinishRemoveTemp(t)
      /\ disk[i].row # "none" /\ disk'[i].row = "none" => FinishDeleteRow(t)
      /\ disk[i].row # "failed" /\ disk'[i].row = "failed" => SourcesExhausted(t)
  BY <1>0, RunDisk
<1>6. WriterHasRow'
  <2> SUFFICES ASSUME NEW u \in Task, run'[u].pc \in {"mark", "markSet", "stream"}
               PROVE  disk'[idOf[u]].row # "none"
    BY DEF WriterHasRow, Disk
  <2>1. CASE u = t /\ UpsertDownload(t)
    BY <1>0, <2>1, RunDisk
  <2>2. CASE u = t /\ ~UpsertDownload(t)
    <3>1. run[t].pc \in {"mark", "markSet", "stream"}
      BY <1>0, <2>2, RunPoints DEF RunNext
    <3>2. disk[i].row # "none"
      BY <3>1 DEF RowInv, WriterHasRow, Disk
    <3>3. ~FinishDeleteRow(t)
      BY <3>1 DEF FinishDeleteRow, At
    <3> QED BY <1>5, <2>2, <3>2, <3>3
  <2>3. CASE u # t
    <3>1. idOf[u] # i
      BY <1>1, <1>3, <2>3
    <3> QED BY <1>0, <1>1, <2>3, <3>1 DEF RowInv, WriterHasRow, Disk
  <2> QED BY <2>1, <2>2, <2>3
<1>7. TempFirst'
  <2> SUFFICES ASSUME NEW u \in Task, run'[u].pc = "finRow" \/ call'[u].at = "row"
               PROVE  ~disk'[idOf[u]].part
    BY DEF TempFirst, Disk
  <2>1. CASE u = t
    <3>1. run'[t].pc = "finRow" => FinishRemoveTemp(t)
      BY <1>0, RunPoints DEF RunNext
    <3>2. call'[t].at # "row"
      <4>1. call[t].at = "row" => run[t].pc = "tail"
        BY DEF SoloInv, RunDiscards
      <4>2. run[t].pc = "tail" => LeaveQueue(t) /\ call[t].at = "none"
        BY <1>0, RunPoints DEF RunNext, LeaveQueue
      <4> QED BY <1>0, <4>1, <4>2, RunCalls
    <3> QED BY <1>0, <2>1, <3>1, <3>2, RunDisk
  <2>2. CASE u # t
    <3>1. idOf[u] # i
      BY <1>1, <1>3, <2>2
    <3> QED BY <1>0, <1>1, <2>2, <3>1 DEF RowInv, TempFirst, Disk
  <2> QED BY <2>1, <2>2
<1>8. CommitBlob(t) \/ FinishRemoveTemp(t) \/ SourcesExhausted(t) => NoAhead(i)'
  <2>1. CommitBlob(t) \/ FinishRemoveTemp(t) \/ SourcesExhausted(t) => run'[t].pc \notin Ahead
    BY <1>0, RunPoints DEF Ahead
  <2> QED BY <1>4, <2>1
<1>9. DeadIsOver' /\ ListedIsOver'
  <2>1. ASSUME NEW j \in Id, Dead(j)' PROVE NoAhead(j)'
    <3>1. CASE Dead(j)
      BY <1>4, <3>1 DEF RowInv, DeadIsOver
    <3>2. CASE ~Dead(j)
      <4>1. j = i
        BY <1>1, <2>1, <3>2 DEF Dead
      <4> QED BY <1>5, <1>8, <2>1, <3>2, <4>1 DEF Dead
    <3> QED BY <3>1, <3>2
  <2>2. ASSUME NEW j \in Id, listed'[j] = "failed", ~disk'[j].part PROVE NoAhead(j)'
    <3>1. CASE disk[j].part
      BY <1>1, <1>5, <1>8, <2>2, <3>1
    <3>2. CASE ~disk[j].part
      BY <1>1, <1>4, <2>2, <3>2 DEF RowInv, ListedIsOver
    <3> QED BY <3>1, <3>2
  <2> QED BY <2>1, <2>2 DEF DeadIsOver, ListedIsOver
<1>10. ReapedIsOver'
  <2> SUFFICES ASSUME NEW j \in Id, Reaping', call'[Ui].id = j PROVE ~disk'[j].part /\ NoAhead(j)'
    BY DEF ReapedIsOver
  <2>1. ~disk[j].part /\ NoAhead(j)
    BY <1>1 DEF RowInv, ReapedIsOver, Reaping
  <2>2. ~(i = j /\ WriteBytes(t))
    BY <2>1 DEF NoAhead, WriteBytes, At, Ahead
  <2> QED BY <1>0, <1>1, <1>4, <1>5, <2>1, <2>2
<1>11. DeadIsReaped'
  <2> SUFFICES ASSUME NEW j \in Id, Dead(j)', \A u \in Task : idOf[u] = j => ~Active(u)'
               PROVE  call'[Ui].at = "list" \/ listed'[j] = "failed" \/ (Reaping' /\ call'[Ui].id = j)
    BY DEF DeadIsReaped
  <2>1. j # i
    BY <1>2
  <2>2. Dead(j) /\ \A u \in Task : idOf[u] = j => ~Active(u)
    BY <1>1, <2>1 DEF Dead, Active
  <2> QED BY <1>1, <2>2 DEF RowInv, DeadIsReaped, Reaping
<1>12. LiveHasRun' /\ ListInUse'
  BY <1>1, <1>2 DEF RowInv, LiveHasRun, ListInUse, Active
<1>13. PartHasRow'
  <2> SUFFICES ASSUME NEW j \in Id, disk'[j].part, disk'[j].row = "none" PROVE FALSE
    BY DEF PartHasRow
  <2>1. CASE j = i /\ WriteBytes(t)
    <3>1. disk[i].row # "none"
      BY <2>1 DEF RowInv, WriterHasRow, Disk, WriteBytes, At
    <3> QED BY <1>0, <2>1, <3>1, RunDisk
  <2>2. CASE j = i /\ ~WriteBytes(t)
    <3>1. disk[i].part /\ disk[i].row # "none"
      BY <1>5, <2>2 DEF RowInv, PartHasRow
    <3>2. FinishDeleteRow(t)
      BY <1>5, <2>2, <3>1
    <3> QED BY <3>1, <3>2 DEF RowInv, TempFirst, Disk, FinishDeleteRow, At
  <2>3. CASE j # i
    BY <1>1, <2>3 DEF RowInv, PartHasRow
  <2> QED BY <2>1, <2>2, <2>3
<1> QED BY <1>6, <1>7, <1>9, <1>10, <1>11, <1>12, <1>13 DEF RowInv

LEMMA RowsCall ==
    ASSUME TransferInv, SoloInv, RowInv, NEW th \in Thread, CallNext(th), SoloInv'
    PROVE  RowInv'
<1>0. /\ TypeInv /\ disk \in [Id -> DiskType] /\ Ui \in Thread
      /\ \A u \in Task : u \in Thread /\ u # Ui /\ idOf[u] \in Id
      /\ UNCHANGED <<run, live, listed>>
  BY Typed, Constants, CallTypes DEF TransferInv, envVars
<1>1. CASE th = Ui
  <2>1. call[Ui].at \in Asking /\ call'[Ui].at \notin Scanning \cup {"list"}
    <3>1. call[Ui].at \in Asking /\ ~call[Ui].discard
      BY <1>0, <1>1, CallCalls DEF SoloInv, UiAsks
    <3> QED BY <1>0, <1>1, <3>1, CallCalls DEF Asking, Scanning
  <2>2. disk' = disk /\ \A u \in Task : call'[u] = call[u]
    BY <1>0, <1>1, <2>1, CallDisk, CallCalls DEF Asking
  <2>3. listed = NothingListed
    BY <2>1 DEF RowInv, ListInUse, Asking, Scanning
  <2>4. \A i \in Id : listed[i] # "failed"
    BY <2>3 DEF NothingListed
  <2>5. WriterHasRow' /\ TempFirst' /\ DeadIsOver' /\ LiveHasRun' /\ PartHasRow'
    BY <1>0, <2>2 DEF RowInv, WriterHasRow, TempFirst, DeadIsOver, Dead, NoAhead, LiveHasRun, Active,
                      PartHasRow, Disk
  <2>6. ListedIsOver' /\ ReapedIsOver' /\ ListInUse'
    BY <1>0, <2>1, <2>3, <2>4 DEF ListedIsOver, ReapedIsOver, Reaping, Scanning, ListInUse, RowInv
  <2>7. DeadIsReaped'
    <3>1. \A i \in Id : ~(Dead(i) /\ \A t \in Task : idOf[t] = i => ~Active(t))
      BY <2>1, <2>4 DEF RowInv, DeadIsReaped, Reaping, Asking
    <3> QED BY <1>0, <2>2, <3>1 DEF DeadIsReaped, Dead, Active
  <2> QED BY <2>5, <2>6, <2>7 DEF RowInv
<1>2. ASSUME NEW t \in Task, th = t PROVE RowInv'
  <2> DEFINE i == idOf[t]
  <2>1. call[t].at \in Discarding /\ run[t].pc = "tail" /\ call[t].id = i /\ i \in Id
    BY <1>0, <1>2, CallCalls DEF SoloInv, RunDiscards, Asking, Discarding
  <2>2. /\ \A x \in Thread : x # t => call'[x] = call[x]
        /\ \A j \in Id : j # i => disk'[j] = disk[j]
        /\ call[t].at = "temps" => ~disk'[i].part /\ disk'[i].row = disk[i].row /\ call'[t].at = "row"
        /\ call[t].at = "row" => /\ disk'[i].part = disk[i].part /\ disk'[i].row = "none"
                                 /\ call'[t].at = "unregister"
        /\ call[t].at \notin {"temps", "row"} => disk' = disk /\ call'[t].at # "row"
    BY <1>0, <1>2, <2>1, CallCalls, CallDisk DEF Discarding
  <2>3. NoAhead(i) /\ NoAhead(i)'
    BY <1>0, <2>1, Alone DEF NoAhead, Ahead, Active
  <2>4. call'[Ui] = call[Ui]
    BY <1>0, <2>2
  <2>5. call[t].at = "row" => ~disk[i].part
    BY DEF RowInv, TempFirst, Disk
  <2>6. /\ disk'[i].part => disk[i].part
        /\ disk'[i].row = disk[i].row \/ (disk'[i].row = "none" /\ ~disk'[i].part)
    BY <2>2, <2>5
  <2>7. WriterHasRow'
    <3>1. \A u \in Task : run[u].pc \in {"mark", "markSet", "stream"} => idOf[u] # i
      BY <2>3 DEF NoAhead, Ahead
    <3> QED BY <1>0, <2>2, <3>1 DEF RowInv, WriterHasRow, Disk
  <2>8. TempFirst'
    <3> SUFFICES ASSUME NEW u \in Task, run'[u].pc = "finRow" \/ call'[u].at = "row"
                 PROVE  ~disk'[idOf[u]].part
      BY DEF TempFirst, Disk
    <3>1. CASE u = t
      BY <1>0, <2>1, <2>2, <3>1
    <3>2. CASE u # t
      BY <1>0, <2>1, <2>2, <3>2, Alone DEF Active, RowInv, TempFirst, Disk
    <3> QED BY <3>1, <3>2
  <2>9. DeadIsOver' /\ ListedIsOver'
    <3>1. \A j \in Id : j # i => (NoAhead(j)' <=> NoAhead(j)) /\ (Dead(j)' <=> Dead(j))
      BY <1>0, <2>2 DEF NoAhead, Dead
    <3> QED BY <1>0, <2>2, <2>3, <3>1 DEF RowInv, DeadIsOver, ListedIsOver
  <2>10. ReapedIsOver'
    <3>1. \A j \in Id : NoAhead(j)' <=> NoAhead(j)
      BY <1>0 DEF NoAhead
    <3>2. \A j \in Id : ~disk[j].part => ~disk'[j].part
      BY <2>2, <2>6
    <3> QED BY <2>4, <3>1, <3>2 DEF Reaping, RowInv, ReapedIsOver
  <2>11. DeadIsReaped'
    <3>1. Active(t)'
      BY <1>0, <2>1 DEF Active
    <3>2. \A j \in Id : j # i => (Dead(j)' <=> Dead(j))
      BY <2>2 DEF Dead
    <3> QED BY <1>0, <2>4, <3>1, <3>2 DEF RowInv, DeadIsReaped, Reaping, Active
  <2>12. LiveHasRun' /\ ListInUse'
    BY <1>0, <2>4 DEF RowInv, LiveHasRun, ListInUse, Active
  <2>13. PartHasRow'
    BY <2>2, <2>6 DEF RowInv, PartHasRow
  <2> QED BY <2>7, <2>8, <2>9, <2>10, <2>11, <2>12, <2>13 DEF RowInv
<1> QED BY <1>1, <1>2 DEF Thread

(* Reconcile deletes nothing that a run still needs, although the list it works
   from may be old. *)
LEMMA RowsReconcile ==
    ASSUME TransferInv, SoloInv, RowInv, ReconcileNext
    PROVE  RowInv'
<1>0. /\ TypeInv /\ disk \in [Id -> DiskType] /\ listed \in [Id -> RowState]
      /\ call \in [Thread -> CallType] /\ Ui \in Thread /\ call[Ui] \in CallType /\ call[Ui].id \in Id
      /\ \A u \in Task : u \in Thread /\ u # Ui /\ idOf[u] \in Id
      /\ UNCHANGED run
  BY Typed, Constants, ReconcileTypes DEF TransferInv, CallType
<1>1. /\ \A t \in Task : call'[t] = call[t]
      /\ \A i \in Id : NoAhead(i)' <=> NoAhead(i)
      /\ \A t \in Task : Active(t)' <=> Active(t)
  BY <1>0, ReconcileCalls DEF NoAhead, Active
<1>2. ASSUME disk' = disk
      PROVE  WriterHasRow' /\ TempFirst' /\ DeadIsOver' /\ PartHasRow' /\ \A i \in Id : Dead(i)' <=> Dead(i)
  BY <1>0, <1>1, <1>2 DEF RowInv, WriterHasRow, TempFirst, DeadIsOver, PartHasRow, Disk, Dead
<1>3. CASE ListRows
  <2> DEFINE rest == [i \in Id |-> IF disk[i].row = "complete" \/ i \in live THEN "none"
                                  ELSE disk[i].row]
  <2>1. Step(Ui, "list", NextRow(rest)) /\ listed' = rest /\ live' = {} /\ disk' = disk
    BY <1>3 DEF ListRows
  <2>2. call'[Ui].at = NextRow(rest) /\ call'[Ui].at \in {"none", "scan"}
    BY <1>0, <2>1, StepEffect DEF NextRow
  <2>3. /\ call'[Ui].at = "none" => listed' = NothingListed
        /\ \A i \in Id : /\ listed'[i] # "complete" /\ (listed'[i] = "failed" => disk[i].row = "failed")
                         /\ disk[i].row = "failed" /\ i \notin live => listed'[i] = "failed"
    <3>1. call'[Ui].at = "none" => listed' = NothingListed
      <4> HIDE DEF rest
      <4> QED BY <2>1, <2>2 DEF NextRow
    <3> QED BY <2>1, <3>1
  <2>4. ListInUse' /\ LiveHasRun' /\ ReapedIsOver'
    BY <2>1, <2>2, <2>3 DEF ListInUse, LiveHasRun, ReapedIsOver, Reaping, Scanning
  <2>5. ListedIsOver'
    BY <1>1, <2>1, <2>3 DEF ListedIsOver, RowInv, DeadIsOver, Dead
  <2>6. DeadIsReaped'
    <3>1. \A i \in Id : Dead(i) /\ (\A t \in Task : idOf[t] = i => ~Active(t)) => listed'[i] = "failed"
      BY <2>3 DEF Dead, RowInv, LiveHasRun
    <3> QED BY <1>1, <1>2, <2>1, <3>1 DEF DeadIsReaped
  <2> QED BY <1>2, <2>1, <2>4, <2>5, <2>6 DEF RowInv
<1>4. ASSUME NEW i \in Id, ScanRow(i) PROVE RowInv'
  <2> DEFINE rest == [listed EXCEPT ![i] = "none"]
             at == CASE ~Keeps(listed[i], disk[i]) -> "reapTemp"
                     [] listed[i] = "running"      -> "normalize"
                     [] OTHER                      -> NextRow(rest)
  <2>0. /\ call' = [call EXCEPT ![Ui].id = i, ![Ui].at = at] /\ call[Ui].at = "scan"
        /\ listed' = rest /\ UNCHANGED <<disk, live>> /\ listed[i] # "none"
    BY <1>4, Zenon DEF ScanRow
  <2>1. /\ ~Keeps(listed[i], disk[i]) => at = "reapTemp"
        /\ Keeps(listed[i], disk[i]) => at \in {"normalize", NextRow(rest)}
    <3>1. CASE ~Keeps(listed[i], disk[i])
      <4>1. listed[i] # "running"
        BY <3>1 DEF Keeps
      <4> QED BY <3>1, <4>1
    <3>2. CASE Keeps(listed[i], disk[i]) /\ listed[i] = "running"  BY <3>2
    <3>3. CASE Keeps(listed[i], disk[i]) /\ listed[i] # "running"  BY <3>3
    <3> QED BY <3>1, <3>2, <3>3
  <2> HIDE DEF at
  <2>2. call'[Ui].at = at /\ call'[Ui].id = i
    BY <1>0, <2>0 DEF CallType
  <2>3. NextRow(rest) \in {"none", "scan"} /\ (NextRow(rest) = "none" => rest = NothingListed)
    BY DEF NextRow
  <2>4. /\ rest[i] = "none" /\ \A j \in Id : j # i => rest[j] = listed[j]
    BY <1>0
  <2> HIDE DEF rest
  <2>5. ListInUse' /\ LiveHasRun' /\ ListedIsOver'
    <3>1. at = "reapTemp" \/ at = "normalize" \/ at = NextRow(rest)
      BY <2>1
    <3>2. ListInUse'
      BY <2>0, <2>2, <2>3, <2>4, <3>1 DEF RowInv, ListInUse, Scanning
    <3>3. LiveHasRun'
      BY <1>1, <2>0 DEF RowInv, LiveHasRun
    <3>4. ListedIsOver'
      BY <1>1, <2>0, <2>4 DEF RowInv, ListedIsOver
    <3> QED BY <3>2, <3>3, <3>4
  <2>6. at = "reapTemp" => listed[i] = "failed" /\ ~disk[i].part
    <3>1. at = "reapTemp" => ~Keeps(listed[i], disk[i])
      BY <2>1, <2>3
    <3> QED BY <1>0, <2>0, <3>1 DEF Keeps, RowState, RowInv, ListInUse
  <2>7. ReapedIsOver'
    <3>1. Reaping' => at = "reapTemp"
      BY <2>1, <2>2, <2>3 DEF Reaping
    <3> QED BY <1>1, <2>0, <2>2, <2>6, <3>1 DEF RowInv, ReapedIsOver, ListedIsOver
  <2>8. DeadIsReaped'
    <3> SUFFICES ASSUME NEW j \in Id, Dead(j), \A t \in Task : idOf[t] = j => ~Active(t)
                 PROVE  listed'[j] = "failed" \/ (Reaping' /\ call'[Ui].id = j)
      BY <1>1, <1>2, <2>0 DEF DeadIsReaped
    <3>1. listed[j] = "failed"
      BY <2>0 DEF RowInv, DeadIsReaped, Reaping
    <3>2. CASE j # i
      BY <2>0, <2>4, <3>1, <3>2
    <3>3. CASE j = i
      <4>1. ~Keeps(listed[i], disk[i])
        BY <3>1, <3>3 DEF Keeps, Dead
      <4> QED BY <2>1, <2>2, <3>3, <4>1 DEF Reaping
    <3> QED BY <3>2, <3>3
  <2> QED BY <1>2, <2>0, <2>5, <2>7, <2>8 DEF RowInv
<1>5. CASE ReapTemp
  <2> DEFINE i == call[Ui].id
  <2>1. /\ Step(Ui, "reapTemp", "reapRow") /\ UNCHANGED <<live, listed>>
        /\ disk' = [disk EXCEPT ![i] = [disk[i] EXCEPT !.part = FALSE]]
    BY <1>0, <1>5 DEF ReapTemp, envVars
  <2>2. call[Ui].at = "reapTemp" /\ call'[Ui].at = "reapRow" /\ call'[Ui].id = call[Ui].id
    BY <1>0, <2>1, StepEffect
  <2>3. ~disk[i].part
    BY <1>0, <2>2 DEF RowInv, ReapedIsOver, Reaping
  <2>4. \A j \in Id : disk'[j] = disk[j]
    <3>1. [disk[i] EXCEPT !.part = FALSE] = disk[i]
      BY <1>0, <2>3 DEF DiskType
    <3> QED BY <1>0, <2>1, <3>1
  <2>5. disk' = disk
    BY <1>0, <2>1, <2>4
  <2>6. ListInUse' /\ LiveHasRun' /\ ListedIsOver' /\ ReapedIsOver' /\ DeadIsReaped'
    BY <1>1, <1>2, <2>1, <2>2, <2>5
       DEF RowInv, ListInUse, LiveHasRun, ListedIsOver, ReapedIsOver, DeadIsReaped, Reaping, Scanning
  <2> QED BY <1>2, <2>5, <2>6 DEF RowInv
<1>6. CASE ReapRow \/ Normalize
  <2> DEFINE i == call[Ui].id
  <2>1. /\ \E from \in {"reapRow", "normalize"} : Step(Ui, from, NextRow(listed))
        /\ UNCHANGED <<live, listed>>
    BY <1>6 DEF ReapRow, Normalize, envVars
  <2>2. /\ call[Ui].at \in {"reapRow", "normalize"} /\ call'[Ui].at = NextRow(listed)
        /\ call'[Ui].at \in {"none", "scan"}
    BY <1>0, <2>1, StepEffect DEF NextRow
  <2>3. /\ \A j \in Id : disk'[j].part = disk[j].part /\ (j # i => disk'[j] = disk[j])
        /\ disk'[i].row # "failed"
        /\ disk[i].row # "none" /\ disk'[i].row = "none" => NoAhead(i) /\ ~disk[i].part
    <3>1. CASE ReapRow
      <4>1. /\ disk' = [disk EXCEPT ![i] = [disk[i] EXCEPT !.row = "none"]] /\ call[Ui].at = "reapRow"
        BY <1>0, <3>1 DEF ReapRow, Step
      <4>2. NoAhead(i) /\ ~disk[i].part
        BY <1>0, <4>1 DEF RowInv, ReapedIsOver, Reaping
      <4> QED BY <1>0, <4>1, <4>2 DEF DiskType
    <3>2. CASE Normalize
      <4>1. SetDownloadState(i, "paused")
        BY <3>2 DEF Normalize
      <4> QED BY <1>0, <4>1, SetDownloadStateEffect DEF RowState
    <3> QED BY <1>6, <3>1, <3>2
  <2>4. \A j \in Id : Dead(j)' => Dead(j) /\ j # i
    BY <2>3 DEF Dead
  <2>5. WriterHasRow'
    <3> SUFFICES ASSUME NEW u \in Task, run[u].pc \in {"mark", "markSet", "stream"}
                 PROVE  disk'[idOf[u]].row # "none"
      BY <1>0 DEF WriterHasRow, Disk
    <3>1. disk[idOf[u]].row # "none" /\ ~NoAhead(idOf[u])
      BY DEF RowInv, WriterHasRow, Disk, NoAhead, Ahead
    <3> QED BY <1>0, <2>3, <3>1
  <2>6. TempFirst' /\ PartHasRow' /\ DeadIsOver' /\ ListedIsOver' /\ LiveHasRun'
    <3>1. TempFirst'
      BY <1>0, <1>1, <2>3 DEF RowInv, TempFirst, Disk
    <3>2. PartHasRow'
      BY <2>3 DEF RowInv, PartHasRow
    <3>3. DeadIsOver' /\ ListedIsOver' /\ LiveHasRun'
      BY <1>1, <2>1, <2>3, <2>4 DEF RowInv, DeadIsOver, ListedIsOver, LiveHasRun
    <3> QED BY <3>1, <3>2, <3>3
  <2>7. ReapedIsOver' /\ ListInUse'
    BY <2>1, <2>2 DEF RowInv, ReapedIsOver, Reaping, ListInUse, Scanning, NextRow
  <2>8. DeadIsReaped'
    BY <1>1, <2>1, <2>2, <2>4 DEF RowInv, DeadIsReaped
  <2> QED BY <2>5, <2>6, <2>7, <2>8 DEF RowInv
<1> QED BY <1>3, <1>4, <1>5, <1>6 DEF ReconcileNext

(* A run starts only when nothing dead is left of its transfer. *)
LEMMA RowsUi ==
    ASSUME Patient, "Remove" \notin Commands,
           TransferInv, ExecInv, Owned, SoloInv, RowInv, UiNext
    PROVE  RowInv'
<1>0. /\ TypeInv /\ run \in [Task -> RunType] /\ registry \in [Id -> 0 .. MaxControls]
      /\ \A i \in Id : registry[i] # 0 => registry[i] \in Control
      /\ \A t \in Task : idOf[t] \in Id
      /\ UNCHANGED <<disk, listed, ctl>>
  BY Typed, Constants, UiTypes DEF TransferInv, Control
<1>1. /\ \A t \in Task : call'[t] = call[t]
      /\ call[Ui].at = "none" /\ call'[Ui].at \notin Scanning
  BY <1>0, UiCalls DEF Asking, Scanning
<1>2. listed = NothingListed /\ \A i \in Id : listed[i] # "failed"
  BY <1>1 DEF RowInv, ListInUse, Scanning, NothingListed
<1>3. \A i \in Id : Dead(i) => \E t \in Task : idOf[t] = i /\ Active(t)
  BY <1>1, <1>2 DEF RowInv, DeadIsReaped, Reaping
<1>4. /\ ListInUse' /\ ReapedIsOver' /\ ListedIsOver' /\ PartHasRow'
      /\ \A i \in Id : Dead(i)' <=> Dead(i)
  BY <1>0, <1>1, <1>2 DEF RowInv, ListInUse, ReapedIsOver, Reaping, Scanning, ListedIsOver, PartHasRow, Dead
<1>5. WriterHasRow' /\ TempFirst'
  BY <1>0, <1>1, UiRuns DEF RowInv, WriterHasRow, TempFirst, Disk
<1>6. DeadIsOver'
  <2> SUFFICES ASSUME NEW i \in Id, Dead(i), NEW t \in Task, idOf[t] = i, run'[t].pc \in Ahead
               PROVE  FALSE
    BY <1>4 DEF DeadIsOver, NoAhead
  <2>1. run[t].pc \notin Ahead
    BY DEF RowInv, DeadIsOver, NoAhead
  <2>2. run'[t].pc = "lookup" /\ run[t].pc = "unborn"
    BY <1>0, <2>1, UiRuns DEF Ahead
  <2>3. PICK j \in Id : Start(j) \/ Resume(j)
    <3>1. ASSUME NEW u \in Task, HandleDone(u) PROVE FALSE
      BY <1>0, <2>2, <3>1, GoesEffect DEF HandleDone, RunPc
    <3>2. ~(Refresh \/ SyncCards \/ \E k \in Id : Pause(k) \/ Stop(k) \/ RemoveTransfer(k))
      BY <2>2 DEF Pause, Stop, RemoveTransfer, Calling, Refresh, SyncCards
    <3> QED BY <3>1, <3>2 DEF UiNext
  <2>4. j = i
    BY <1>0, <2>2, <2>3, SpawnEffect, GoesEffect DEF Start, Resume, RunPc
  <2>5. Unoccupied(i)
    BY <2>3, <2>4 DEF Start, Resume
  <2> QED BY <1>3, <2>5 DEF Unoccupied, Active, At
<1>7. ASSUME NEW reg, StartReconcile(reg), \A i \in Id : reg[i] # 0 => reg[i] = registry[i]
      PROVE  LiveHasRun'
  <2> SUFFICES ASSUME NEW i \in live' PROVE \E t \in Task : idOf[t] = i /\ Active(t)'
    BY DEF LiveHasRun
  <2>1. i \in Id /\ registry[i] # 0 /\ ctl[registry[i]].executing
    BY <1>7 DEF StartReconcile
  <2>2. PICK t \in Task : run[t].pc \in Executing /\ run[t].ctl = registry[i]
    BY <1>0, <2>1 DEF ExecInv
  <2>3. idOf[t] = i
    BY <2>1, <2>2 DEF Owned
  <2>4. run'[t] = run[t]
    BY <1>0, <2>2, UiRuns DEF Executing
  <2> QED BY <2>2, <2>3, <2>4 DEF Active, Executing
<1>8. CASE Refresh \/ \E t \in Task : HandleDone(t)
  <2>1. call'[Ui].at = "list" /\ LiveHasRun'
    <3>1. CASE Refresh
      BY <1>0, <1>7, <3>1, Constants DEF Refresh, StartReconcile, Idle, TransferInv, TypeInv, TypeOK
    <3>2. ASSUME NEW t \in Task, HandleDone(t) PROVE call'[Ui].at = "list" /\ LiveHasRun'
      <4>1. registry' = registry \/ registry' = [registry EXCEPT ![idOf[t]] = 0]
        BY <3>2, Zenon DEF HandleDone
      <4>2. \A i \in Id : registry'[i] # 0 => registry'[i] = registry[i]
        BY <1>0, <4>1
      <4>3. StartReconcile(registry')
        BY <3>2 DEF HandleDone
      <4>4. LiveHasRun'
        BY <1>7, <4>2, <4>3
      <4> QED BY <4>3, <4>4, Constants DEF StartReconcile, Idle, TransferInv, TypeInv, TypeOK
    <3> QED BY <1>8, <3>1, <3>2
  <2>2. DeadIsReaped'
    BY <2>1 DEF DeadIsReaped
  <2> QED BY <1>4, <1>5, <1>6, <2>1, <2>2 DEF RowInv
<1>9. CASE ~(Refresh \/ \E t \in Task : HandleDone(t))
  <2>1. live' = live /\ \A t \in Task : Active(t) => Active(t)'
    <3>1. ASSUME NEW i \in Id, Start(i) \/ Resume(i)
          PROVE  live' = live /\ \A t \in Task : Active(t) => Active(t)'
      BY <1>0, <3>1, SpawnEffect, GoesEffect DEF Start, Resume, RunPc, Active
    <3>2. ASSUME NEW i \in Id, Pause(i) \/ Stop(i) \/ RemoveTransfer(i) PROVE UNCHANGED <<live, run>>
      BY <3>2 DEF Pause, Stop, RemoveTransfer, Calling
    <3>3. SyncCards => UNCHANGED <<live, run>>
      BY DEF SyncCards, envVars
    <3> QED BY <1>9, <3>1, <3>2, <3>3 DEF UiNext, Active
  <2>2. LiveHasRun'
    BY <2>1 DEF RowInv, LiveHasRun
  <2>3. DeadIsReaped'
    BY <1>3, <1>4, <2>1 DEF DeadIsReaped
  <2> QED BY <1>4, <1>5, <1>6, <2>2, <2>3 DEF RowInv
<1> QED BY <1>8, <1>9

LEMMA RowsCrash ==
    ASSUME TransferInv, RowInv, Crash
    PROVE  RowInv'
<1>0. /\ TypeInv /\ disk \in [Id -> DiskType] /\ Ui \in Thread /\ \A t \in Task : t \in Thread
      /\ Idle.at = "none"
  BY Typed, Constants DEF TransferInv, Idle
<1>1. /\ \A t \in Task : run'[t].pc \in {"unborn", "gone"} /\ call'[t].at = "none"
      /\ call'[Ui].at = "none" /\ live' = {} /\ listed' = NothingListed
      /\ \A i \in Id : disk'[i] = Reconciled(disk[i])
  BY <1>0, CrashEffect
<1>2. \A i \in Id : ~Dead(i)' /\ (disk'[i].part => disk'[i].row # "none")
  BY <1>0, <1>1, ReconciledType DEF Dead, RowInv, PartHasRow
<1>3. WriterHasRow' /\ TempFirst' /\ PartHasRow' /\ DeadIsOver' /\ DeadIsReaped'
  BY <1>1, <1>2 DEF WriterHasRow, TempFirst, PartHasRow, DeadIsOver, DeadIsReaped
<1>4. ListedIsOver' /\ ReapedIsOver' /\ LiveHasRun' /\ ListInUse'
  BY <1>1 DEF ListedIsOver, ReapedIsOver, Reaping, LiveHasRun, ListInUse, NothingListed
<1> QED BY <1>3, <1>4 DEF RowInv

LEMMA RowsInit == Init => RowInv
<1> SUFFICES ASSUME Init PROVE RowInv
  OBVIOUS
<1>1. WriterHasRow /\ TempFirst /\ PartHasRow
  BY Constants DEF Init, WriterHasRow, TempFirst, PartHasRow, NewRun, Idle, Disk
<1>2. DeadIsOver /\ DeadIsReaped
  BY DEF Init, DeadIsOver, DeadIsReaped, Dead
<1>3. ListedIsOver /\ ReapedIsOver /\ LiveHasRun /\ ListInUse
  BY Constants DEF Init, ListedIsOver, ReapedIsOver, Reaping, LiveHasRun, ListInUse, NothingListed, Idle
<1> QED BY <1>1, <1>2, <1>3 DEF RowInv

DiskInv == TransferInv /\ ExecInv /\ Owned /\ SoloInv /\ RowInv

LEMMA DiskStep ==
    ASSUME Patient, "Remove" \notin Commands
    PROVE  DiskInv /\ [Next]_tvars => DiskInv'
<1> SUFFICES ASSUME DiskInv, [Next]_tvars PROVE DiskInv'
  OBVIOUS
<1>1. TransferInv' /\ ExecInv' /\ Owned' /\ SoloInv'
  BY TransferStep, ExecStep, OwnedStep, SoloStep DEF DiskInv
<1>2. CASE UNCHANGED tvars
  <2>1. RowInv'
    BY <1>2 DEF DiskInv, tvars, envVars, RowInv, WriterHasRow, TempFirst, PartHasRow, Disk, DeadIsOver,
       DeadIsReaped, Dead, NoAhead, Active, ListedIsOver, ReapedIsOver, Reaping, LiveHasRun, ListInUse
  <2> QED BY <1>1, <2>1 DEF DiskInv
<1> QED BY <1>1, <1>2, RowsRun, RowsCall, RowsReconcile, RowsUi, RowsCrash DEF DiskInv, Next

LEMMA DiskInit == Init => DiskInv
BY TransferInit, ExecInit, OwnedInit, SoloInit, RowsInit DEF DiskInv

(* A .part file always has its row in the downloads table, so that a restart
   offers it again or reaps it: the stale list of a reconcile never takes the
   row of a run that has started since. *)
THEOREM PartsHaveRows ==
    ASSUME Patient, "Remove" \notin Commands
    PROVE  Spec => []PartHasRow
<1>1. DiskInv /\ [Next]_tvars => DiskInv'
  BY DiskStep
<1>2. DiskInv => PartHasRow
  BY DEF DiskInv, RowInv
<1> QED BY <1>1, <1>2, DiskInit, PTL DEF Spec

----------------------------------------------------------------------------
(* What the user has asked for *)

(* Who discards was asked to stop. *)
AskedInv ==
    \A t \in Task :
        /\ run[t].pc \in Executing \ {"clearCancel", "clearDiscard"} /\ Driven(t).discard
               => "stop" \in Driven(t).wanted
        /\ run[t].pc \in {"finTemp", "finRow"} => "stop" \in Driven(t).wanted
        /\ run[t].pc \in {"end", "tail"} /\ run[t].latched => "stop" \in Driven(t).wanted
        /\ call[t].at # "none" => "stop" \in Driven(t).wanted

(* Past the result of an interruption. *)
Interrupt == {"release", "notify", "final", "unregister", "latch"}
Past == Interrupt \cup {"end", "tail", "left", "done", "gone"}

(* A stopped run has left nothing, or the discard is still to come: flagged,
   latched, or in progress. *)
StoppedInv ==
    \A t \in Task : run[t].result = "Stopped" =>
        /\ run[t].ctl # 0 \/ run[t].pc = "gone"
        /\ run[t].pc \in Past
        /\ run[t].pc # "gone" /\ "pause" \notin Driven(t).wanted =>
              \/ ~Disk(t).part /\ Disk(t).row = "none"
              \/ run[t].pc \in Interrupt /\ Driven(t).discard
              \/ run[t].pc = "end" /\ run[t].latched
              \/ run[t].pc = "tail" /\ call[t].at \in {"check", "temps"}
              \/ run[t].pc = "tail" /\ call[t].at = "row" /\ ~Disk(t).part

(* The flags of the controls, as the steps of a run leave them. *)
LEMMA RunFlags ==
    ASSUME TypeInv, NEW t \in Task, RunNext(t)
    PROVE  /\ \A c \in Control : c # run[t].ctl => ctl'[c] = ctl[c]
           /\ \A c \in Control : ctl'[c].discard => ctl[c].discard
           /\ ~ClearDiscard(t) => \A c \in Control : ctl'[c].discard = ctl[c].discard
           /\ ~TryBegin(t) => \A c \in Control : ctl'[c].wanted = ctl[c].wanted
           /\ ClearDiscard(t) => ~ctl'[run[t].ctl].discard
<1>0. ctl \in [Control -> ControlType]
  BY Typed
<1>1. CASE SetQueued(t) \/ Connect(t) \/ StoreDownloading(t) \/ FinalState(t)
  <2>1. \E s \in TransferState : SetState(run[t].ctl, s)
    BY <1>1 DEF SetQueued, Connect, StoreDownloading, FinalState, TransferState
  <2>2. run[t].ctl \in Control /\ run[t].pc # "clearDiscard"
    BY <1>1, Typed DEF SetQueued, Connect, StoreDownloading, FinalState, At
  <2> QED BY <1>0, <2>1, <2>2, SetStateEffect DEF ClearDiscard, At
<1>2. CASE ClearCancel(t) \/ ClearDiscard(t) \/ EndExecution(t)
  <2>1. run[t].ctl \in Control
    BY <1>2, Typed DEF ClearCancel, ClearDiscard, EndExecution, At
  <2>2. PICK k \in Control : k = run[t].ctl
    BY <2>1
  <2>3. CASE ClearDiscard(t)
    <3>1. ctl' = [ctl EXCEPT ![k].discard = FALSE]
      BY <2>2, <2>3 DEF ClearDiscard
    <3> QED BY <1>0, <2>2, <2>3, <3>1 DEF ControlType
  <2>4. CASE ~ClearDiscard(t)
    <3>1. ctl' = [ctl EXCEPT ![k].cancel = FALSE] \/ ctl' = [ctl EXCEPT ![k].executing = FALSE]
      BY <1>2, <2>2, <2>4 DEF ClearCancel, EndExecution
    <3> QED BY <1>0, <2>2, <2>4, <3>1 DEF ControlType
  <2> QED BY <2>3, <2>4
<1>3. CASE TryBegin(t)
  <2>1. run[t].ctl \in Control /\ run[t].pc # "clearDiscard"
    BY <1>3, Typed DEF TryBegin, At
  <2>2. PICK k \in Control : k = run[t].ctl
    BY <2>1
  <2>3. \/ ctl' = ctl
        \/ ctl' = [ctl EXCEPT ![k] = [ctl[k] EXCEPT !.executing = TRUE, !.wanted = {}]]
    BY <1>3, <2>2 DEF TryBegin
  <2>4. [ctl[k] EXCEPT !.executing = TRUE, !.wanted = {}].discard = ctl[k].discard
    BY <1>0 DEF ControlType
  <2>5. \A c \in Control : ctl'[c].discard = ctl[c].discard /\ (c # k => ctl'[c] = ctl[c])
    BY <1>0, <2>3, <2>4
  <2> QED BY <1>3, <2>1, <2>2, <2>5 DEF ClearDiscard, At
<1>4. CASE UNCHANGED ctl /\ ~ClearDiscard(t)
  BY <1>4
<1> QED BY <1>1, <1>2, <1>3, <1>4
     DEF RunNext, Lookup, WaitForSlot, Interrupted, Discover, UpsertDownload, ReadState, WriteBytes,
         CommitBlob, SetComplete, SourcesExhausted, NoticeCancel, FinishCancelled, FinishRemoveTemp,
         FinishDeleteRow, FinishPause, DropPermit, DropPermitNotify, UnregisterStopped,
         LatchDiscard, LeaveQueue, LeaveNotify, ClearDiscard, At

(* A call only adds to what is asked for: setting the discard flag comes with a
   stop, clearing it with a pause. *)
LEMMA CallFlags ==
    ASSUME TypeInv, NEW th \in Thread, CallNext(th), NEW c \in Control
    PROVE  /\ ctl[c].wanted \subseteq ctl'[c].wanted
           /\ ctl'[c].discard => ctl[c].discard \/ "stop" \in ctl'[c].wanted
           /\ ctl[c].discard => ctl'[c].discard \/ "pause" \in ctl'[c].wanted
<1>0. /\ ctl \in [Control -> ControlType]
      /\ call[th].at \in Asking => call[th].ctl \in Control
  BY Typed
<1>1. CASE Stop1(th) \/ Pause1(th)
  <2>1. call[th].ctl \in Control
    BY <1>0, <1>1 DEF Stop1, Pause1, Step, Asking
  <2>2. PICK k \in Control : k = call[th].ctl
    BY <2>1
  <2>3. PICK f \in BOOLEAN, w \in {"pause", "stop"} :
          /\ ctl' = [ctl EXCEPT ![k] = [ctl[k] EXCEPT !.discard = f, !.wanted = ctl[k].wanted \cup {w}]]
          /\ f <=> w = "stop"
    BY <1>0, <1>1, <2>2 DEF Stop1, Pause1
  <2>4. /\ [ctl[k] EXCEPT !.discard = f, !.wanted = ctl[k].wanted \cup {w}].discard = f
        /\ [ctl[k] EXCEPT !.discard = f, !.wanted = ctl[k].wanted \cup {w}].wanted = ctl[k].wanted \cup {w}
    BY <1>0 DEF ControlType
  <2>5. c # k => ctl'[c] = ctl[c]
    BY <1>0, <2>3
  <2>6. ctl'[k].discard = f /\ ctl'[k].wanted = ctl[k].wanted \cup {w}
    BY <1>0, <2>3, <2>4
  <2> QED BY <2>3, <2>5, <2>6
<1>2. CASE Stop2(th) \/ Pause2(th) \/ Stop3(th) \/ Pause3(th)
  BY <1>0, <1>2 DEF Stop2, Pause2, Stop3, Pause3, ControlType
<1>3. CASE UNCHANGED ctl
  BY <1>3
<1> QED BY <1>1, <1>2, <1>3 DEF CallNext, DiscardCheck, DiscardTemps, DiscardRow, DiscardUnregister

(* The control of an active run is not touched by the steps of another one. *)
LEMMA OtherDriven ==
    ASSUME TypeInv, Owned, SoloInv, NEW t \in Task, RunNext(t),
           NEW u \in Task, u # t, Active(u), run[u].ctl \in Control
    PROVE  ctl'[run[u].ctl] = ctl[run[u].ctl] /\ idOf[u] # idOf[t]
<1>1. Active(t)
  BY RunPoints DEF RunNext, Active
<1>2. idOf[u] # idOf[t]
  BY <1>1 DEF SoloInv, Solo
<1>3. run[u].ctl # run[t].ctl
  BY <1>2, Constants DEF Owned, Control
<1> QED BY <1>2, <1>3, RunFlags

(* How a run comes by its result and its latch. *)
LEMMA RunResults ==
    ASSUME TypeInv, NEW t \in Task, RunNext(t)
    PROVE  /\ run'[t].result = "Stopped" /\ run[t].result # "Stopped" =>
                 \/ Interrupted(t) /\ Driven(t).discard
                 \/ Discover(t) /\ run'[t].pc = "release" /\ Driven(t).discard
                 \/ FinishDeleteRow(t)
           /\ ~LatchDiscard(t) => run'[t].latched = run[t].latched
           /\ LatchDiscard(t) => run'[t].latched = Driven(t).discard
<1>0. run \in [Task -> RunType] /\ run[t] \in RunType
  BY Typed
<1>1. CASE Lookup(t)
  <2>1. \/ run'[t] = [run[t] EXCEPT !.pc = "done", !.result = "Failed"]
        \/ run'[t] = [run[t] EXCEPT !.pc = "begin", !.ctl = registry[idOf[t]]]
    BY <1>0, <1>1 DEF Lookup
  <2>2. ~LatchDiscard(t)
    BY <1>1 DEF Lookup, LatchDiscard, At
  <2> QED BY <1>0, <2>1, <2>2 DEF RunType
<1>2. CASE LatchDiscard(t)
  <2>1. run'[t] = [run[t] EXCEPT !.pc = "end", !.latched = Driven(t).discard]
    BY <1>0, <1>2 DEF LatchDiscard
  <2> QED BY <1>0, <1>2, <2>1 DEF RunType
<1>3. CASE WaitForSlot(t) \/ WriteBytes(t)
  <2>1. run' = run /\ ~LatchDiscard(t)
    BY <1>3 DEF WaitForSlot, WriteBytes, LatchDiscard, At
  <2> QED BY <2>1
<1>4. ASSUME ~LatchDiscard(t), NEW pc \in RunPc, Goes(t, pc)
      PROVE  run'[t].result = run[t].result /\ run'[t].latched = run[t].latched
  BY <1>0, <1>4, GoesEffect
<1>5. CASE \/ ClearCancel(t) \/ ClearDiscard(t) \/ SetQueued(t) \/ Connect(t) \/ UpsertDownload(t)
           \/ ReadState(t) \/ StoreDownloading(t) \/ CommitBlob(t) \/ NoticeCancel(t)
           \/ FinishCancelled(t) \/ FinishRemoveTemp(t) \/ DropPermit(t) \/ DropPermitNotify(t)
           \/ FinalState(t) \/ UnregisterStopped(t) \/ EndExecution(t) \/ LeaveQueue(t) \/ LeaveNotify(t)
  <2>1. \E pc \in RunPc : Goes(t, pc)
    BY <1>5 DEF ClearCancel, ClearDiscard, SetQueued, Connect, UpsertDownload,
       ReadState, StoreDownloading, CommitBlob, NoticeCancel, FinishCancelled, FinishRemoveTemp,
       DropPermit, DropPermitNotify, FinalState, UnregisterStopped, EndExecution, LeaveQueue,
       LeaveNotify, RunPc
  <2>2. ~LatchDiscard(t)
    BY <1>5 DEF ClearCancel, ClearDiscard, SetQueued, Connect, UpsertDownload,
       ReadState, StoreDownloading, CommitBlob, NoticeCancel, FinishCancelled, FinishRemoveTemp,
       DropPermit, DropPermitNotify, FinalState, UnregisterStopped, EndExecution, LeaveQueue,
       LeaveNotify, LatchDiscard, At
  <2> QED BY <1>4, <2>1, <2>2
<1>6. CASE TryBegin(t) \/ SetComplete(t) \/ SourcesExhausted(t) \/ FinishPause(t)
  <2>1. ~LatchDiscard(t)
    BY <1>6 DEF TryBegin, SetComplete, SourcesExhausted, FinishPause, LatchDiscard, At
  <2>2. \/ \E pc \in RunPc : Goes(t, pc)
        \/ \E pc \in RunPc, r \in {"Ok", "Cancelled", "Failed", "AlreadyRunning"} : Returns(t, r, pc)
    BY <1>6 DEF TryBegin, SetComplete, SourcesExhausted, FinishPause, RunPc
  <2> QED BY <1>0, <1>4, <2>1, <2>2, ReturnsEffect
<1>7. CASE FinishDeleteRow(t)
  <2>1. ~LatchDiscard(t) /\ Returns(t, "Stopped", "release")
    BY <1>7 DEF FinishDeleteRow, LatchDiscard, At
  <2> QED BY <1>0, <1>7, <2>1, ReturnsEffect DEF RunPc
<1>8. CASE Interrupted(t) \/ Discover(t)
  <2>1. ~LatchDiscard(t)
    BY <1>8 DEF Interrupted, Discover, LatchDiscard, At
  <2>2. \/ \E pc \in RunPc : Goes(t, pc)
        \/ \E pc \in RunPc, r \in {"Ok", "Failed"} : Returns(t, r, pc)
        \/ Interrupted(t) /\ Returns(t, Interruption(Driven(t)), "final")
        \/ Discover(t) /\ Returns(t, Interruption(Driven(t)), "release")
    BY <1>8 DEF Interrupted, Discover, RunPc
  <2>3. /\ Interruption(Driven(t)) \in {"Stopped", "Cancelled"}
        /\ Interruption(Driven(t)) = "Stopped" => Driven(t).discard
    BY DEF Interruption
  <2> QED BY <1>0, <1>4, <2>1, <2>2, <2>3, ReturnsEffect DEF RunPc
<1> QED BY <1>1, <1>2, <1>3, <1>5, <1>6, <1>7, <1>8 DEF RunNext

LEMMA AskedStep ==
    ASSUME Patient, "Remove" \notin Commands
    PROVE  DiskInv /\ AskedInv /\ [Next]_tvars => AskedInv'
<1> SUFFICES ASSUME DiskInv, AskedInv, [Next]_tvars PROVE AskedInv'
  OBVIOUS
<1>0. /\ TransferInv /\ TypeInv /\ Owned /\ SoloInv
      /\ \A t \in Task : t \in Thread /\ t # Ui
      /\ \A t \in Task : run[t].pc \notin {"unborn", "lookup", "done", "gone"} => run[t].ctl \in Control
      /\ \A t \in Task : call[t].at # "none" => run[t].pc = "tail"
  BY Typed, Constants DEF DiskInv, TransferInv, SoloInv, RunDiscards
<1> DEFINE Cares(t) == \/ run[t].pc \in Executing \cup {"tail"}
                       \/ call[t].at # "none"
<1>1. \A t \in Task : Cares(t) => run[t].ctl \in Control /\ Active(t)
  BY <1>0 DEF Executing, Active
<1>2. ASSUME NEW t \in Task, RunNext(t) PROVE AskedInv'
  <2>1. \A u \in Task : u # t => run'[u] = run[u] /\ call'[u] = call[u]
    BY <1>0, <1>2, RunLeavesOthers, RunCalls
  <2>2. ASSUME NEW u \in Task, u # t, Cares(u) PROVE ctl'[run[u].ctl] = ctl[run[u].ctl]
    BY <1>0, <1>1, <1>2, <2>2, OtherDriven
  <2>3. ASSUME NEW u \in Task, u # t
        PROVE  /\ run'[u].pc \in Executing \ {"clearCancel", "clearDiscard"} /\ Driven(u)'.discard
                     => "stop" \in Driven(u)'.wanted
               /\ run'[u].pc \in {"finTemp", "finRow"} => "stop" \in Driven(u)'.wanted
               /\ run'[u].pc \in {"end", "tail"} /\ run'[u].latched => "stop" \in Driven(u)'.wanted
               /\ call'[u].at # "none" => "stop" \in Driven(u)'.wanted
    <3>1. CASE Cares(u)
      BY <2>1, <2>2, <2>3, <3>1 DEF AskedInv, Driven
    <3>2. CASE ~Cares(u)
      BY <2>1, <2>3, <3>2 DEF Executing
    <3> QED BY <3>1, <3>2
  <2>4. call[t].at = "none"
    <3>1. run[t].pc = "tail" => LeaveQueue(t)
      BY <1>0, <1>2, RunPoints DEF RunNext
    <3> QED BY <1>0, <3>1 DEF LeaveQueue
  <2>5. CASE Lookup(t) \/ TryBegin(t)
    <3>1. run'[t].pc \in {"begin", "done", "clearCancel"} /\ call'[t].at = "none"
      <4>1. ~EndExecution(t)
        BY <2>5 DEF Lookup, TryBegin, EndExecution, At
      <4> QED BY <1>0, <1>2, <2>4, <2>5, <4>1, RunPoints, RunCalls
    <3> QED BY <2>3, <3>1 DEF AskedInv, Executing
  <2>6. CASE ~Lookup(t) /\ ~TryBegin(t)
    <3>1. run[t].ctl \in Control /\ run'[t].ctl = run[t].ctl
      <4>1. run[t].pc \notin {"unborn", "lookup", "done", "gone"}
        BY <1>0, <1>2, <2>6, RunPoints DEF RunNext
      <4> QED BY <1>0, <1>2, <2>6, <4>1, RunKeepsControl
    <3>2. PICK c \in Control : c = run[t].ctl
      BY <3>1
    <3>3. /\ Driven(t) = ctl[c] /\ Driven(t)' = ctl'[c] /\ ctl'[c].wanted = ctl[c].wanted
          /\ ctl'[c].discard => ctl[c].discard
          /\ ClearDiscard(t) => ~ctl'[c].discard
      BY <1>0, <1>2, <2>6, <3>1, <3>2, RunFlags DEF Driven
    <3>4. run[t].pc \in Executing \ {"clearCancel", "clearDiscard"} /\ ctl[c].discard
              => "stop" \in ctl[c].wanted
      BY <3>3 DEF AskedInv
    <3>5. run'[t].pc \in Executing \ {"clearCancel", "clearDiscard"} /\ ctl'[c].discard
              => "stop" \in ctl'[c].wanted
      <4>1. run'[t].pc \in Executing \ {"clearCancel", "clearDiscard"} =>
              ClearDiscard(t) \/ run[t].pc \in Executing \ {"clearCancel", "clearDiscard"}
        BY <1>0, <1>2, <2>6, RunPoints DEF RunNext, Executing
      <4> QED BY <3>3, <3>4, <4>1
    <3>6. run'[t].pc \in {"finTemp", "finRow"} => "stop" \in ctl'[c].wanted
      <4>1. run'[t].pc = "finRow" => run[t].pc = "finTemp"
        BY <1>0, <1>2, RunPoints DEF RunNext
      <4>2. run'[t].pc = "finTemp" => FinishCancelled(t) /\ run[t].pc = "fin"
        BY <1>0, <1>2, RunPoints DEF RunNext
      <4>3. FinishCancelled(t) /\ run'[t].pc = "finTemp" => Driven(t).discard
        BY <1>0, GoesEffect, Typed DEF FinishCancelled, RunPc
      <4> QED BY <3>3, <3>4, <4>1, <4>2, <4>3 DEF AskedInv, Executing
    <3>7. run'[t].pc \in {"end", "tail"} /\ run'[t].latched => "stop" \in ctl'[c].wanted
      <4>1. /\ run'[t].pc = "end" => LatchDiscard(t) /\ run[t].pc = "latch"
            /\ run'[t].pc = "tail" => run[t].pc = "end" /\ ~LatchDiscard(t)
        BY <1>0, <1>2, RunPoints DEF RunNext, LatchDiscard, At
      <4> QED BY <1>0, <1>2, <3>3, <3>4, <4>1, RunResults DEF AskedInv, Executing
    <3>8. call'[t].at # "none" => "stop" \in ctl'[c].wanted
      <4>1. call'[t].at # "none" => EndExecution(t) /\ run[t].latched
        BY <1>0, <1>2, <2>4, RunCalls
      <4>2. EndExecution(t) => run[t].pc = "end"
        BY DEF EndExecution, At
      <4> QED BY <3>3, <4>1, <4>2 DEF AskedInv
    <3> QED BY <2>3, <3>3, <3>5, <3>6, <3>7, <3>8 DEF AskedInv
  <2> QED BY <2>5, <2>6
<1>3. ASSUME NEW th \in Thread, CallNext(th) PROVE AskedInv'
  <2>1. run' = run /\ \A t \in Task : call'[t].at # "none" => call[t].at # "none"
    <3>1. run' = run
      BY <1>0, <1>3, CallTypes
    <3>2. \A t \in Task : t # th => call'[t] = call[t]
      BY <1>0, <1>3, CallCalls
    <3>3. call[th].at # "none"
      BY <1>0, <1>3, CallCalls DEF Asking, Discarding
    <3> QED BY <3>1, <3>2, <3>3
  <2>2. \A c \in Control : /\ ctl[c].wanted \subseteq ctl'[c].wanted
                           /\ ctl'[c].discard => ctl[c].discard \/ "stop" \in ctl'[c].wanted
    BY <1>0, <1>3, CallFlags
  <2>3. ASSUME NEW t \in Task
        PROVE  /\ run'[t].pc \in Executing \ {"clearCancel", "clearDiscard"} /\ Driven(t)'.discard
                     => "stop" \in Driven(t)'.wanted
               /\ run'[t].pc \in {"finTemp", "finRow"} => "stop" \in Driven(t)'.wanted
               /\ run'[t].pc \in {"end", "tail"} /\ run'[t].latched => "stop" \in Driven(t)'.wanted
               /\ call'[t].at # "none" => "stop" \in Driven(t)'.wanted
    <3>1. CASE Cares(t)
      BY <1>1, <2>1, <2>2, <3>1 DEF AskedInv, Driven
    <3>2. CASE ~Cares(t)
      BY <2>1, <3>2 DEF Executing
    <3> QED BY <3>1, <3>2
  <2> QED BY <2>3 DEF AskedInv
<1>4. CASE ReconcileNext
  BY <1>0, <1>4, ReconcileTypes, ReconcileCalls DEF AskedInv, Driven
<1>5. CASE UiNext
  BY <1>0, <1>5, UiTypes, UiCalls, UiRuns DEF AskedInv, Driven, Executing
<1>6. CASE Crash
  <2>1. Idle.at = "none"
    BY DEF Idle
  <2> QED BY <1>0, <1>6, <2>1, CrashEffect DEF AskedInv, Executing
<1>7. CASE UNCHANGED tvars
  BY <1>7 DEF tvars, AskedInv, Driven
<1> QED BY <1>2, <1>3, <1>4, <1>5, <1>6, <1>7 DEF Next

LEMMA AskedInit == Init => AskedInv
BY Constants DEF Init, AskedInv, NewRun, Idle, Executing

(* A step that takes a .part file away commits it or was asked to. *)
LEMMA BytesKept ==
    ASSUME DiskInv, AskedInv, [Next]_tvars,
           NEW i \in Id, disk[i].part, ~disk'[i].part
    PROVE  disk'[i].blob \/ DiscardAsked(i)
<1>0. /\ TypeInv /\ SoloInv /\ disk \in [Id -> DiskType] /\ Ui \in Thread
      /\ \A t \in Task : t \in Thread /\ idOf[t] \in Id
      /\ \A t \in Task : run[t].pc \notin {"unborn", "lookup", "done", "gone"} => run[t].ctl # 0
  BY Typed, Constants DEF DiskInv, TransferInv, TypeInv, Refers
<1>1. ASSUME NEW t \in Task, RunNext(t) PROVE disk'[i].blob \/ DiscardAsked(i)
  <2>1. i = idOf[t] /\ (CommitBlob(t) \/ FinishRemoveTemp(t))
    BY <1>0, <1>1, RunDisk
  <2>2. CASE CommitBlob(t)
    BY <1>0, <1>1, <2>1, <2>2, RunDisk
  <2>3. CASE FinishRemoveTemp(t)
    BY <1>0, <2>1, <2>3 DEF FinishRemoveTemp, At, AskedInv, DiscardAsked
  <2> QED BY <2>1, <2>2, <2>3
<1>2. ASSUME NEW th \in Thread, CallNext(th) PROVE DiscardAsked(i)
  <2>1. call[th].id = i /\ call[th].at = "temps"
    BY <1>0, <1>2, CallDisk
  <2>2. ASSUME NEW t \in Task, th = t PROVE DiscardAsked(i)
    <3>1. run[t].pc = "tail" /\ idOf[t] = i
      BY <1>0, <2>1, <2>2 DEF SoloInv, RunDiscards
    <3> QED BY <1>0, <2>1, <2>2, <3>1 DEF AskedInv, DiscardAsked
  <2> QED BY <2>1, <2>2 DEF Thread, DiscardAsked
<1>3. ~ReconcileNext
  <2> SUFFICES ASSUME ReconcileNext PROVE FALSE
    OBVIOUS
  <2>1. ReapTemp /\ call[Ui].id = i
    <3>1. ASSUME NEW j \in Id, NEW s \in RowState \ {"none"}, SetDownloadState(j, s) PROVE FALSE
      BY <1>0, <3>1, SetDownloadStateEffect
    <3>2. CASE ListRows \/ \E j \in Id : ScanRow(j)
      BY <3>2 DEF ListRows, ScanRow
    <3>3. CASE Normalize
      BY <1>0, <3>1, <3>3, Typed DEF Normalize, CallType, RowState
    <3>4. CASE ReapRow
      <4>1. disk' = [disk EXCEPT ![call[Ui].id] = [disk[call[Ui].id] EXCEPT !.row = "none"]]
        BY <1>0, <3>4, Typed DEF ReapRow, CallType
      <4>2. [disk[i] EXCEPT !.row = "none"].part = disk[i].part
        BY <1>0 DEF DiskType
      <4> QED BY <1>0, <4>1, <4>2
    <3>5. CASE ReapTemp
      BY <1>0, <3>5 DEF ReapTemp
    <3> QED BY <3>2, <3>3, <3>4, <3>5 DEF ReconcileNext
  <2> QED BY <2>1 DEF DiskInv, RowInv, ReapedIsOver, Reaping, ReapTemp, Step
<1>4. ~UiNext
  BY <1>0, UiTypes
<1>5. ~Crash
  BY <1>0, CrashEffect, ReconciledType
<1>6. CASE UNCHANGED tvars
  BY <1>6 DEF tvars
<1> QED BY <1>1, <1>2, <1>3, <1>4, <1>5, <1>6 DEF Next

(* Downloaded bytes are deleted only on a stop: pauses, resumes, retries,
   refreshes and restarts keep a .part file until it becomes the blob. *)
THEOREM PausesKeepBytes ==
    ASSUME Patient, "Remove" \notin Commands
    PROVE  Spec => PauseKeepsBytes
<1> DEFINE Inv == DiskInv /\ AskedInv
           Kept == \A i \in Id : disk[i].part /\ ~disk'[i].part => disk'[i].blob \/ DiscardAsked(i)
<1>1. Init => Inv
  BY DiskInit, AskedInit
<1>2. Inv /\ [Next]_tvars => Inv'
  BY DiskStep, AskedStep
<1>3. Inv /\ [Next]_tvars => Kept
  BY BytesKept
<1>4. Spec => [][Kept]_tvars
  <2> HIDE DEF Inv, Kept
  <2> QED BY <1>1, <1>2, <1>3, PTL DEF Spec
<1> QED BY <1>4 DEF PauseKeepsBytes

----------------------------------------------------------------------------
(* What a stopped run leaves *)

(* The refresh brings nothing back. *)
LEMMA ReconcileDisk ==
    ASSUME TypeInv, ReconcileNext, NEW j \in Id
    PROVE  /\ disk'[j].part => disk[j].part
           /\ disk[j].row = "none" => disk'[j].row = "none"
<1>0. disk \in [Id -> DiskType] /\ Ui \in Thread /\ call[Ui].id \in Id /\ disk[j] \in DiskType
  BY Typed, Constants DEF CallType
<1>1. CASE ListRows \/ \E i \in Id : ScanRow(i)
  BY <1>1 DEF ListRows, ScanRow
<1>2. CASE Normalize
  BY <1>0, <1>2, SetDownloadStateEffect DEF Normalize, RowState
<1>3. CASE ReapRow
  <2>1. disk' = [disk EXCEPT ![call[Ui].id] = [disk[call[Ui].id] EXCEPT !.row = "none"]]
    BY <1>0, <1>3 DEF ReapRow
  <2>2. [disk[j] EXCEPT !.row = "none"].part = disk[j].part /\ [disk[j] EXCEPT !.row = "none"].row = "none"
    BY <1>0 DEF DiskType
  <2> QED BY <1>0, <2>1, <2>2
<1>4. CASE ReapTemp
  <2>1. disk' = [disk EXCEPT ![call[Ui].id] = [disk[call[Ui].id] EXCEPT !.part = FALSE]]
    BY <1>0, <1>4 DEF ReapTemp
  <2>2. ~[disk[j] EXCEPT !.part = FALSE].part /\ [disk[j] EXCEPT !.part = FALSE].row = disk[j].row
    BY <1>0 DEF DiskType
  <2> QED BY <1>0, <2>1, <2>2
<1> QED BY <1>1, <1>2, <1>3, <1>4 DEF ReconcileNext

Clean(t) == ~Disk(t).part /\ Disk(t).row = "none"
StillToDiscard(t) ==
    \/ run[t].pc \in Interrupt /\ Driven(t).discard
    \/ run[t].pc = "end" /\ run[t].latched
    \/ run[t].pc = "tail" /\ call[t].at \in {"check", "temps"}
    \/ run[t].pc = "tail" /\ call[t].at = "row" /\ ~Disk(t).part

(* StoppedInv for one run. *)
StoppedRun(t) ==
    run[t].result = "Stopped" =>
        /\ run[t].ctl # 0 \/ run[t].pc = "gone"
        /\ run[t].pc \in Past
        /\ run[t].pc # "gone" /\ "pause" \notin Driven(t).wanted => Clean(t) \/ StillToDiscard(t)

LEMMA StoppedRuns == /\ StoppedInv <=> \A t \in Task : StoppedRun(t)
                     /\ StoppedInv' <=> \A t \in Task : StoppedRun(t)'
BY DEF StoppedInv, StoppedRun, Clean, StillToDiscard

(* The steps of the run itself. *)
LEMMA StoppedOwn ==
    ASSUME DiskInv, NEW t \in Task, RunNext(t), StoppedRun(t)
    PROVE  StoppedRun(t)'
<1>0. /\ TransferInv /\ TypeInv /\ SoloInv /\ RowInv /\ idOf[t] \in Id /\ t \in Thread
      /\ run[t].pc \notin {"unborn", "lookup", "done", "gone"} => run[t].ctl \in Control
      /\ call[t].at # "none" => run[t].pc = "tail"
      /\ 0 \notin Control
  BY Typed, Constants DEF DiskInv, TransferInv, SoloInv, RunDiscards, Control
<1>1. SUFFICES ASSUME run'[t].result = "Stopped"
               PROVE  /\ run'[t].ctl # 0 /\ run'[t].pc \in Past
                      /\ "pause" \notin Driven(t)'.wanted => Clean(t)' \/ StillToDiscard(t)'
  BY DEF StoppedRun
<1>2. CASE run[t].result # "Stopped"
  <2>1. \/ Interrupted(t) /\ Driven(t).discard
        \/ Discover(t) /\ run'[t].pc = "release" /\ Driven(t).discard
        \/ FinishDeleteRow(t)
    BY <1>0, <1>1, <1>2, RunResults
  <2>2. /\ run[t].pc \in {"select", "discover", "finRow"} /\ run'[t].pc \in {"final", "release"}
        /\ ~Lookup(t) /\ ~ClearDiscard(t)
    BY <1>0, <2>1, RunPoints DEF Lookup, ClearDiscard, At
  <2>3. run[t].ctl \in Control /\ run'[t].ctl = run[t].ctl
    BY <1>0, <2>2, RunKeepsControl
  <2>4. Driven(t)'.discard = Driven(t).discard
    BY <1>0, <2>2, <2>3, RunFlags DEF Driven
  <2>5. CASE FinishDeleteRow(t)
    <3>1. ~Disk(t).part
      BY <1>0, <2>5, RunPoints DEF RowInv, TempFirst
    <3> QED BY <1>0, <2>2, <2>3, <2>5, <3>1, RunDisk DEF Clean, Disk, Past, Interrupt
  <2>6. CASE ~FinishDeleteRow(t)
    BY <1>0, <2>1, <2>2, <2>3, <2>4, <2>6 DEF StillToDiscard, Past, Interrupt
  <2> QED BY <2>5, <2>6
<1>3. CASE run[t].result = "Stopped"
  <2>1. /\ run[t].pc \in Past /\ run[t].pc \notin {"done", "gone"}
        /\ "pause" \notin Driven(t).wanted => Clean(t) \/ StillToDiscard(t)
    BY <1>0, <1>3, RunPoints DEF StoppedRun, RunNext
  <2>2. DropPermit(t) \/ DropPermitNotify(t) \/ FinalState(t) \/ UnregisterStopped(t) \/ LatchDiscard(t)
          \/ EndExecution(t) \/ LeaveQueue(t) \/ LeaveNotify(t)
    BY <1>0, <2>1, RunPoints DEF RunNext, Past, Interrupt
  <2>3. /\ ~Lookup(t) /\ ~TryBegin(t) /\ ~ClearDiscard(t) /\ run[t].ctl \in Control
        /\ run'[t].pc \in Past /\ run[t].pc \in Past \ {"done", "gone"}
        /\ ~UpsertDownload(t) /\ ~WriteBytes(t) /\ ~CommitBlob(t) /\ ~SetComplete(t)
        /\ ~SourcesExhausted(t) /\ ~FinishPause(t) /\ ~FinishRemoveTemp(t) /\ ~FinishDeleteRow(t)
    BY <1>0, <2>1, <2>2, RunPoints DEF Past, Interrupt
  <2>4. /\ disk' = disk /\ Disk(t)' = Disk(t)
        /\ run'[t].ctl = run[t].ctl
        /\ Driven(t)'.discard = Driven(t).discard /\ Driven(t)'.wanted = Driven(t).wanted
    <3>1. disk' = disk
      BY <1>0, <2>3, RunDisk
    <3>2. run'[t].ctl = run[t].ctl
      BY <1>0, <2>3, RunKeepsControl
    <3> QED BY <1>0, <2>3, <3>1, <3>2, RunFlags DEF Driven, Disk
  <2>5. CASE Clean(t)
    BY <1>0, <2>3, <2>4, <2>5 DEF Clean
  <2>6. CASE "pause" \in Driven(t).wanted
    BY <1>0, <2>3, <2>4, <2>6
  <2>7. CASE StillToDiscard(t)
    <3>1. CASE run[t].pc \in Interrupt \ {"latch"}
      <4>1. run'[t].pc \in Interrupt
        BY <1>0, <2>2, <3>1, RunPoints DEF Interrupt
      <4> QED BY <1>0, <2>3, <2>4, <2>7, <3>1, <4>1 DEF StillToDiscard, Interrupt
    <3>2. CASE run[t].pc = "latch"
      <4>1. LatchDiscard(t) /\ run'[t].pc = "end"
        BY <1>0, <2>2, <3>2, RunPoints
      <4> QED BY <1>0, <2>3, <2>4, <2>7, <3>2, <4>1, RunResults DEF StillToDiscard, Interrupt
    <3>3. CASE run[t].pc = "end"
      <4>1. EndExecution(t) /\ run[t].latched
        BY <1>0, <2>2, <2>7, <3>3, RunPoints DEF StillToDiscard, Interrupt
      <4> QED BY <1>0, <2>3, <2>4, <4>1, RunCalls DEF StillToDiscard
    <3>4. CASE run[t].pc = "tail"
      <4>1. LeaveQueue(t)
        BY <1>0, <2>2, <3>4, RunPoints
      <4> QED BY <2>7, <3>4, <4>1 DEF LeaveQueue, StillToDiscard, Interrupt
    <3> QED BY <2>7, <3>1, <3>2, <3>3, <3>4 DEF StillToDiscard
  <2> QED BY <2>1, <2>5, <2>6, <2>7
<1> QED BY <1>2, <1>3

(* The steps of the calls: a run's own discard, or a request from the page. *)
LEMMA StoppedCalled ==
    ASSUME DiskInv, NEW th \in Thread, CallNext(th), SoloInv', NEW u \in Task, StoppedRun(u)
    PROVE  StoppedRun(u)'
<1>0. /\ TransferInv /\ TypeInv /\ SoloInv /\ RowInv /\ idOf[u] \in Id /\ u \in Thread /\ Ui \in Thread
      /\ run[u].ctl # 0 => run[u].ctl \in Control
      /\ run' = run
  BY Typed, Constants, CallTypes DEF DiskInv, TransferInv, RunType, Control
<1>1. SUFFICES ASSUME run[u].result = "Stopped", run[u].pc # "gone", "pause" \notin Driven(u)'.wanted
               PROVE  Clean(u)' \/ StillToDiscard(u)'
  BY <1>0 DEF StoppedRun
<1>2. /\ run[u].ctl \in Control /\ run[u].pc \in Past
      /\ "pause" \notin Driven(u).wanted /\ (Driven(u).discard => Driven(u)'.discard)
    <2>1. run[u].ctl \in Control /\ run[u].pc \in Past
      BY <1>0, <1>1 DEF StoppedRun
    <2> QED BY <1>0, <1>1, <2>1, CallFlags DEF Driven
<1>3. Clean(u) \/ StillToDiscard(u)
  BY <1>1, <1>2 DEF StoppedRun
<1>4. Active(u)
  BY <1>1, <1>2 DEF Active, Past, Interrupt
<1>5. CASE th # u
  <2>1. call'[u] = call[u]
    BY <1>0, <1>5, CallCalls
  <2>2. disk'[idOf[u]] = disk[idOf[u]]
    <3>1. CASE th = Ui
      BY <1>0, <3>1, CallDisk DEF SoloInv, UiAsks, Discarding
    <3>2. CASE th \in Task
      <4>1. call[th].at # "none" /\ call[th].id = idOf[th] /\ Active(th)
        BY <1>0, <3>2, CallCalls DEF SoloInv, RunDiscards, Asking, Discarding, Active
      <4>2. idOf[th] # idOf[u]
        BY <1>0, <1>4, <1>5, <3>2, <4>1 DEF SoloInv, Solo
      <4> QED BY <1>0, <4>1, <4>2, CallDisk
    <3> QED BY <3>1, <3>2 DEF Thread
  <2> QED BY <1>0, <1>2, <1>3, <2>1, <2>2 DEF Clean, StillToDiscard, Disk
<1>6. CASE th = u
  <2>1. /\ call[u].id = idOf[u] /\ run[u].pc = "tail" /\ call[u].at \in Discarding
        /\ call'[u].at \in Discarding \cup {"none"}
    BY <1>0, <1>6, CallCalls DEF SoloInv, RunDiscards, Asking, Discarding
  <2>2. CASE call[u].at = "check"
    <3>1. call'[u].at = "temps"
      BY <1>0, <1>6, <2>1, <2>2, CallCalls DEF Discarding
    <3> QED BY <1>0, <2>1, <3>1 DEF StillToDiscard
  <2>3. CASE call[u].at = "temps"
    <3>1. call'[u].at = "row" /\ ~Disk(u)'.part
      BY <1>0, <1>6, <2>1, <2>3, CallCalls, CallDisk DEF Disk
    <3> QED BY <1>0, <2>1, <3>1 DEF StillToDiscard
  <2>4. CASE call[u].at = "row"
    <3>1. ~Disk(u).part
      BY <1>0, <2>4 DEF RowInv, TempFirst
    <3> QED BY <1>0, <1>6, <2>1, <2>4, <3>1, CallDisk DEF Clean, Disk
  <2>5. CASE call[u].at = "unregister"
    <3>1. Clean(u)
      BY <1>3, <2>1, <2>5 DEF StillToDiscard, Interrupt
    <3> QED BY <1>0, <1>6, <2>5, <3>1, CallDisk DEF Clean, Disk
  <2> QED BY <2>1, <2>2, <2>3, <2>4, <2>5 DEF Discarding
<1> QED BY <1>5, <1>6

LEMMA StoppedStep ==
    ASSUME Patient, "Remove" \notin Commands
    PROVE  DiskInv /\ StoppedInv /\ [Next]_tvars => StoppedInv'
<1> SUFFICES ASSUME DiskInv, StoppedInv, [Next]_tvars PROVE StoppedInv'
  OBVIOUS
<1>0. /\ TransferInv /\ TypeInv /\ Owned /\ SoloInv /\ DiskInv'
      /\ \A t \in Task : t \in Thread /\ t # Ui /\ idOf[t] \in Id
      /\ \A t \in Task : run[t].ctl # 0 => run[t].ctl \in Control
      /\ \A t \in Task : StoppedRun(t)
  BY Typed, Constants, DiskStep, StoppedRuns DEF DiskInv, TransferInv, RunType, Control
<1> SUFFICES ASSUME NEW u \in Task PROVE StoppedRun(u)'
  BY StoppedRuns
<1>2. ASSUME NEW t \in Task, RunNext(t) PROVE StoppedRun(u)'
  <2>1. CASE u = t
    BY <1>0, <1>2, <2>1, StoppedOwn
  <2>2. CASE u # t
    <3>1. run'[u] = run[u] /\ call'[u] = call[u]
      BY <1>0, <1>2, <2>2, RunLeavesOthers, RunCalls
    <3>2. CASE run[u].result = "Stopped" /\ run[u].pc # "gone"
      <4>1. run[u].ctl \in Control /\ Active(u)
        BY <1>0, <3>2 DEF StoppedRun, Active, Past, Interrupt
      <4>2. ctl'[run[u].ctl] = ctl[run[u].ctl] /\ disk'[idOf[u]] = disk[idOf[u]]
        BY <1>0, <1>2, <2>2, <4>1, OtherDriven, RunDisk
      <4> QED BY <1>0, <3>1, <4>2 DEF StoppedRun, Clean, StillToDiscard, Disk, Driven
    <3>3. CASE run[u].result # "Stopped" \/ run[u].pc = "gone"
      BY <1>0, <3>1, <3>3 DEF StoppedRun
    <3> QED BY <3>2, <3>3
  <2> QED BY <2>1, <2>2
<1>3. ASSUME NEW th \in Thread, CallNext(th) PROVE StoppedRun(u)'
  BY <1>0, <1>3, StoppedCalled DEF DiskInv
<1>4. CASE ReconcileNext
  <2>1. run' = run /\ ctl' = ctl /\ call'[u] = call[u]
    BY <1>0, <1>4, ReconcileTypes, ReconcileCalls
  <2>2. /\ disk'[idOf[u]].part => disk[idOf[u]].part
        /\ disk[idOf[u]].row = "none" => disk'[idOf[u]].row = "none"
    BY <1>0, <1>4, ReconcileDisk
  <2> QED BY <1>0, <2>1, <2>2 DEF StoppedRun, Clean, StillToDiscard, Disk, Driven
<1>5. CASE UiNext
  <2>1. /\ ctl' = ctl /\ disk' = disk /\ call'[u] = call[u]
        /\ run'[u].ctl = run[u].ctl /\ run'[u].result = run[u].result
        /\ \/ run'[u] = run[u]
           \/ run[u].pc = "unborn" /\ run'[u].pc = "lookup"
           \/ run[u].pc = "done" /\ run'[u].pc = "gone"
    BY <1>0, <1>5, UiTypes, UiCalls, UiRuns
  <2>2. CASE run'[u] = run[u]
    BY <1>0, <2>1, <2>2 DEF StoppedRun, Clean, StillToDiscard, Disk, Driven
  <2>3. CASE run[u].pc = "unborn"
    BY <1>0, <2>1, <2>3 DEF StoppedRun, Past, Interrupt
  <2>4. CASE run'[u].pc = "gone"
    BY <1>0, <2>1, <2>4 DEF StoppedRun, Past
  <2> QED BY <2>1, <2>2, <2>3, <2>4
<1>6. CASE Crash
  BY <1>0, <1>6, CrashEffect DEF StoppedRun
<1>7. CASE UNCHANGED tvars
  BY <1>0, <1>7 DEF tvars, StoppedRun, Clean, StillToDiscard, Disk, Driven
<1> QED BY <1>2, <1>3, <1>4, <1>5, <1>6, <1>7 DEF Next

LEMMA StoppedInit == Init => StoppedInv
BY DEF Init, StoppedInv, NewRun

(* A run that reports "Download stopped - progress discarded" has left neither
   a partial nor a row by the time its end is handled, wherever the stop
   caught it: flagged and then latched, or found by the worker itself. *)
THEOREM StoppedLeaveNothing ==
    ASSUME Patient, "Remove" \notin Commands
    PROVE  Spec => []StoppedLeavesNothing
<1> DEFINE Inv == DiskInv /\ StoppedInv
<1>1. Init => Inv
  BY DiskInit, StoppedInit
<1>2. Inv /\ [Next]_tvars => Inv'
  BY DiskStep, StoppedStep
<1>3. Inv => StoppedLeavesNothing
  BY DEF StoppedInv, StoppedLeavesNothing, At, Interrupt
<1> QED
  <2> HIDE DEF Inv
  <2> QED BY <1>1, <1>2, <1>3, PTL DEF Spec

============================================================================
