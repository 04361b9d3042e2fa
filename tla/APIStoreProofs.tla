--------------------------- MODULE APIStoreProofs ---------------------------
(***************************************************************************)
(* For any keys, body sizes and bound: the map, the list and the byte      *)
(* counter of the response cache agree and stay within the bound, and the  *)
(* eviction drops no more than it must, from the right end.                *)
(***************************************************************************)
EXTENDS APIStore, FiniteProofs, SequenceTheorems

StoreInv == StoreTypeOK /\ StoreSound /\ IsFiniteSet(Held)

-----------------------------------------------------------------------------
(* Lists without duplicates.                                               *)

\* The places of the list without k are those before k's and those after it.
LEMMA WithoutPlaces ==
  ASSUME NEW S, NEW q \in Seq(S), NEW k \in ToSet(q), IsInjective(q)
  PROVE  \E p \in 1..Len(q) :
           /\ q[p] = k
           /\ Without(q, k) \in Seq(S)
           /\ Len(Without(q, k)) = Len(q) - 1
           /\ \A i \in 1..(Len(q) - 1) :
                Without(q, k)[i] = IF i < p THEN q[i] ELSE q[i + 1]
  <1> DEFINE p == CHOOSE i \in DOMAIN q : q[i] = k
  <1> DEFINE front == SubSeq(q, 1, p - 1)
  <1> DEFINE back == SubSeq(q, p + 1, Len(q))
  <1>1. Len(q) \in Nat /\ DOMAIN q = 1..Len(q) /\ \A i \in 1..Len(q) : q[i] \in S
    BY LenProperties, ElementOfSeq
  <1>2. p \in 1..Len(q) /\ q[p] = k
    BY <1>1 DEF ToSet
  <1>3. Without(q, k) = front \o back
    BY DEF Without, RemoveAt
  <1> HIDE DEF p
  <1>4. /\ front \in Seq(S) /\ Len(front) = p - 1
        /\ \A i \in 1..(p - 1) : front[i] = q[i]
    <2>1. \A i \in 1..(p - 1) : q[i] \in S
      BY <1>1, <1>2
    <2>2. 1 \in Int /\ p - 1 \in Int /\ p \in Int
      BY <1>1, <1>2
    <2>3. /\ front \in Seq(S) /\ Len(front) = IF 1 <= p - 1 THEN p - 1 - 1 + 1 ELSE 0
          /\ \A i \in 1..(p - 1 - 1 + 1) : front[i] = q[1 + i - 1]
      BY <2>1, <2>2, SubSeqProperties
    <2> HIDE DEF front
    <2> QED
      BY <1>1, <1>2, <2>2, <2>3
  <1>5. /\ back \in Seq(S) /\ Len(back) = Len(q) - p
        /\ \A i \in 1..(Len(q) - p) : back[i] = q[p + i]
    <2>1. \A i \in (p + 1)..Len(q) : q[i] \in S
      BY <1>1, <1>2
    <2>2. p + 1 \in Int /\ Len(q) \in Int /\ p \in Int
      BY <1>1, <1>2
    <2>3. /\ back \in Seq(S)
          /\ Len(back) = IF p + 1 <= Len(q) THEN Len(q) - (p + 1) + 1 ELSE 0
          /\ \A i \in 1..(Len(q) - (p + 1) + 1) : back[i] = q[(p + 1) + i - 1]
      BY <2>1, <2>2, SubSeqProperties
    <2> HIDE DEF back
    <2>4. \A n \in Nat : \A m \in 1..n :
            /\ (IF m + 1 <= n THEN n - (m + 1) + 1 ELSE 0) = n - m
            /\ n - (m + 1) + 1 = n - m
      OBVIOUS
    <2>5. Len(back) = Len(q) - p /\ Len(q) - (p + 1) + 1 = Len(q) - p
      BY <1>1, <1>2, <2>3, <2>4
    <2>6. ASSUME NEW i \in 1..(Len(q) - p) PROVE back[i] = q[p + i]
      <3>1. back[i] = q[(p + 1) + i - 1]
        BY <2>3, <2>5
      <3>2. (p + 1) + i - 1 = p + i
        BY <2>2
      <3> QED
        BY <3>1, <3>2
    <2> QED
      BY <2>3, <2>5, <2>6
  <1> HIDE DEF front, back
  <1>6. /\ front \o back \in Seq(S)
        /\ Len(front \o back) = Len(front) + Len(back)
        /\ \A i \in 1..(Len(front) + Len(back)) :
             (front \o back)[i] = IF i <= Len(front) THEN front[i] ELSE back[i - Len(front)]
    BY <1>4, <1>5, ConcatProperties
  <1>7. ASSUME NEW i \in 1..(Len(q) - 1)
        PROVE  Without(q, k)[i] = IF i < p THEN q[i] ELSE q[i + 1]
    <2>1. i \in 1..(Len(front) + Len(back)) /\ p \in Int /\ i \in Int
      BY <1>1, <1>2, <1>4, <1>5
    <2>2. CASE i < p
      BY <1>3, <1>4, <1>6, <2>1, <2>2
    <2>3. CASE ~(i < p)
      <3>1. Without(q, k)[i] = back[i - (p - 1)]
        BY <1>3, <1>4, <1>6, <2>1, <2>3
      <3>2. i - (p - 1) \in 1..(Len(q) - p) /\ p + (i - (p - 1)) = i + 1
        BY <1>1, <1>2, <2>1, <2>3
      <3> QED
        BY <1>5, <2>3, <3>1, <3>2
    <2> QED
      BY <2>2, <2>3
  <1>8. Without(q, k) \in Seq(S) /\ Len(Without(q, k)) = Len(q) - 1
    BY <1>1, <1>2, <1>3, <1>4, <1>5, <1>6
  <1> QED
    BY <1>2, <1>7, <1>8

\* Taking k out of a list keeps the others, each once and in their order.
LEMMA WithoutKeeps ==
  ASSUME NEW S, NEW q \in Seq(S), NEW k, IsInjective(q)
  PROVE  /\ Without(q, k) \in Seq(S)
         /\ IsInjective(Without(q, k))
         /\ ToSet(Without(q, k)) = ToSet(q) \ {k}
         /\ \A x, y \in ToSet(q) \ {k} : Before(q, x, y) <=> Before(Without(q, k), x, y)
  <1> DEFINE w == Without(q, k)
  <1>1. CASE k \notin ToSet(q)
    BY <1>1 DEF Without
  <1>2. CASE k \in ToSet(q)
    <2>1. PICK p \in 1..Len(q) :
            /\ q[p] = k
            /\ w \in Seq(S)
            /\ Len(w) = Len(q) - 1
            /\ \A i \in 1..(Len(q) - 1) : w[i] = IF i < p THEN q[i] ELSE q[i + 1]
      BY <1>2, WithoutPlaces
    <2> HIDE DEF w
    <2>2. /\ Len(q) \in Nat /\ DOMAIN q = 1..Len(q) /\ DOMAIN w = 1..(Len(q) - 1)
          /\ p \in Int
      BY <2>1, LenProperties
    <2>3. \A i, j \in 1..Len(q) : q[i] = q[j] => i = j
      BY <2>2 DEF IsInjective
    <2>4. IsInjective(w)
      <3> SUFFICES ASSUME NEW i \in 1..(Len(q) - 1), NEW j \in 1..(Len(q) - 1), w[i] = w[j]
                   PROVE  i = j
        BY <2>2 DEF IsInjective
      <3>1. \A n \in 1..(Len(q) - 1) : n \in Int /\ n \in 1..Len(q) /\ n + 1 \in 1..Len(q)
        BY <2>2
      <3>2. w[i] = IF i < p THEN q[i] ELSE q[i + 1]
        BY <2>1
      <3>3. w[j] = IF j < p THEN q[j] ELSE q[j + 1]
        BY <2>1
      <3>4. (IF i < p THEN i ELSE i + 1) = (IF j < p THEN j ELSE j + 1)
        BY <2>3, <3>1, <3>2, <3>3
      <3> QED
        BY <2>2, <3>1, <3>4
    <2>5. \A n \in 1..Len(q) : n # p =>
            \E i \in 1..(Len(q) - 1) : w[i] = q[n] /\ n = IF i < p THEN i ELSE i + 1
      <3> SUFFICES ASSUME NEW n \in 1..Len(q), n # p
                   PROVE \E i \in 1..(Len(q) - 1) : w[i] = q[n] /\ n = IF i < p THEN i ELSE i + 1
        OBVIOUS
      <3>1. CASE n < p
        <4>1. n \in 1..(Len(q) - 1)
          BY <2>2, <3>1
        <4> QED
          BY <2>1, <3>1, <4>1
      <3>2. CASE ~(n < p)
        <4>1. n - 1 \in 1..(Len(q) - 1) /\ ~(n - 1 < p) /\ n - 1 + 1 = n
          BY <2>2, <3>2
        <4> QED
          BY <2>1, <4>1
      <3> QED
        BY <3>1, <3>2
    <2>6. \A i \in 1..(Len(q) - 1) : \E n \in 1..Len(q) : n # p /\ w[i] = q[n]
      <3> SUFFICES ASSUME NEW i \in 1..(Len(q) - 1)
                   PROVE \E n \in 1..Len(q) : n # p /\ w[i] = q[n]
        OBVIOUS
      <3>1. i \in 1..Len(q) /\ i + 1 \in 1..Len(q) /\ i \in Int
        BY <2>2
      <3>2. CASE i < p
        BY <2>1, <2>2, <3>1, <3>2
      <3>3. CASE ~(i < p)
        <4>1. i + 1 # p
          BY <2>2, <3>1, <3>3
        <4> QED
          BY <2>1, <3>1, <3>3, <4>1
      <3> QED
        BY <3>2, <3>3
    <2>7. ToSet(w) = ToSet(q) \ {k}
      <3>1. \A x : x \in ToSet(w) <=> \E i \in 1..(Len(q) - 1) : x = w[i]
        BY <2>2 DEF ToSet
      <3>2. \A x : x \in ToSet(q) <=> \E n \in 1..Len(q) : x = q[n]
        BY <2>2 DEF ToSet
      <3>3. \A n \in 1..Len(q) : q[n] = k => n = p
        BY <2>1, <2>3
      <3>4. \A x : x \in ToSet(w) => x \in ToSet(q) /\ x # k
        BY <2>6, <3>1, <3>2, <3>3
      <3>5. ASSUME NEW x, x \in ToSet(q), x # k PROVE x \in ToSet(w)
        <4>1. PICK n \in 1..Len(q) : x = q[n]
          BY <3>2, <3>5
        <4>2. \E i \in 1..(Len(q) - 1) : w[i] = q[n]
          BY <2>1, <2>5, <3>5, <4>1
        <4> QED
          BY <3>1, <4>1, <4>2
      <3> QED
        BY <3>4, <3>5
    <2>8. ASSUME NEW x \in ToSet(q) \ {k}, NEW y \in ToSet(q) \ {k}, Before(q, x, y)
          PROVE  Before(w, x, y)
      <3>1. PICK a \in 1..Len(q), b \in 1..Len(q) : a < b /\ q[a] = x /\ q[b] = y
        BY <2>2, <2>8 DEF Before
      <3>2. a # p /\ b # p
        BY <2>1, <3>1
      <3>3. PICK i \in 1..(Len(q) - 1) : w[i] = q[a] /\ a = IF i < p THEN i ELSE i + 1
        BY <2>5, <3>2
      <3>4. PICK j \in 1..(Len(q) - 1) : w[j] = q[b] /\ b = IF j < p THEN j ELSE j + 1
        BY <2>5, <3>2
      <3>5. i < j
        BY <2>2, <3>1, <3>3, <3>4
      <3> QED
        BY <2>2, <3>1, <3>3, <3>4, <3>5 DEF Before
    <2>9. ASSUME NEW x, NEW y, Before(w, x, y) PROVE Before(q, x, y)
      <3>1. PICK i \in 1..(Len(q) - 1), j \in 1..(Len(q) - 1) : i < j /\ w[i] = x /\ w[j] = y
        BY <2>2, <2>9 DEF Before
      <3> DEFINE a == IF i < p THEN i ELSE i + 1
      <3> DEFINE b == IF j < p THEN j ELSE j + 1
      <3>2. a \in 1..Len(q) /\ b \in 1..Len(q) /\ a < b
        BY <2>2, <3>1
      <3>3. q[a] = x /\ q[b] = y
        BY <2>1, <3>1
      <3> HIDE DEF a, b
      <3> QED
        BY <2>2, <3>2, <3>3 DEF Before
    <2> QED
      BY <2>1, <2>4, <2>7, <2>8, <2>9 DEF w
  <1> QED
    BY <1>1, <1>2

\* What Put keeps of a list and what it drops.
LEMMA FrontAndVictims ==
  ASSUME NEW S, NEW q \in Seq(S), IsInjective(q), NEW n \in 0..Len(q)
  PROVE  /\ SubSeq(q, 1, n) \in Seq(S)
         /\ IsInjective(SubSeq(q, 1, n))
         /\ ToSet(Victims(q, n)) = {q[i] : i \in (n + 1)..Len(q)}
         /\ ToSet(SubSeq(q, 1, n)) = ToSet(q) \ ToSet(Victims(q, n))
  <1> DEFINE f == SubSeq(q, 1, n)
  <1> DEFINE v == Victims(q, n)
  <1>1. /\ Len(q) \in Nat /\ DOMAIN q = 1..Len(q) /\ \A i \in 1..Len(q) : q[i] \in S
        /\ n \in Int /\ 0 <= n /\ n <= Len(q)
    BY LenProperties, ElementOfSeq
  <1>2. \A i, j \in 1..Len(q) : q[i] = q[j] => i = j
    BY <1>1 DEF IsInjective
  <1>3. f \in Seq(S) /\ DOMAIN f = 1..n /\ \A i \in 1..n : f[i] = q[i]
    <2>1. \A i \in 1..n : q[i] \in S
      BY <1>1
    <2>2. /\ f \in Seq(S) /\ Len(f) = IF 1 <= n THEN n - 1 + 1 ELSE 0
          /\ \A i \in 1..(n - 1 + 1) : f[i] = q[1 + i - 1]
      BY <1>1, <2>1, SubSeqProperties
    <2> HIDE DEF f
    <2>3. Len(f) = n
      BY <1>1, <2>2
    <2>4. DOMAIN f = 1..n
      BY <2>2, <2>3, LenProperties
    <2>5. ASSUME NEW i \in 1..n PROVE f[i] = q[i]
      <3>1. i \in 1..(n - 1 + 1) /\ 1 + i - 1 = i
        BY <1>1
      <3> QED
        BY <2>2, <3>1
    <2> QED
      BY <2>2, <2>4, <2>5
  <1>4. DOMAIN v = 1..(Len(q) - n) /\ \A i \in 1..(Len(q) - n) : v[i] = q[n + i]
    <2>1. \A i \in (n + 1)..Len(q) : q[i] \in S
      BY <1>1
    <2>2. n + 1 \in Int /\ Len(q) \in Int
      BY <1>1
    <2>3. /\ v \in Seq(S) /\ Len(v) = IF n + 1 <= Len(q) THEN Len(q) - (n + 1) + 1 ELSE 0
          /\ \A i \in 1..(Len(q) - (n + 1) + 1) : v[i] = q[(n + 1) + i - 1]
      BY <2>1, <2>2, SubSeqProperties DEF Victims
    <2> HIDE DEF v
    <2>4. \A m \in Nat : \A l \in 0..m :
            /\ (IF l + 1 <= m THEN m - (l + 1) + 1 ELSE 0) = m - l
            /\ m - (l + 1) + 1 = m - l
      OBVIOUS
    <2>5. Len(v) = Len(q) - n /\ Len(q) - (n + 1) + 1 = Len(q) - n
      BY <1>1, <2>3, <2>4
    <2>6. DOMAIN v = 1..(Len(q) - n)
      BY <2>3, <2>5, LenProperties
    <2>7. ASSUME NEW i \in 1..(Len(q) - n) PROVE v[i] = q[n + i]
      <3>1. (n + 1) + i - 1 = n + i
        BY <1>1
      <3> QED
        BY <2>3, <2>5, <3>1
    <2> QED
      BY <2>6, <2>7
  <1> HIDE DEF f, v
  <1>5. IsInjective(f)
    <2>1. \A i \in 1..n : i \in 1..Len(q)
      BY <1>1
    <2> QED
      BY <1>2, <1>3, <2>1 DEF IsInjective
  <1>6. \A x : x \in ToSet(f) <=> \E i \in 1..n : x = q[i]
    BY <1>3 DEF ToSet
  <1>7. \A x : x \in ToSet(v) <=> \E i \in 1..(Len(q) - n) : x = v[i]
    BY <1>4 DEF ToSet
  <1>8. \A x : x \in ToSet(q) <=> \E i \in 1..Len(q) : x = q[i]
    BY <1>1 DEF ToSet
  <1>9. \A x : x \in ToSet(v) <=> \E i \in (n + 1)..Len(q) : x = q[i]
    <2>1. ASSUME NEW x \in ToSet(v) PROVE \E i \in (n + 1)..Len(q) : x = q[i]
      <3>1. PICK i \in 1..(Len(q) - n) : x = v[i]
        BY <1>7
      <3>2. n + i \in (n + 1)..Len(q) /\ x = q[n + i]
        BY <1>1, <1>4, <3>1
      <3> QED
        BY <3>2
    <2>2. ASSUME NEW i \in (n + 1)..Len(q) PROVE q[i] \in ToSet(v)
      <3>1. i - n \in 1..(Len(q) - n) /\ n + (i - n) = i
        BY <1>1
      <3>2. v[i - n] = q[i]
        BY <1>4, <3>1
      <3> QED
        BY <1>7, <3>1, <3>2
    <2> QED
      BY <2>1, <2>2
  <1>10. ToSet(v) = {q[i] : i \in (n + 1)..Len(q)}
    BY <1>9
  <1>11. ToSet(f) = ToSet(q) \ ToSet(v)
    <2>1. ASSUME NEW i \in 1..n PROVE q[i] \in ToSet(q) /\ q[i] \notin ToSet(v)
      <3>1. i \in 1..Len(q)
        BY <1>1
      <3>2. \A j \in (n + 1)..Len(q) : j \in 1..Len(q) /\ i # j
        BY <1>1
      <3> QED
        BY <1>2, <1>8, <1>9, <3>1, <3>2
    <2>2. ASSUME NEW i \in 1..Len(q), q[i] \notin ToSet(v) PROVE i \in 1..n
      <3>1. i \notin (n + 1)..Len(q)
        BY <1>9, <2>2
      <3> QED
        BY <1>1, <3>1
    <2>3. \A x \in ToSet(f) : x \in ToSet(q) \ ToSet(v)
      BY <1>6, <2>1
    <2>4. \A x \in ToSet(q) \ ToSet(v) : x \in ToSet(f)
      BY <1>6, <1>8, <2>2
    <2> QED
      BY <2>3, <2>4
  <1> QED
    BY <1>3, <1>5, <1>10, <1>11 DEF f, v

\* PushFront.
LEMMA PushedFront ==
  ASSUME NEW S, NEW q \in Seq(S), IsInjective(q), NEW k \in S, k \notin ToSet(q)
  PROVE  /\ <<k>> \o q \in Seq(S)
         /\ IsInjective(<<k>> \o q)
         /\ ToSet(<<k>> \o q) = {k} \cup ToSet(q)
         /\ (<<k>> \o q)[1] = k
  <1> DEFINE p == <<k>>
  <1> DEFINE w == p \o q
  <1>1. p \in Seq(S) /\ Len(p) = 1 /\ p[1] = k
    OBVIOUS
  <1>2. Len(q) \in Nat /\ DOMAIN q = 1..Len(q)
    BY LenProperties
  <1> HIDE DEF p
  <1>3. /\ w \in Seq(S) /\ Len(w) = 1 + Len(q)
        /\ \A i \in 1..(1 + Len(q)) : w[i] = IF i <= 1 THEN p[i] ELSE q[i - 1]
    <2>1. /\ w \in Seq(S) /\ Len(w) = Len(p) + Len(q)
          /\ \A i \in 1..(Len(p) + Len(q)) :
               w[i] = IF i <= Len(p) THEN p[i] ELSE q[i - Len(p)]
      BY <1>1, ConcatProperties
    <2> HIDE DEF w
    <2> QED
      BY <1>1, <2>1
  <1> HIDE DEF w
  <1>4. DOMAIN w = 1..(1 + Len(q))
    BY <1>3, LenProperties
  <1>5. w[1] = k
    BY <1>1, <1>2, <1>3
  <1>6. \A i \in 1..Len(q) : i + 1 \in 1..(1 + Len(q)) /\ w[i + 1] = q[i]
    <2> SUFFICES ASSUME NEW i \in 1..Len(q)
                 PROVE  i + 1 \in 1..(1 + Len(q)) /\ w[i + 1] = q[i]
      OBVIOUS
    <2>1. i + 1 \in 1..(1 + Len(q)) /\ ~(i + 1 <= 1) /\ (i + 1) - 1 = i
      BY <1>2
    <2> QED
      BY <1>3, <2>1
  <1>7. \A j \in 1..(1 + Len(q)) : j = 1 \/ \E i \in 1..Len(q) : j = i + 1
    <2> SUFFICES ASSUME NEW j \in 1..(1 + Len(q)), j # 1
                 PROVE  \E i \in 1..Len(q) : j = i + 1
      OBVIOUS
    <2>1. j - 1 \in 1..Len(q) /\ j = (j - 1) + 1
      BY <1>2
    <2> QED
      BY <2>1
  <1>8. \A x : x \in ToSet(w) <=> \E j \in 1..(1 + Len(q)) : x = w[j]
    BY <1>4 DEF ToSet
  <1>9. \A x : x \in ToSet(q) <=> \E i \in 1..Len(q) : x = q[i]
    BY <1>2 DEF ToSet
  <1>10. 1 \in 1..(1 + Len(q))
    BY <1>2
  <1>11. ToSet(w) = {k} \cup ToSet(q)
    <2>1. \A x \in ToSet(w) : x = k \/ x \in ToSet(q)
      BY <1>5, <1>6, <1>7, <1>8, <1>9
    <2>2. k \in ToSet(w)
      BY <1>5, <1>8, <1>10
    <2>3. \A x \in ToSet(q) : x \in ToSet(w)
      BY <1>6, <1>8, <1>9
    <2> QED
      BY <2>1, <2>2, <2>3
  <1>12. IsInjective(w)
    <2>1. \A i, j \in 1..Len(q) : q[i] = q[j] => i = j
      BY <1>2 DEF IsInjective
    <2>2. \A i \in 1..Len(q) : w[i + 1] # k
      BY <1>6, <1>9
    <2>3. \A a, b \in 1..(1 + Len(q)) : w[a] = w[b] => a = b
      BY <1>5, <1>6, <1>7, <2>1, <2>2
    <2> QED
      BY <1>4, <2>3 DEF IsInjective
  <1> QED
    BY <1>3, <1>5, <1>11, <1>12 DEF w, p

-----------------------------------------------------------------------------
(* The bytes.                                                              *)

LEMMA BytesNat ==
  ASSUME StoreTypeOK, IsFiniteSet(Held), NEW S \in SUBSET Held
  PROVE  IsFiniteSet(S) /\ BytesOf(S) \in Nat
  <1> DEFINE f == [k \in Held |-> entries[k].size]
  <1>1. IsFiniteSet(S)
    BY FS_Subset
  <1>2. \A k \in S : f[k] \in Nat
    BY StoreAssumption DEF StoreTypeOK, Entry
  <1> HIDE DEF f
  <1>3. SumFunctionOnSet(f, S) \in Nat
    BY <1>1, <1>2, SumNat
  <1> QED
    BY <1>1, <1>3 DEF f, BytesOf

LEMMA BytesSplit ==
  ASSUME StoreTypeOK, IsFiniteSet(Held), NEW S \in SUBSET Held, NEW T \in SUBSET S
  PROVE  BytesOf(S) = BytesOf(T) + BytesOf(S \ T)
  <1> DEFINE f == [k \in Held |-> entries[k].size]
  <1>1. \A k \in S : f[k] \in Nat
    BY StoreAssumption DEF StoreTypeOK, Entry
  <1>2. IsFiniteSet(S)
    BY FS_Subset
  <1> HIDE DEF f
  <1>3. SumFunctionOnSet(f, S) = SumFunctionOnSet(f, T) + SumFunctionOnSet(f, S \ T)
    BY <1>1, <1>2, SumSplit
  <1> QED
    BY <1>3 DEF f, BytesOf

LEMMA BytesWithout ==
  ASSUME StoreTypeOK, IsFiniteSet(Held), NEW k \in Held
  PROVE  /\ BytesOf(Held) = entries[k].size + BytesOf(Held \ {k})
         /\ entries[k].size \in Nat
  <1> DEFINE f == [j \in Held |-> entries[j].size]
  <1>1. \A j \in Held : f[j] \in Nat
    BY StoreAssumption DEF StoreTypeOK, Entry
  <1>2. f[k] = entries[k].size
    OBVIOUS
  <1> HIDE DEF f
  <1>3. SumFunctionOnSet(f, Held) = f[k] + SumFunctionOnSet(f, Held \ {k})
    BY <1>1, SumRemove
  <1> QED
    BY <1>1, <1>2, <1>3 DEF f, BytesOf

\* Entries that keep their size keep their bytes.
LEMMA BytesSame ==
  ASSUME IsFiniteSet(Held), NEW S \in SUBSET Held, S \subseteq Held',
         \A k \in S : entries'[k].size = entries[k].size
  PROVE  BytesOf(S)' = BytesOf(S)
  <1> DEFINE f == [k \in Held |-> entries[k].size]
  <1> DEFINE h == [k \in Held' |-> entries'[k].size]
  <1>1. IsFiniteSet(S)
    BY FS_Subset
  <1>2. \A k \in S : h[k] = f[k]
    OBVIOUS
  <1> HIDE DEF f, h
  <1>3. SumFunctionOnSet(h, S) = SumFunctionOnSet(f, S)
    BY <1>1, <1>2, SumSame
  <1> QED
    BY <1>3 DEF f, h, BytesOf

-----------------------------------------------------------------------------
(* The operations.                                                         *)

\* An entry dropped leaves the map, the list and the counter.
LEMMA DropKeeps ==
  ASSUME StoreInv, NEW k \in Held, Drop(k)
  PROVE  StoreInv'
  <1>1. /\ Held \subseteq Keys /\ entries \in [Held -> Entry] /\ lru \in Seq(Keys)
        /\ ToSet(lru) = Held /\ IsInjective(lru) /\ \A j \in Held : entries[j].key = j
        /\ held = BytesOf(Held) /\ held <= MaxBytes /\ held \in Nat /\ IsFiniteSet(Held)
        /\ StoreTypeOK
    BY DEF StoreInv, StoreTypeOK, StoreSound
  <1>2. /\ Held' = Held \ {k} /\ entries' \in [Held' -> Entry]
        /\ \A j \in Held' : entries'[j] = entries[j]
    BY <1>1 DEF Drop, Held
  <1>3. /\ lru' \in Seq(Keys) /\ IsInjective(lru') /\ ToSet(lru') = Held'
    BY <1>1, <1>2, WithoutKeeps DEF Drop
  <1>4. IsFiniteSet(Held')
    BY <1>1, <1>2, FS_Subset
  <1>5. held' = BytesOf(Held') /\ BytesOf(Held') \in Nat /\ held' <= held
    <2>1. held' = BytesOf(Held) - entries[k].size
      BY <1>1 DEF Drop
    <2>2. BytesOf(Held) = entries[k].size + BytesOf(Held \ {k}) /\ entries[k].size \in Nat
      BY <1>1, BytesWithout
    <2>3. BytesOf(Held \ {k}) \in Nat
      BY <1>1, BytesNat
    <2> QED
      BY <1>1, <1>2, <2>1, <2>2, <2>3
  <1>6. BytesOf(Held') = BytesOf(Held)'
    <2>1. PICK S : S = Held'
      OBVIOUS
    <2>2. BytesOf(S)' = BytesOf(S)
      BY <1>1, <1>2, <2>1, BytesSame
    <2> QED
      BY <2>1, <2>2 DEF BytesOf
  <1> QED
    BY <1>1, <1>2, <1>3, <1>4, <1>5, <1>6, StoreAssumption
       DEF StoreInv, StoreTypeOK, StoreSound

\* What put finds: a list without k, the counter of its bytes, and the most
\* entries that may stay in front.
Room(k, size, rest, counted, n) ==
  /\ rest \in Seq(Keys) /\ IsInjective(rest) /\ ToSet(rest) = Held \ {k}
  /\ counted = BytesOf(Held \ {k})
  /\ n \in 0..Len(rest)
  /\ counted - BytesOf(ToSet(Victims(rest, n))) + size <= MaxBytes
  /\ \A i \in 0..Len(rest) :
       i > n => ~(counted - BytesOf(ToSet(Victims(rest, i))) + size <= MaxBytes)

\* What put does with them.
Putting(k, status, size, rest, counted, n) ==
  /\ rest = Without(lru, k)
  /\ lru' = <<k>> \o SubSeq(rest, 1, n)
  /\ entries' = [j \in {k} \cup (Held \ ToSet(Victims(rest, n))) |->
                   IF j = k THEN [key |-> k, status |-> status, size |-> size, age |-> 0]
                            ELSE entries[j]]
  /\ held' = counted - BytesOf(ToSet(Victims(rest, n))) + size

LEMMA VictimsHeld ==
  ASSUME NEW S, NEW q \in Seq(S), NEW n \in 0..Len(q), IsInjective(q)
  PROVE  ToSet(Victims(q, n)) \subseteq ToSet(q)
  <1>1. ToSet(Victims(q, n)) = {q[i] : i \in (n + 1)..Len(q)}
    BY FrontAndVictims
  <1>2. DOMAIN q = 1..Len(q) /\ Len(q) \in Nat
    BY LenProperties
  <1>3. \A i \in (n + 1)..Len(q) : i \in 1..Len(q)
    BY <1>2
  <1> QED
    BY <1>1, <1>2, <1>3 DEF ToSet

LEMMA PutRoom ==
  ASSUME StoreInv, NEW k \in Keys, NEW status, NEW size \in Sizes, Put(k, status, size)
  PROVE  \E rest, counted, n :
           Room(k, size, rest, counted, n) /\ Putting(k, status, size, rest, counted, n)
  <1> DEFINE rest == Without(lru, k)
  <1> DEFINE counted == IF k \in Held THEN held - entries[k].size ELSE held
  <1> DEFINE Fits == {i \in 0..Len(rest) :
                        counted - BytesOf(ToSet(Victims(rest, i))) + size <= MaxBytes}
  <1> DEFINE n == Max(Fits)
  <1>1. /\ lru \in Seq(Keys) /\ ToSet(lru) = Held /\ IsInjective(lru)
        /\ held = BytesOf(Held) /\ held \in Nat /\ IsFiniteSet(Held) /\ StoreTypeOK
    BY DEF StoreInv, StoreTypeOK, StoreSound
  <1>2. rest \in Seq(Keys) /\ IsInjective(rest) /\ ToSet(rest) = Held \ {k}
    BY <1>1, WithoutKeeps
  <1>3. counted = BytesOf(Held \ {k})
    <2>1. CASE k \in Held
      <3>1. BytesOf(Held) = entries[k].size + BytesOf(Held \ {k}) /\ entries[k].size \in Nat
        BY <1>1, <2>1, BytesWithout
      <3>2. BytesOf(Held \ {k}) \in Nat
        BY <1>1, BytesNat
      <3> QED
        BY <1>1, <2>1, <3>1, <3>2
    <2>2. CASE k \notin Held
      <3>1. Held \ {k} = Held
        BY <2>2
      <3> QED
        BY <1>1, <2>2, <3>1
    <2> QED
      BY <2>1, <2>2
  <1>4. size <= MaxBytes /\ size \in Nat
    BY StoreAssumption DEF Put
  <1> HIDE DEF rest, counted
  <1>5. Len(rest) \in Nat /\ DOMAIN rest = 1..Len(rest)
    BY <1>2, LenProperties
  <1>6. 0 \in Fits
    <2>1. ToSet(Victims(rest, 0)) = Held \ {k}
      <3>1. ToSet(Victims(rest, 0)) = {rest[i] : i \in 1..Len(rest)}
        BY <1>2, <1>5, FrontAndVictims
      <3> QED
        BY <1>2, <1>5, <3>1 DEF ToSet
    <2>2. counted - BytesOf(ToSet(Victims(rest, 0))) + size = size
      <3>1. BytesOf(Held \ {k}) \in Nat
        BY <1>1, BytesNat
      <3> QED
        BY <1>3, <1>4, <2>1, <3>1
    <2> QED
      BY <1>4, <1>5, <2>2
  <1>7. n \in Fits /\ \A i \in Fits : n >= i
    <2>1. Fits \subseteq 0..Len(rest)
      OBVIOUS
    <2>2. IsFiniteSet(Fits)
      <3>1. IsFiniteSet(0..Len(rest))
        BY <1>5, FS_Interval
      <3> QED
        BY <2>1, <3>1, FS_Subset
    <2>3. \A i \in Fits : i \in Int
      BY <1>5
    <2> HIDE DEF Fits
    <2> QED
      BY <1>6, <2>2, <2>3, MaxIsGreatest
  <1>8. Room(k, size, rest, counted, n)
    <2>1. n \in 0..Len(rest)
          /\ counted - BytesOf(ToSet(Victims(rest, n))) + size <= MaxBytes
      BY <1>7
    <2>2. ASSUME NEW i \in 0..Len(rest), i > n,
                 counted - BytesOf(ToSet(Victims(rest, i))) + size <= MaxBytes
          PROVE  FALSE
      <3>1. i \in Fits
        BY <2>2
      <3>2. n >= i /\ n \in Int /\ i \in Int
        BY <1>5, <1>7, <2>1, <3>1
      <3> HIDE DEF n
      <3> QED
        BY <2>2, <3>2
    <2> HIDE DEF n, Fits
    <2> QED
      BY <1>2, <1>3, <2>1, <2>2 DEF Room
  <1>9. Putting(k, status, size, rest, counted, n)
    BY DEF Put, Putting, rest, counted
  <1> HIDE DEF n
  <1> QED
    BY <1>8, <1>9

LEMMA PutKeeps ==
  ASSUME StoreInv, NEW k \in Keys, NEW size \in Sizes, Put(k, OK, size)
  PROVE  StoreInv'
  <1> DEFINE new == [key |-> k, status |-> OK, size |-> size, age |-> 0]
  <1>1. /\ Held \subseteq Keys /\ entries \in [Held -> Entry] /\ StoreTypeOK
        /\ \A j \in Held : entries[j].key = j
        /\ IsFiniteSet(Held)
    BY DEF StoreInv, StoreTypeOK, StoreSound
  <1>2. new \in Entry /\ size \in Nat /\ size <= MaxBytes
    BY StoreAssumption DEF Entry, Lifetime, Put
  <1>3. PICK rest, counted, n :
           Room(k, size, rest, counted, n) /\ Putting(k, OK, size, rest, counted, n)
    BY PutRoom
  <1> DEFINE gone == ToSet(Victims(rest, n))
  <1> DEFINE stay == ToSet(SubSeq(rest, 1, n))
  <1>4. /\ SubSeq(rest, 1, n) \in Seq(Keys) /\ IsInjective(SubSeq(rest, 1, n))
        /\ stay = (Held \ {k}) \ gone /\ gone \subseteq Held \ {k}
    BY <1>3, FrontAndVictims, VictimsHeld DEF Room
  <1>5. /\ counted - BytesOf(gone) + size <= MaxBytes
        /\ counted = BytesOf(Held \ {k})
    BY <1>3 DEF Room
  <1>6. /\ Held' = {k} \cup (Held \ gone)
        /\ entries'[k] = new
        /\ \A j \in Held' : j # k => j \in Held /\ entries'[j] = entries[j]
        /\ entries' = [j \in Held' |-> entries'[j]]
    <2>1. entries' = [j \in {k} \cup (Held \ gone) |-> IF j = k THEN new ELSE entries[j]]
      BY <1>3 DEF Putting
    <2> HIDE DEF new, gone
    <2> QED
      BY <2>1 DEF Held
  <1> HIDE DEF new
  <1> HIDE DEF gone, stay
  <1>7. Held' = {k} \cup stay /\ k \notin stay /\ stay \subseteq Held
    BY <1>4, <1>6
  <1>8. entries' \in [Held' -> Entry] /\ Held' \subseteq Keys
    <2>1. \A j \in Held' : entries'[j] \in Entry
      BY <1>1, <1>2, <1>6
    <2> QED
      BY <1>1, <1>6, <2>1
  <1>9. lru' \in Seq(Keys) /\ IsInjective(lru') /\ ToSet(lru') = Held'
    BY <1>3, <1>4, <1>7, PushedFront DEF stay, Putting
  <1>10. IsFiniteSet(Held')
    BY <1>1, <1>7, FS_Subset, FS_AddElement
  <1>11. \A j \in Held' : entries'[j].key = j
    <2>1. new.key = k
      BY DEF new
    <2> QED
      BY <1>1, <1>6, <2>1
  <1>12. held' = size + BytesOf(stay) /\ BytesOf(stay) \in Nat
    <2>1. BytesOf(Held \ {k}) = BytesOf(gone) + BytesOf((Held \ {k}) \ gone)
      BY <1>1, <1>4, BytesSplit
    <2>2. BytesOf(gone) \in Nat /\ BytesOf(stay) \in Nat
      <3>1. gone \subseteq Held
        BY <1>4
      <3> QED
        BY <1>1, <1>7, <3>1, BytesNat
    <2>3. held' = counted - BytesOf(gone) + size
      BY <1>3 DEF gone, Putting
    <2> QED
      BY <1>2, <1>4, <1>5, <2>1, <2>2, <2>3
  <1>13. StoreTypeOK'
    BY <1>2, <1>8, <1>9, <1>12 DEF StoreTypeOK
  <1>14. held' = BytesOf(Held)'
    <2>1. PICK S : S = stay
      OBVIOUS
    <2>2. BytesOf(S)' = BytesOf(S)
      <3>1. \A j \in S : entries'[j].size = entries[j].size
        BY <1>6, <1>7, <2>1
      <3> QED
        BY <1>1, <1>7, <2>1, <3>1, BytesSame
    <2>3. BytesOf(Held)' = entries'[k].size + BytesOf(Held \ {k})'
      <3> DEFINE h == [j \in Held' |-> entries'[j].size]
      <3>1. k \in Held' /\ h[k] = entries'[k].size
        BY <1>6
      <3>2. \A j \in Held' : h[j] \in Nat
        BY <1>8, StoreAssumption DEF Entry
      <3> HIDE DEF h
      <3>3. SumFunctionOnSet(h, Held') = h[k] + SumFunctionOnSet(h, Held' \ {k})
        BY <1>10, <3>1, <3>2, SumRemove
      <3> QED
        BY <3>1, <3>3 DEF h, BytesOf
    <2>4. Held' \ {k} = S
      BY <1>7, <2>1
    <2>5. BytesOf(Held \ {k})' = BytesOf(S)'
      BY <2>4 DEF BytesOf
    <2>6. entries'[k].size = size
      BY <1>6 DEF new
    <2> QED
      BY <1>12, <2>1, <2>2, <2>3, <2>5, <2>6
  <1>15. held' <= MaxBytes
    <2>1. held' = counted - BytesOf(gone) + size
      BY <1>3 DEF gone, Putting
    <2> QED
      BY <1>5, <2>1
  <1> QED
    BY <1>9, <1>10, <1>11, <1>13, <1>14, <1>15 DEF StoreInv, StoreSound

LEMMA HitKeeps ==
  ASSUME StoreInv, NEW k \in Keys, Hit(k)
  PROVE  StoreInv'
  <1> DEFINE rest == Without(lru, k)
  <1>1. /\ lru \in Seq(Keys) /\ ToSet(lru) = Held /\ IsInjective(lru) /\ k \in Held
        /\ lru' = <<k>> \o rest /\ entries' = entries /\ held' = held
    BY DEF StoreInv, StoreTypeOK, StoreSound, Hit
  <1>2. rest \in Seq(Keys) /\ IsInjective(rest) /\ ToSet(rest) = Held \ {k}
    BY <1>1, WithoutKeeps
  <1> HIDE DEF rest
  <1>3. lru' \in Seq(Keys) /\ IsInjective(lru') /\ ToSet(lru') = {k} \cup (Held \ {k})
    BY <1>1, <1>2, PushedFront
  <1>4. Held' = Held /\ BytesOf(Held)' = BytesOf(Held) /\ {k} \cup (Held \ {k}) = Held
    BY <1>1 DEF Held, BytesOf
  <1> QED
    BY <1>1, <1>3, <1>4 DEF StoreInv, StoreTypeOK, StoreSound

LEMMA AgedEntry ==
  ASSUME NEW e \in Entry
  PROVE  /\ Aged(e) \in Entry /\ Aged(e).key = e.key /\ Aged(e).status = e.status
         /\ Aged(e).size = e.size
  BY StoreAssumption DEF Aged, Entry, Lifetime

LEMMA TickKeeps ==
  ASSUME StoreInv, StoreTick
  PROVE  StoreInv'
  <1>1. /\ entries \in [Held -> Entry] /\ IsFiniteSet(Held) /\ held = BytesOf(Held)
    BY DEF StoreInv, StoreTypeOK, StoreSound
  <1>2. /\ Held' = Held /\ lru' = lru /\ held' = held
        /\ \A k \in Held : entries'[k] = Aged(entries[k])
        /\ entries' = [k \in Held |-> entries'[k]]
    BY DEF StoreTick, Held
  <1>3. \A k \in Held : /\ entries'[k] \in Entry /\ entries'[k].key = entries[k].key
                        /\ entries'[k].size = entries[k].size
    BY <1>1, <1>2, AgedEntry
  <1>4. BytesOf(Held)' = BytesOf(Held)
    <2>1. PICK S : S = Held
      OBVIOUS
    <2>2. BytesOf(S)' = BytesOf(S)
      BY <1>1, <1>2, <1>3, <2>1, BytesSame
    <2> QED
      BY <1>2, <2>1, <2>2 DEF BytesOf
  <1> QED
    BY <1>1, <1>2, <1>3, <1>4 DEF StoreInv, StoreTypeOK, StoreSound

LEMMA StoreInvInit == StoreInit => StoreInv
  <1> SUFFICES ASSUME StoreInit PROVE StoreInv
    OBVIOUS
  <1>1. Held = {} /\ lru = <<>> /\ held = 0
    BY DEF StoreInit, Held
  <1>2. BytesOf(Held) = 0
    BY <1>1, FS_EmptySet, SumStep DEF BytesOf
  <1>3. lru \in Seq(Keys) /\ ToSet(lru) = {} /\ IsInjective(lru)
    BY <1>1 DEF ToSet, IsInjective
  <1>4. entries \in [Held -> Entry]
    BY <1>1 DEF StoreInit
  <1> QED
    BY <1>1, <1>2, <1>3, <1>4, FS_EmptySet, StoreAssumption
       DEF StoreInv, StoreTypeOK, StoreSound

\* Every operation of the cache keeps the store sound, whoever calls it.
LEMMA StoreStep ==
  ASSUME StoreInv,
         \/ UNCHANGED storeVars
         \/ \E k \in Keys : Get(k)
         \/ \E k \in Keys, size \in Sizes : Put(k, OK, size)
         \/ \E size \in Sizes : TooLarge(size)
         \/ StoreTick
  PROVE  StoreInv'
  <1>1. ASSUME UNCHANGED storeVars PROVE StoreInv'
    BY <1>1 DEF storeVars, StoreInv, StoreTypeOK, StoreSound, Held, BytesOf
  <1>2. ASSUME NEW k \in Keys, Get(k) PROVE StoreInv'
    <2>1. CASE Hit(k)
      BY <2>1, HitKeeps
    <2>2. CASE Expire(k)
      BY <2>2, DropKeeps DEF Expire
    <2>3. CASE StaleHit(k) \/ Absent(k)
      BY <1>1, <2>3 DEF StaleHit, Absent
    <2> QED
      BY <1>2, <2>1, <2>2, <2>3 DEF Get
  <1> QED
    BY <1>1, <1>2, PutKeeps, TickKeeps DEF TooLarge

LEMMA StoreInvAlways == StoreSpec => []StoreInv
  <1>1. StoreInv /\ [StoreNext]_storeVars => StoreInv'
    BY StoreStep DEF StoreNext
  <1> QED
    BY <1>1, StoreInvInit, PTL DEF StoreSpec

-----------------------------------------------------------------------------
(* The theorems.                                                           *)

\* The store's fields keep their types under get, put and remove (apicache.go):
\* above all the byte counter never goes below zero.
THEOREM StoreTyped == StoreSpec => []StoreTypeOK
  BY StoreInvAlways, PTL DEF StoreInv

\* Whatever is looked up, put and expired, map, list and counter agree and the
\* bytes stay within maxBytes, so the loop of put never finds the list empty.
THEOREM StoreStaysSound == StoreSpec => []StoreSound
  BY StoreInvAlways, PTL DEF StoreInv

\* A put that gives up k gives up, with what was used more recently, more than
\* could have stayed.
LEMMA PutEvicts ==
  ASSUME StoreInv, NEW k \in Keys, NEW size \in Sizes, Put(k, OK, size),
         NEW x \in Held \ Held'
  PROVE  /\ \A j \in Held \cap Held' : Before(lru, x, j) => lru'[1] = j
         /\ held' + BytesOf({j \in Held \ Held' : ~Before(lru, x, j)}) > MaxBytes
  <1>1. /\ Held \subseteq Keys /\ entries \in [Held -> Entry] /\ StoreTypeOK
        /\ lru \in Seq(Keys) /\ ToSet(lru) = Held /\ IsInjective(lru)
        /\ IsFiniteSet(Held)
    BY DEF StoreInv, StoreTypeOK, StoreSound
  <1>2. PICK rest, counted, n :
           Room(k, size, rest, counted, n) /\ Putting(k, OK, size, rest, counted, n)
    BY PutRoom
  <1> DEFINE gone == ToSet(Victims(rest, n))
  <1>3. /\ rest = Without(lru, k)
        /\ rest \in Seq(Keys) /\ IsInjective(rest) /\ ToSet(rest) = Held \ {k}
        /\ n \in 0..Len(rest) /\ Len(rest) \in Nat /\ DOMAIN rest = 1..Len(rest)
        /\ counted = BytesOf(Held \ {k})
    BY <1>2, LenProperties DEF Room, Putting
  <1>4. /\ Held' = {k} \cup (Held \ gone)
        /\ held' = counted - BytesOf(gone) + size
    BY <1>2 DEF Putting, Held
  <1>5. gone = {rest[i] : i \in (n + 1)..Len(rest)} /\ gone \subseteq Held \ {k}
    BY <1>3, FrontAndVictims, VictimsHeld
  <1>6. lru'[1] = k
    <2>1. SubSeq(rest, 1, n) \in Seq(Keys)
      BY <1>3, FrontAndVictims
    <2>2. lru' = <<k>> \o SubSeq(rest, 1, n)
      BY <1>2 DEF Putting
    <2>3. /\ <<k>> \in Seq(Keys) /\ Len(<<k>>) = 1 /\ <<k>>[1] = k
      OBVIOUS
    <2>4. Len(SubSeq(rest, 1, n)) \in Nat
      BY <2>1, LenProperties
    <2> QED
      BY <2>1, <2>2, <2>3, <2>4, ConcatProperties
  <1> HIDE DEF gone
  <1>7. Held \ Held' = gone
    BY <1>4, <1>5
  <1>8. PICK p \in (n + 1)..Len(rest) : x = rest[p]
    BY <1>5, <1>7
  <1>9. /\ p \in 1..Len(rest) /\ p \in 0..Len(rest) /\ p > n
        /\ \A i, j \in 1..Len(rest) : rest[i] = rest[j] => i = j
        /\ \A i \in (n + 1)..Len(rest) : i \in 1..Len(rest)
        /\ \A i \in (p + 1)..Len(rest) : i \in (n + 1)..Len(rest)
    BY <1>3 DEF IsInjective
  <1>10. \A j \in Held \ {k} : Before(lru, x, j) <=> \E i \in (p + 1)..Len(rest) : j = rest[i]
    <2>1. x \in ToSet(lru) \ {k}
      BY <1>1, <1>5, <1>7
    <2>2. ASSUME NEW j \in Held \ {k}, Before(lru, x, j)
          PROVE  \E i \in (p + 1)..Len(rest) : j = rest[i]
      <3>1. Before(rest, x, j)
        BY <1>1, <1>3, <2>1, <2>2, WithoutKeeps
      <3>2. PICK a \in 1..Len(rest), b \in 1..Len(rest) : a < b /\ rest[a] = x /\ rest[b] = j
        BY <1>3, <3>1 DEF Before
      <3>3. a = p
        BY <1>8, <1>9, <3>2
      <3>4. b \in (p + 1)..Len(rest)
        BY <1>3, <1>9, <3>2, <3>3
      <3> QED
        BY <3>2, <3>4
    <2>3. ASSUME NEW i \in (p + 1)..Len(rest) PROVE Before(lru, x, rest[i])
      <3>1. Before(rest, x, rest[i])
        <4>1. i \in 1..Len(rest) /\ p < i
          BY <1>3, <1>9
        <4> QED
          BY <1>3, <1>8, <1>9, <4>1 DEF Before
      <3>2. rest[i] \in ToSet(lru) \ {k}
        <4>1. i \in DOMAIN rest
          BY <1>3, <1>9
        <4>2. rest[i] \in ToSet(rest)
          BY <4>1 DEF ToSet
        <4> QED
          BY <1>1, <1>3, <4>2
      <3> QED
        BY <1>1, <1>3, <2>1, <3>1, <3>2, WithoutKeeps
    <2> QED
      BY <2>2, <2>3
  <1>11. ASSUME NEW j \in Held \cap Held', Before(lru, x, j) PROVE lru'[1] = j
    <2>1. ASSUME j # k PROVE FALSE
      <3>1. PICK i \in (p + 1)..Len(rest) : j = rest[i]
        BY <1>10, <1>11, <2>1
      <3>2. j \in gone
        BY <1>5, <1>9, <3>1
      <3> QED
        BY <1>7, <3>2
    <2> QED
      BY <1>6, <2>1
  <1> DEFINE behind == ToSet(Victims(rest, p))
  <1> DEFINE S == {j \in Held \ Held' : ~Before(lru, x, j)}
  <1>12. behind \subseteq gone /\ S = gone \ behind
    <2>1. behind = {rest[i] : i \in (p + 1)..Len(rest)}
      BY <1>3, <1>9, FrontAndVictims
    <2>2. behind \subseteq gone
      BY <1>5, <1>9, <2>1
    <2>3. \A j \in gone : j \in Held \ {k} /\ j \in Held \ Held'
      BY <1>5, <1>7
    <2>4. \A j \in gone : Before(lru, x, j) <=> j \in behind
      BY <1>10, <2>1, <2>3
    <2> HIDE DEF behind
    <2> QED
      BY <1>7, <2>2, <2>4
  <1>13. ~(counted - BytesOf(behind) + size <= MaxBytes)
    BY <1>2, <1>9 DEF Room
  <1> HIDE DEF behind, S
  <1>14. BytesOf(gone) = BytesOf(behind) + BytesOf(S)
    <2>1. gone \subseteq Held
      BY <1>5
    <2> QED
      BY <1>1, <1>12, <2>1, BytesSplit
  <1>15. /\ BytesOf(behind) \in Nat /\ BytesOf(S) \in Nat /\ BytesOf(gone) \in Nat
         /\ counted \in Nat /\ size \in Nat
    <2>1. gone \subseteq Held /\ behind \subseteq Held /\ S \subseteq Held
      BY <1>5, <1>12
    <2> QED
      BY <1>1, <1>3, <2>1, BytesNat, StoreAssumption
  <1>16. held' + BytesOf(S) > MaxBytes
    BY <1>4, <1>13, <1>14, <1>15, StoreAssumption
  <1> QED
    BY <1>11, <1>16 DEF S

\* The loop of put takes entries from the back of the list, and none that
\* could have stayed.
THEOREM EvictsOnlyForRoom == StoreSpec => EvictsForRoom
  <1> DEFINE A == LET gone == Held \ Held'
                  IN  \A k \in gone : InWindow(entries[k]) =>
                        /\ \A j \in Held \ gone : Before(lru, k, j) => lru'[1] = j
                        /\ held' + BytesOf({j \in gone : ~Before(lru, k, j)}) > MaxBytes
  <1>1. StoreInv /\ [StoreNext]_storeVars => [A]_storeVars
    <2> SUFFICES ASSUME StoreInv, StoreNext, NEW x \in Held \ Held', InWindow(entries[x])
                 PROVE  /\ \A j \in Held \cap Held' : Before(lru, x, j) => lru'[1] = j
                        /\ held' + BytesOf({j \in Held \ Held' : ~Before(lru, x, j)})
                             > MaxBytes
      OBVIOUS
    <2>1. ASSUME NEW k \in Keys, NEW size \in Sizes, Put(k, OK, size)
          PROVE  /\ \A j \in Held \cap Held' : Before(lru, x, j) => lru'[1] = j
                 /\ held' + BytesOf({j \in Held \ Held' : ~Before(lru, x, j)}) > MaxBytes
      BY <2>1, PutEvicts
    <2>2. ASSUME NEW k \in Keys, Expire(k) PROVE FALSE
      <3>1. Held' = Held \ {k} /\ ~InWindow(entries[k])
        BY <2>2 DEF Expire, Drop, Held
      <3> QED
        BY <3>1
    <2>3. ASSUME Held' = Held PROVE FALSE
      BY <2>3
    <2>4. StoreTick => Held' = Held
      BY DEF StoreTick, Held
    <2>5. ASSUME entries' = entries PROVE Held' = Held
      BY <2>5 DEF Held
    <2> QED
      BY <2>1, <2>2, <2>3, <2>4, <2>5
         DEF StoreNext, Get, Hit, StaleHit, Absent, TooLarge, storeVars
  <1> QED
    BY <1>1, StoreInvAlways, PTL DEF StoreSpec, EvictsForRoom
=============================================================================
