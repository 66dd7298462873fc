---------------------------- MODULE CommonLemmas ----------------------------
(***************************************************************************)
(* Lemmas the proofs share: what the operators of DropOldest do to a       *)
(* queue, increasing sequences, and induction over numbers, finite sets,   *)
(* folds and sums.  The provers instantiate no operator, so an induction   *)
(* is stated for the set of the values the predicate holds of.             *)
(***************************************************************************)
EXTENDS DropOldest, Subsequences, SequenceTheorems, FiniteSetTheorems, TLAPS

(* Appending adds exactly the new element. *)
LEMMA ElementsOfAppend ==
  ASSUME NEW S, NEW q \in Seq(S), NEW x \in S
  PROVE  Elements(Append(q, x)) = Elements(q) \cup {x}
<1> DEFINE r == Append(q, x)
<1>1. /\ Len(q) \in Nat
      /\ Len(r) = Len(q) + 1
      /\ \A i \in 1..Len(q) : r[i] = q[i]
      /\ r[Len(q) + 1] = x
  BY AppendProperties, LenProperties
<1>2. ASSUME NEW e \in Elements(r) PROVE e \in Elements(q) \cup {x}
  <2>1. PICK i \in 1..Len(r) : e = r[i]
    BY DEF Elements
  <2>2. CASE i = Len(q) + 1
    BY <1>1, <2>1, <2>2
  <2>3. CASE i \in 1..Len(q)
    BY <1>1, <2>1, <2>3 DEF Elements
  <2> QED
    BY <1>1, <2>1, <2>2, <2>3
<1>3. ASSUME NEW e \in Elements(q) PROVE e \in Elements(r)
  <2>1. PICK i \in 1..Len(q) : e = q[i]
    BY DEF Elements
  <2>2. i \in 1..Len(r) /\ e = r[i]
    BY <1>1, <2>1
  <2> QED
    BY <2>2 DEF Elements
<1>4. x \in Elements(r)
  <2>1. Len(r) \in 1..Len(r) /\ x = r[Len(r)]
    BY <1>1
  <2> QED
    BY <2>1 DEF Elements
<1> QED
  BY <1>2, <1>3, <1>4

(* Removing the head removes at most the head. *)
LEMMA ElementsOfTail ==
  ASSUME NEW S, NEW q \in Seq(S), q # <<>>
  PROVE  Elements(q) = {Head(q)} \cup Elements(Tail(q))
<1> DEFINE t == Tail(q)
<1>1. /\ Len(q) \in Nat \ {0}
      /\ Head(q) = q[1]
      /\ Len(t) = Len(q) - 1
      /\ \A i \in 1..Len(t) : t[i] = q[i + 1]
  BY HeadTailProperties, EmptySeq, LenProperties
<1>2. ASSUME NEW e \in Elements(q) PROVE e \in {Head(q)} \cup Elements(t)
  <2>1. PICK i \in 1..Len(q) : e = q[i]
    BY DEF Elements
  <2>2. CASE i = 1
    BY <1>1, <2>1, <2>2
  <2>3. CASE i # 1
    <3>1. i - 1 \in 1..Len(t) /\ e = t[i - 1]
      BY <1>1, <2>1, <2>3
    <3> QED
      BY <3>1 DEF Elements
  <2> QED
    BY <2>2, <2>3
<1>3. ASSUME NEW e \in Elements(t) PROVE e \in Elements(q)
  <2>1. PICK i \in 1..Len(t) : e = t[i]
    BY DEF Elements
  <2>2. i + 1 \in 1..Len(q) /\ e = q[i + 1]
    BY <1>1, <2>1
  <2> QED
    BY <2>2 DEF Elements
<1>4. Head(q) \in Elements(q)
  <2>1. 1 \in 1..Len(q)
    BY <1>1
  <2> QED
    BY <1>1, <2>1 DEF Elements
<1> QED
  BY <1>2, <1>3, <1>4

(* A drop-oldest push keeps the type, respects the capacity and ends with  *)
(* the new element.                                                        *)
LEMMA PushDropOldestBounded ==
  ASSUME NEW S, NEW q \in Seq(S), NEW x \in S, NEW cap \in Nat \ {0},
         Len(q) <= cap
  PROVE  /\ PushDropOldest(q, x, cap) \in Seq(S)
         /\ Len(PushDropOldest(q, x, cap)) <= cap
         /\ Len(PushDropOldest(q, x, cap)) =
              IF Full(q, cap) THEN Len(q) ELSE Len(q) + 1
         /\ Full(q, cap) => q # <<>>
<1>0. Len(q) \in Nat
  BY LenProperties
<1>1. CASE Full(q, cap)
  <2>1. q # <<>>
    BY <1>0, <1>1, EmptySeq DEF Full
  <2>2. Tail(q) \in Seq(S) /\ Len(Tail(q)) = Len(q) - 1
    BY <2>1, HeadTailProperties
  <2>3. PushDropOldest(q, x, cap) = Append(Tail(q), x)
    BY <1>1 DEF PushDropOldest
  <2>4. /\ Append(Tail(q), x) \in Seq(S)
        /\ Len(Append(Tail(q), x)) = Len(Tail(q)) + 1
    BY <2>2, AppendProperties
  <2> QED
    BY <1>0, <1>1, <2>1, <2>2, <2>3, <2>4
<1>2. CASE ~Full(q, cap)
  <2>1. PushDropOldest(q, x, cap) = Append(q, x)
    BY <1>2 DEF PushDropOldest
  <2>2. Append(q, x) \in Seq(S) /\ Len(Append(q, x)) = Len(q) + 1
    BY AppendProperties
  <2> QED
    BY <1>0, <1>2, <2>1, <2>2 DEF Full
<1> QED
  BY <1>1, <1>2

(* q is in increasing order and holds the most recent members of A: every  *)
(* other member of A is smaller than everything in q.                      *)
LatestInOrder(q, A) ==
    /\ Elements(q) \subseteq A
    /\ \A i, j \in 1..Len(q) : i < j => q[i] < q[j]
    /\ \A x \in A \ Elements(q), y \in Elements(q) : x < y

(* Order survives appending a number larger than all that came before. *)
LEMMA InOrderAppend ==
  ASSUME NEW q \in Seq(Nat), NEW A \in SUBSET Nat, NEW n \in Nat,
         LatestInOrder(q, A), \A a \in A : a < n
  PROVE  LatestInOrder(Append(q, n), A \cup {n})
<1> DEFINE r == Append(q, n)
<1>1. /\ Len(q) \in Nat
      /\ Len(r) = Len(q) + 1
      /\ \A i \in 1..Len(q) : r[i] = q[i]
      /\ r[Len(q) + 1] = n
  BY AppendProperties, LenProperties
<1>2. Elements(r) = Elements(q) \cup {n}
  BY ElementsOfAppend
<1>3. \A i \in 1..Len(q) : q[i] \in A /\ q[i] \in Nat
  BY DEF LatestInOrder, Elements
<1>4. ASSUME NEW i \in 1..Len(r), NEW j \in 1..Len(r), i < j
      PROVE  r[i] < r[j]
  <2>1. i \in 1..Len(q) /\ r[i] = q[i]
    BY <1>1, <1>4
  <2>2. CASE j = Len(q) + 1
    BY <1>1, <1>3, <2>1, <2>2
  <2>3. CASE j \in 1..Len(q)
    BY <1>1, <1>4, <2>1, <2>3 DEF LatestInOrder
  <2> QED
    BY <1>1, <2>2, <2>3
<1>5. ASSUME NEW x \in (A \cup {n}) \ Elements(r), NEW y \in Elements(r)
      PROVE  x < y
  <2>1. x \in A \ Elements(q)
    BY <1>2
  <2> QED
    BY <1>2, <2>1 DEF LatestInOrder
<1> QED
  BY <1>2, <1>4, <1>5 DEF LatestInOrder

(* Order survives removing the head, whether it is consumed or evicted,    *)
(* and the head is smaller than everything that stays.                     *)
LEMMA InOrderTail ==
  ASSUME NEW q \in Seq(Nat), NEW A \in SUBSET Nat, q # <<>>, LatestInOrder(q, A)
  PROVE  /\ LatestInOrder(Tail(q), A)
         /\ Head(q) \in A
         /\ Head(q) \notin Elements(Tail(q))
<1> DEFINE t == Tail(q)
<1>1. /\ Len(q) \in Nat \ {0}
      /\ Head(q) = q[1]
      /\ Len(t) = Len(q) - 1
      /\ \A i \in 1..Len(t) : t[i] = q[i + 1]
  BY HeadTailProperties, EmptySeq, LenProperties
<1>2. Elements(q) = {Head(q)} \cup Elements(t)
  BY ElementsOfTail
<1>3. ASSUME NEW y \in Elements(t) PROVE Head(q) < y
  <2>1. PICK i \in 1..Len(t) : y = t[i]
    BY DEF Elements
  <2>2. 1 \in 1..Len(q) /\ i + 1 \in 1..Len(q) /\ 1 < i + 1
    BY <1>1
  <2>3. q[1] < q[i + 1]
    BY <2>2 DEF LatestInOrder
  <2> QED
    BY <1>1, <2>1, <2>3
<1>4. ASSUME NEW i \in 1..Len(t), NEW j \in 1..Len(t), i < j
      PROVE  t[i] < t[j]
  <2>1. i + 1 \in 1..Len(q) /\ j + 1 \in 1..Len(q) /\ i + 1 < j + 1
    BY <1>1, <1>4
  <2> QED
    BY <1>1, <2>1 DEF LatestInOrder
<1>5. ASSUME NEW x \in A \ Elements(t), NEW y \in Elements(t)
      PROVE  x < y
  <2>1. CASE x = Head(q)
    BY <1>3, <2>1
  <2>2. CASE x # Head(q)
    BY <1>2, <2>2 DEF LatestInOrder
  <2> QED
    BY <2>1, <2>2
<1>6. Head(q) \in A
  BY <1>2 DEF LatestInOrder
<1>7. Head(q) \notin Elements(t)
  <2>1. Head(q) \in Nat
    BY HeadTailProperties
  <2> QED
    BY <1>3, <2>1
<1> QED
  BY <1>2, <1>4, <1>5, <1>6, <1>7 DEF LatestInOrder

(* An ordered queue holds as many different numbers as it is long. *)
LEMMA InOrderCardinality ==
  ASSUME NEW q \in Seq(Nat), NEW A, LatestInOrder(q, A)
  PROVE  IsFiniteSet(Elements(q)) /\ Cardinality(Elements(q)) = Len(q)
<1>1. Len(q) \in Nat /\ q \in [1..Len(q) -> Nat]
  BY LenProperties
<1>2. q \in [1..Len(q) -> Elements(q)]
  BY <1>1 DEF Elements
<1>3. \A i, j \in 1..Len(q) : q[i] = q[j] => i = j
  <2>1. ASSUME NEW i \in 1..Len(q), NEW j \in 1..Len(q), i < j
        PROVE  q[i] # q[j]
    <3>1. q[i] < q[j] /\ q[i] \in Nat /\ q[j] \in Nat
      BY <1>1, <2>1 DEF LatestInOrder
    <3> QED
      BY <3>1
  <2> QED
    BY <1>1, <2>1
<1>4. \A e \in Elements(q) : \E i \in 1..Len(q) : q[i] = e
  BY DEF Elements
<1>5. q \in Bijection(1..Len(q), Elements(q))
  BY <1>2, <1>3, <1>4 DEF Bijection, Injection, Surjection, IsInjective
<1>6. ExistsBijection(1..Len(q), Elements(q))
  BY <1>5 DEF ExistsBijection
<1> QED
  BY <1>1, <1>6, FS_NatBijection, FS_CountingElements

-----------------------------------------------------------------------------
(* Sequences of increasing numbers. *)

Increasing(s) == \A i, j \in 1..Len(s) : i < j => s[i] < s[j]

(* Everything in s is smaller than everything in t. *)
Below(s, t) == \A x \in Elements(s), y \in Elements(t) : x < y

(* A concatenation has the elements of both parts. *)
LEMMA ElementsOfConcat ==
  ASSUME NEW S, NEW s \in Seq(S), NEW t \in Seq(S)
  PROVE  Elements(s \o t) = Elements(s) \cup Elements(t)
<1> DEFINE r == s \o t
<1>1. /\ Len(s) \in Nat /\ Len(t) \in Nat /\ Len(r) = Len(s) + Len(t)
      /\ \A i \in 1..Len(r) : r[i] = IF i <= Len(s) THEN s[i] ELSE t[i - Len(s)]
  BY ConcatProperties, LenProperties
<1> HIDE DEF r
<1>2. ASSUME NEW e \in Elements(r) PROVE e \in Elements(s) \cup Elements(t)
  <2>1. PICK i \in 1..Len(r) : e = r[i]
    BY DEF Elements
  <2>2. CASE i <= Len(s)
    BY <1>1, <2>1, <2>2 DEF Elements
  <2>3. CASE ~(i <= Len(s))
    <3>1. i - Len(s) \in 1..Len(t) /\ e = t[i - Len(s)]
      BY <1>1, <2>1, <2>3
    <3> QED BY <3>1 DEF Elements
  <2> QED BY <2>2, <2>3
<1>3. ASSUME NEW e \in Elements(s) PROVE e \in Elements(r)
  <2>1. PICK i \in 1..Len(s) : e = s[i]
    BY DEF Elements
  <2>2. i \in 1..Len(r) /\ r[i] = e
    BY <1>1, <2>1
  <2> QED BY <2>2 DEF Elements
<1>4. ASSUME NEW e \in Elements(t) PROVE e \in Elements(r)
  <2>1. PICK i \in 1..Len(t) : e = t[i]
    BY DEF Elements
  <2>2. i + Len(s) \in 1..Len(r) /\ r[i + Len(s)] = e
    BY <1>1, <2>1
  <2> QED BY <2>2 DEF Elements
<1>5. Elements(r) = Elements(s) \cup Elements(t)
  BY <1>2, <1>3, <1>4
<1> QED BY <1>5 DEF r

(* A concatenation increases when its parts do and the first lies below. *)
LEMMA IncreasingConcat ==
  ASSUME NEW s \in Seq(Nat), NEW t \in Seq(Nat),
         Increasing(s), Increasing(t), Below(s, t)
  PROVE  Increasing(s \o t)
<1> DEFINE r == s \o t
<1>1. /\ Len(s) \in Nat /\ Len(t) \in Nat /\ Len(r) = Len(s) + Len(t)
      /\ \A i \in 1..Len(r) : r[i] = IF i <= Len(s) THEN s[i] ELSE t[i - Len(s)]
  BY ConcatProperties, LenProperties
<1> HIDE DEF r
<1> SUFFICES ASSUME NEW i \in 1..Len(r), NEW j \in 1..Len(r), i < j PROVE r[i] < r[j]
  BY DEF Increasing, r
<1>2. CASE j <= Len(s)
  <2>1. i \in 1..Len(s) /\ j \in 1..Len(s) /\ r[i] = s[i] /\ r[j] = s[j]
    BY <1>1, <1>2
  <2> QED BY <2>1 DEF Increasing
<1>3. CASE i <= Len(s) /\ ~(j <= Len(s))
  <2>1. i \in 1..Len(s) /\ j - Len(s) \in 1..Len(t) /\ r[i] = s[i] /\ r[j] = t[j - Len(s)]
    BY <1>1, <1>3
  <2>2. r[i] \in Elements(s) /\ r[j] \in Elements(t)
    BY <2>1 DEF Elements
  <2> QED BY <2>2 DEF Below
<1>4. CASE ~(i <= Len(s))
  <2>1. /\ i - Len(s) \in 1..Len(t) /\ j - Len(s) \in 1..Len(t) /\ i - Len(s) < j - Len(s)
        /\ r[i] = t[i - Len(s)] /\ r[j] = t[j - Len(s)]
    BY <1>1, <1>4
  <2> QED BY <2>1 DEF Increasing
<1> QED BY <1>1, <1>2, <1>3, <1>4

(* Cutting an increasing sequence in two leaves two, the first below. *)
LEMMA IncreasingSplit ==
  ASSUME NEW s \in Seq(Nat), Increasing(s), NEW n \in 0..Len(s)
  PROVE  LET p == SubSeq(s, 1, n)
             q == SubSeq(s, n + 1, Len(s))
         IN  /\ p \in Seq(Nat) /\ q \in Seq(Nat)
             /\ Len(p) = n /\ Len(q) = Len(s) - n
             /\ Increasing(p) /\ Increasing(q) /\ Below(p, q)
             /\ Elements(s) = Elements(p) \cup Elements(q)
<1> DEFINE p == SubSeq(s, 1, n)
           q == SubSeq(s, n + 1, Len(s))
<1>1. Len(s) \in Nat /\ n \in Nat /\ n <= Len(s) /\ \A i \in 1..Len(s) : s[i] \in Nat
  BY LenProperties, ElementOfSeq
<1>2. /\ p \in Seq(Nat) /\ Len(p) = n
      /\ \A i \in 1..n : p[i] = s[i]
  <2>1. \A i \in 1..n : s[i] \in Nat
    BY <1>1
  <2> QED BY <1>1, <2>1, SubSeqProperties
<1>3. /\ q \in Seq(Nat) /\ Len(q) = Len(s) - n
      /\ \A i \in 1..(Len(s) - n) : q[i] = s[n + i]
  <2>1. \A i \in (n + 1)..Len(s) : s[i] \in Nat
    BY <1>1
  <2>2. q \in Seq(Nat) /\ Len(q) = (IF n + 1 <= Len(s) THEN Len(s) - (n + 1) + 1 ELSE 0)
        /\ \A i \in 1..(Len(s) - (n + 1) + 1) : q[i] = s[n + 1 + i - 1]
    BY <1>1, <2>1, SubSeqProperties
  <2> QED BY <1>1, <2>2
<1> HIDE DEF p, q
<1>4. Increasing(p)
  <2> SUFFICES ASSUME NEW i \in 1..Len(p), NEW j \in 1..Len(p), i < j PROVE p[i] < p[j]
    BY DEF Increasing
  <2>1. i \in 1..Len(s) /\ j \in 1..Len(s) /\ p[i] = s[i] /\ p[j] = s[j]
    BY <1>1, <1>2
  <2> QED BY <2>1 DEF Increasing
<1>5. Increasing(q)
  <2> SUFFICES ASSUME NEW i \in 1..Len(q), NEW j \in 1..Len(q), i < j PROVE q[i] < q[j]
    BY DEF Increasing
  <2>1. n + i \in 1..Len(s) /\ n + j \in 1..Len(s) /\ n + i < n + j
    BY <1>1, <1>3
  <2>2. s[n + i] < s[n + j]
    BY <2>1 DEF Increasing
  <2> QED BY <1>3, <2>2
<1>6. Below(p, q)
  <2> SUFFICES ASSUME NEW x \in Elements(p), NEW y \in Elements(q) PROVE x < y
    BY DEF Below
  <2>1. PICK i \in 1..Len(p) : x = p[i]
    BY DEF Elements
  <2>2. PICK j \in 1..Len(q) : y = q[j]
    BY DEF Elements
  <2>3. i \in 1..Len(s) /\ n + j \in 1..Len(s) /\ i < n + j
    BY <1>1, <1>2, <1>3
  <2>4. s[i] < s[n + j]
    BY <2>3 DEF Increasing
  <2> QED BY <1>2, <1>3, <2>1, <2>2, <2>4
<1>7. ASSUME NEW e \in Elements(s) PROVE e \in Elements(p) \cup Elements(q)
  <2>1. PICK i \in 1..Len(s) : e = s[i]
    BY DEF Elements
  <2>2. CASE i <= n
    BY <1>1, <1>2, <2>1, <2>2 DEF Elements
  <2>3. CASE ~(i <= n)
    <3>1. i - n \in 1..Len(q) /\ q[i - n] = s[n + (i - n)]
      BY <1>1, <1>3, <2>3
    <3>2. n + (i - n) = i
      BY <1>1
    <3> QED BY <2>1, <3>1, <3>2 DEF Elements
  <2> QED BY <2>2, <2>3
<1>8. ASSUME NEW e \in Elements(p) PROVE e \in Elements(s)
  <2>1. PICK i \in 1..Len(p) : e = p[i]
    BY DEF Elements
  <2> QED BY <1>1, <1>2, <2>1 DEF Elements
<1>9. ASSUME NEW e \in Elements(q) PROVE e \in Elements(s)
  <2>1. PICK i \in 1..Len(q) : e = q[i]
    BY DEF Elements
  <2>2. n + i \in 1..Len(s) /\ e = s[n + i]
    BY <1>1, <1>3, <2>1
  <2> QED BY <2>2 DEF Elements
<1>10. Elements(s) = Elements(p) \cup Elements(q)
  BY <1>7, <1>8, <1>9
<1> QED BY <1>2, <1>3, <1>4, <1>5, <1>6, <1>10 DEF p, q

(* Appending a number larger than all the others. *)
LEMMA IncreasingAppend ==
  ASSUME NEW s \in Seq(Nat), NEW x \in Nat, Increasing(s), \A e \in Elements(s) : e < x
  PROVE  /\ Append(s, x) \in Seq(Nat)
         /\ Increasing(Append(s, x))
         /\ Elements(Append(s, x)) = Elements(s) \cup {x}
<1> DEFINE r == Append(s, x)
<1>1. /\ r \in Seq(Nat) /\ Len(s) \in Nat /\ Len(r) = Len(s) + 1
      /\ \A i \in 1..Len(s) : r[i] = s[i]
      /\ r[Len(s) + 1] = x
  BY AppendProperties, LenProperties
<1>2. Elements(r) = Elements(s) \cup {x}
  BY ElementsOfAppend
<1> HIDE DEF r
<1>3. Increasing(r)
  <2> SUFFICES ASSUME NEW i \in 1..Len(r), NEW j \in 1..Len(r), i < j PROVE r[i] < r[j]
    BY DEF Increasing
  <2>1. i \in 1..Len(s) /\ r[i] = s[i]
    BY <1>1
  <2>2. CASE j = Len(s) + 1
    <3>1. r[i] \in Elements(s)
      BY <2>1 DEF Elements
    <3> QED BY <1>1, <2>2, <3>1
  <2>3. CASE j \in 1..Len(s)
    BY <1>1, <2>1, <2>3 DEF Increasing
  <2>4. j = Len(s) + 1 \/ j \in 1..Len(s)
    <3>1. Len(s) \in Nat /\ j \in 1..(Len(s) + 1)
      BY <1>1
    <3> QED BY <3>1
  <2> QED BY <2>2, <2>3, <2>4
<1> QED BY <1>1, <1>2, <1>3 DEF r

(* Taking the head, which is smaller than everything that stays. *)
LEMMA IncreasingTail ==
  ASSUME NEW s \in Seq(Nat), Increasing(s), s # <<>>
  PROVE  /\ Head(s) \in Nat /\ Tail(s) \in Seq(Nat)
         /\ Len(s) \in Nat /\ Len(Tail(s)) = Len(s) - 1
         /\ Increasing(Tail(s))
         /\ Elements(s) = {Head(s)} \cup Elements(Tail(s))
         /\ \A e \in Elements(Tail(s)) : Head(s) < e
<1> DEFINE t == Tail(s)
<1>1. /\ Head(s) \in Nat /\ t \in Seq(Nat)
      /\ Len(s) \in Nat \ {0} /\ Len(t) = Len(s) - 1 /\ Head(s) = s[1]
      /\ \A i \in 1..Len(t) : t[i] = s[i + 1]
  BY HeadTailProperties, EmptySeq, LenProperties
<1>2. Elements(s) = {Head(s)} \cup Elements(t)
  BY ElementsOfTail
<1> HIDE DEF t
<1>3. Increasing(t)
  <2> SUFFICES ASSUME NEW i \in 1..Len(t), NEW j \in 1..Len(t), i < j PROVE t[i] < t[j]
    BY DEF Increasing
  <2>1. i + 1 \in 1..Len(s) /\ j + 1 \in 1..Len(s) /\ i + 1 < j + 1
    BY <1>1
  <2> QED BY <1>1, <2>1 DEF Increasing
<1>4. ASSUME NEW e \in Elements(t) PROVE Head(s) < e
  <2>1. PICK i \in 1..Len(t) : e = t[i]
    BY DEF Elements
  <2>2. 1 \in 1..Len(s) /\ i + 1 \in 1..Len(s) /\ 1 < i + 1
    BY <1>1
  <2>3. s[1] < s[i + 1]
    BY <2>2 DEF Increasing
  <2> QED BY <1>1, <2>1, <2>3
<1> QED BY <1>1, <1>2, <1>3, <1>4 DEF t

-----------------------------------------------------------------------------
(* Induction. *)

(* A set of numbers with 0 that is closed under successor has them all. *)
LEMMA NatInductionSet ==
  ASSUME NEW G, 0 \in G, \A n \in Nat : n \in G => n + 1 \in G
  PROVE  Nat \subseteq G
<1> DEFINE R == OpToRel(<, Nat)
           T == Nat \ G
<1>1. IsWellFoundedOn(R, Nat)
  BY NatLessThanWellFounded
<1>2. \A m, n \in Nat : m < n => <<m, n>> \in R
  BY DEF OpToRel
<1> SUFFICES ASSUME T # {} PROVE FALSE
  OBVIOUS
<1>3. T \subseteq Nat
  OBVIOUS
<1>a. PICK n \in T : \A m \in T : <<m, n>> \notin R
  <2> HIDE DEF T, R
  <2> QED BY <1>1, <1>3, WFMin
<1>4. n # 0 /\ n - 1 \in Nat /\ n - 1 < n
  OBVIOUS
<1>5. n - 1 \notin T
  BY <1>2, <1>4, <1>a
<1>6. n - 1 \in G
  BY <1>4, <1>5
<1>7. (n - 1) + 1 = n
  BY <1>4
<1> QED BY <1>4, <1>6, <1>7

(* A set of subsets with {} that is closed under adding an element has     *)
(* all the subsets of a finite set.                                        *)
LEMMA SubsetInductionSet ==
  ASSUME NEW S, IsFiniteSet(S), NEW G, {} \in G,
         \A T \in SUBSET S : \A x \in S \ T : T \in G => T \cup {x} \in G
  PROVE  SUBSET S \subseteq G
<1> DEFINE R == StrictSubsetOrdering(S)
           B == (SUBSET S) \ G
<1> SUFFICES ASSUME B # {} PROVE FALSE
  OBVIOUS
<1>1. IsWellFoundedOn(R, FiniteSubsetsOf(S)) /\ FiniteSubsetsOf(S) = SUBSET S
  BY FS_StrictSubsetOrderingWellFounded, FS_FiniteSubsetsOfFinite
<1>2. \A T \in SUBSET S : \A x \in T : <<T \ {x}, T>> \in R
  BY DEF StrictSubsetOrdering
<1>3. B \subseteq SUBSET S
  OBVIOUS
<1>4. PICK T \in B : \A U \in B : <<U, T>> \notin R
  <2> HIDE DEF B, R
  <2> QED BY <1>1, <1>3, WFMin
<1>5. PICK x \in T : TRUE
  OBVIOUS
<1>6. T \ {x} \notin B
  BY <1>2, <1>4
<1>7. (T \ {x}) \cup {x} = T
  OBVIOUS
<1> QED BY <1>6, <1>7
(* The functions on the subsets of D that the library's definitions of its *)
(* folds choose from: one element after the other is taken.                *)
FoldSolutions(D, G, base, step, pick) ==
    {g \in [SUBSET D -> G] : \A s \in SUBSET D :
       g[s] = IF s = {} THEN base ELSE step[<<pick[s], g[s \ {pick[s]}]>>]}

Picks(D) == {pick \in [SUBSET D -> D \cup {D}] : \A s \in SUBSET D : s # {} => pick[s] \in s}

(* There is such a function. *)
LEMMA FoldExists ==
  ASSUME NEW D, IsFiniteSet(D), NEW G, NEW base \in G, NEW step \in [D \X G -> G],
         NEW pick \in Picks(D)
  PROVE  FoldSolutions(D, G, base, step, pick) # {}
<1> DEFINE Solves(g, s) == g[s] = IF s = {} THEN base ELSE step[<<pick[s], g[s \ {pick[s]}]>>]
           Sizes == {n \in Nat : \E g \in [SUBSET D -> G] :
                      \A s \in SUBSET D : Cardinality(s) <= n => Solves(g, s)}
<1>0. \A s \in SUBSET D : s # {} => pick[s] \in s
  BY DEF Picks
<1>1. \A s \in SUBSET D : IsFiniteSet(s) /\ Cardinality(s) \in Nat /\ Cardinality(s) <= Cardinality(D)
  BY FS_Subset, FS_CardinalityType
<1>2. \A s \in SUBSET D : Cardinality(s) = 0 => s = {}
  BY <1>1, FS_EmptySet
<1>3. \A s \in SUBSET D : s # {} => Cardinality(s \ {pick[s]}) = Cardinality(s) - 1
  BY <1>0, <1>1, FS_RemoveElement
<1>4. 0 \in Sizes
  <2> DEFINE g == [s \in SUBSET D |-> base]
  <2>1. g \in [SUBSET D -> G]
    OBVIOUS
  <2>2. \A s \in SUBSET D : Cardinality(s) <= 0 => Solves(g, s)
    BY <1>1, <1>2
  <2> QED BY <2>1, <2>2
<1>5. ASSUME NEW n \in Nat, n \in Sizes PROVE n + 1 \in Sizes
  <2>1. PICK g \in [SUBSET D -> G] : \A s \in SUBSET D : Cardinality(s) <= n => Solves(g, s)
    BY <1>5
  <2> DEFINE h == [s \in SUBSET D |->
                    IF Cardinality(s) <= n THEN g[s] ELSE step[<<pick[s], g[s \ {pick[s]}]>>]]
  <2>2. \A s \in SUBSET D : s # {} => pick[s] \in D /\ s \ {pick[s]} \in SUBSET D
    BY <1>0
  <2>3. \A s \in SUBSET D : ~(Cardinality(s) <= n) => s # {}
    <3>1. Cardinality({}) <= n
      BY FS_EmptySet
    <3> QED BY <3>1
  <2>4. h \in [SUBSET D -> G]
    <3> SUFFICES ASSUME NEW s \in SUBSET D PROVE h[s] \in G
      OBVIOUS
    <3>1. CASE Cardinality(s) <= n
      BY <3>1
    <3>2. CASE ~(Cardinality(s) <= n)
      <4>1. s # {}
        BY <1>1, <2>3, <3>2
      <4>2. <<pick[s], g[s \ {pick[s]}]>> \in D \X G
        BY <2>2, <4>1
      <4> QED BY <3>2, <4>2
    <3> QED BY <3>1, <3>2
  <2>5. ASSUME NEW s \in SUBSET D, Cardinality(s) <= n + 1 PROVE Solves(h, s)
    <3>1. CASE s = {}
      <4>1. h[s] = g[s] /\ Solves(g, s)
        BY <2>1, <3>1, FS_EmptySet
      <4> QED BY <3>1, <4>1
    <3>2. CASE s # {}
      <4>1. Cardinality(s \ {pick[s]}) <= n /\ s \ {pick[s]} \in SUBSET D
        BY <1>1, <1>3, <2>2, <2>5, <3>2
      <4>2. h[s \ {pick[s]}] = g[s \ {pick[s]}]
        BY <4>1
      <4>3. h[s] = step[<<pick[s], g[s \ {pick[s]}]>>]
        BY <2>1, <3>2
      <4> QED BY <3>2, <4>2, <4>3
    <3> QED BY <3>1, <3>2
  <2>6. \A s \in SUBSET D : Cardinality(s) <= n + 1 => Solves(h, s)
    BY <2>5
  <2> HIDE DEF h, Solves
  <2> QED BY <2>4, <2>6
<1>6. Nat \subseteq Sizes
  <2> HIDE DEF Sizes
  <2> QED BY <1>4, <1>5, NatInductionSet
<1>7. Cardinality(D) \in Sizes
  BY <1>6, FS_CardinalityType
<1>8. PICK g \in [SUBSET D -> G] : \A s \in SUBSET D : Cardinality(s) <= Cardinality(D) => Solves(g, s)
  BY <1>7
<1>9. g \in FoldSolutions(D, G, base, step, pick)
  BY <1>1, <1>8 DEF FoldSolutions
<1> QED BY <1>9

Greatest(s) == CHOOSE x \in s : \A y \in s : x >= y

LEMMA GreatestOfPrefix ==
  ASSUME NEW k \in Nat, k # 0
  PROVE  Greatest(1..k) = k /\ (1..k) \ {Greatest(1..k)} = 1..(k - 1)
<1>1. k \in 1..k /\ \A y \in 1..k : k >= y
  OBVIOUS
<1>2. \A x \in 1..k : (\A y \in 1..k : x >= y) => x = k
  OBVIOUS
<1>3. Greatest(1..k) = k
  BY <1>1, <1>2 DEF Greatest
<1> QED BY <1>3

(* The greatest of finitely many numbers is one of them. *)
LEMMA GreatestIsElement ==
  ASSUME NEW n \in Nat, NEW s \in SUBSET (1..n), s # {}
  PROVE  Greatest(s) \in s
<1> DEFINE Bounds == {m \in Nat : \A t \in SUBSET (1..m) : t # {} => \E x \in t : \A y \in t : x >= y}
<1>1. 0 \in Bounds
  <2>1. 1..0 = {}
    OBVIOUS
  <2> QED BY <2>1
<1>2. ASSUME NEW m \in Nat, m \in Bounds PROVE m + 1 \in Bounds
  <2>1. ASSUME NEW t \in SUBSET (1..(m + 1)), t # {} PROVE \E x \in t : \A y \in t : x >= y
    <3>1. CASE m + 1 \in t
      BY <3>1
    <3>2. CASE m + 1 \notin t
      <4>1. t \in SUBSET (1..m)
        BY <3>2
      <4> QED BY <1>2, <2>1, <4>1
    <3> QED BY <3>1, <3>2
  <2> QED BY <2>1
<1>3. Nat \subseteq Bounds
  <2> HIDE DEF Bounds
  <2> QED BY <1>1, <1>2, NatInductionSet
<1>4. \E x \in s : \A y \in s : x >= y
  BY <1>3
<1> QED BY <1>4 DEF Greatest

(* FoldLeft over n elements: its definition has a solution. *)
LeftFoldSolutions(n, G, base, step) ==
    {g \in [SUBSET (1..n) -> G] : \A s \in SUBSET (1..n) :
       g[s] = IF s = {} THEN base ELSE step[<<Greatest(s), g[s \ {Greatest(s)}]>>]}

LEMMA FoldLeftExists ==
  ASSUME NEW n \in Nat, NEW G, NEW base \in G, NEW step \in [(1..n) \X G -> G]
  PROVE  LeftFoldSolutions(n, G, base, step) # {}
<1> DEFINE D == 1..n
           pick == [s \in SUBSET D |-> IF s = {} THEN D ELSE Greatest(s)]
<1>1. IsFiniteSet(D)
  BY FS_Interval
<1>2. pick \in Picks(D)
  BY GreatestIsElement DEF Picks
<1>3. step \in [D \X G -> G]
  OBVIOUS
<1>4. PICK g : g \in FoldSolutions(D, G, base, step, pick)
  <2> HIDE DEF D, pick
  <2> QED BY <1>1, <1>2, <1>3, FoldExists
<1>5. \A s \in SUBSET D : s # {} => pick[s] = Greatest(s)
  OBVIOUS
<1> HIDE DEF pick
<1>6. g \in [SUBSET D -> G]
  BY <1>4 DEF FoldSolutions
<1>7. \A s \in SUBSET D : g[s] = IF s = {} THEN base ELSE step[<<pick[s], g[s \ {pick[s]}]>>]
  BY <1>4 DEF FoldSolutions
<1>8. g \in LeftFoldSolutions(n, G, base, step)
  BY <1>5, <1>6, <1>7 DEF LeftFoldSolutions
<1> QED BY <1>8

(* ... and what its steps keep is so of its result. *)
LEMMA PrefixInduction ==
  ASSUME NEW n \in Nat, NEW h, NEW P, <<0, h[{}]>> \in P,
         \A k \in 1..n : <<k - 1, h[1..(k - 1)]>> \in P => <<k, h[1..k]>> \in P
  PROVE  <<n, h[1..n]>> \in P
<1> DEFINE Good == {k \in Nat : k <= n => <<k, h[1..k]>> \in P}
<1>1. 0 \in Good
  <2>1. 1..0 = {}
    OBVIOUS
  <2> QED BY <2>1
<1>2. ASSUME NEW k \in Nat, k \in Good PROVE k + 1 \in Good
  <2>1. CASE k + 1 <= n
    <3>1. k + 1 \in 1..n /\ (k + 1) - 1 = k
      BY <2>1
    <3> QED BY <1>2, <3>1
  <2>2. CASE ~(k + 1 <= n)
    BY <2>2
  <2> QED BY <2>1, <2>2
<1>3. Nat \subseteq Good
  <2> HIDE DEF Good
  <2> QED BY <1>1, <1>2, NatInductionSet
<1> QED BY <1>3
(* The functions on 0..n defined by recursion on the number. *)
Recursions(n, G, base, step) ==
    {f \in [0..n -> G] : f[0] = base /\ \A i \in 1..n : f[i] = step[<<i, f[i - 1]>>]}

LEMMA RecursionExists ==
  ASSUME NEW n \in Nat, NEW G, NEW base \in G, NEW step \in [(1..n) \X G -> G]
  PROVE  Recursions(n, G, base, step) # {}
<1>1. PICK g : g \in LeftFoldSolutions(n, G, base, step)
  BY FoldLeftExists
<1> DEFINE f == [i \in 0..n |-> g[1..i]]
<1>2. g \in [SUBSET (1..n) -> G] /\ \A i \in 0..n : 1..i \in SUBSET (1..n)
  BY <1>1 DEF LeftFoldSolutions
<1>3. f \in [0..n -> G]
  BY <1>2
<1>4. f[0] = base
  <2>1. 1..0 = {} /\ {} \in SUBSET (1..n) /\ 0 \in 0..n
    OBVIOUS
  <2>2. g[{}] = base
    BY <1>1, <2>1 DEF LeftFoldSolutions
  <2> QED BY <2>1, <2>2
<1>5. ASSUME NEW i \in 1..n PROVE f[i] = step[<<i, f[i - 1]>>]
  <2>1. i \in Nat /\ i # 0 /\ i \in 0..n /\ i - 1 \in 0..n /\ 1..i # {}
    OBVIOUS
  <2>2. Greatest(1..i) = i /\ (1..i) \ {Greatest(1..i)} = 1..(i - 1)
    BY <2>1, GreatestOfPrefix
  <2>3. g[1..i] = step[<<Greatest(1..i), g[(1..i) \ {Greatest(1..i)}]>>]
    BY <1>1, <1>2, <2>1 DEF LeftFoldSolutions
  <2>4. f[i] = g[1..i] /\ f[i - 1] = g[1..(i - 1)]
    BY <2>1
  <2> HIDE DEF f
  <2> QED BY <2>2, <2>3, <2>4
<1> HIDE DEF f
<1>6. f \in Recursions(n, G, base, step)
  BY <1>3, <1>4, <1>5 DEF Recursions
<1> QED BY <1>6

(* A set of numbers has a least one. *)
LEMMA LeastExists ==
  ASSUME NEW S, S \subseteq Nat, S # {}
  PROVE  \E x \in S : \A y \in S : x <= y
<1> DEFINE R == OpToRel(<, Nat)
<1>1. IsWellFoundedOn(R, Nat)
  BY NatLessThanWellFounded
<1>2. \A m, n \in Nat : m < n => <<m, n>> \in R
  BY DEF OpToRel
<1> HIDE DEF R
<1>3. PICK x \in S : \A y \in S : <<y, x>> \notin R
  BY <1>1, WFMin
<1>4. \A y \in S : ~(y < x)
  BY <1>2, <1>3
<1> QED BY <1>4

(* One of finitely many things weighs the most. *)
LEMMA HeaviestExists ==
  ASSUME NEW K, IsFiniteSet(K), K # {}, NEW w \in [K -> Nat]
  PROVE  \E k \in K : \A l \in K : w[l] <= w[k]
<1> DEFINE G == {T \in SUBSET K : T # {} => \E k \in T : \A l \in T : w[l] <= w[k]}
<1>1. ASSUME NEW T \in SUBSET K, NEW x \in K \ T, T \in G PROVE T \cup {x} \in G
  <2> SUFFICES \E k \in T \cup {x} : \A l \in T \cup {x} : w[l] <= w[k]
    OBVIOUS
  <2>1. CASE T = {}
    <3>1. w[x] \in Nat
      OBVIOUS
    <3> QED BY <2>1, <3>1
  <2>2. CASE T # {}
    <3>1. PICK k \in T : \A l \in T : w[l] <= w[k]
      BY <1>1, <2>2
    <3>2. w[x] \in Nat /\ w[k] \in Nat /\ \A l \in T : w[l] \in Nat
      BY <3>1
    <3>3. CASE w[x] <= w[k]
      BY <3>1, <3>3
    <3>4. CASE w[k] <= w[x]
      BY <3>1, <3>2, <3>4
    <3> QED BY <3>2, <3>3, <3>4
  <2> QED BY <2>1, <2>2
<1>2. SUBSET K \subseteq G
  <2>1. {} \in G
    OBVIOUS
  <2> HIDE DEF G
  <2> QED BY <1>1, <2>1, SubsetInductionSet
<1>3. K \in SUBSET K
  OBVIOUS
<1> QED BY <1>2, <1>3

-----------------------------------------------------------------------------
(* Subsequences. *)

Rank(kept, k) == Cardinality({j \in kept : j <= k})

(* The number of a place among those that are kept: each has its own, in   *)
(* their order, and every number there is.                                 *)
LEMMA Ranks ==
  ASSUME NEW n \in Nat, NEW kept \in SUBSET (1..n)
  PROVE  /\ Cardinality(kept) \in Nat
         /\ \A k \in kept : Rank(kept, k) \in 1..Cardinality(kept)
         /\ \A k, l \in kept : k < l => Rank(kept, k) < Rank(kept, l)
         /\ \A i \in 1..Cardinality(kept) : \E k \in kept : Rank(kept, k) = i
<1> DEFINE m == Cardinality(kept)
           upTo(k) == {j \in kept : j <= k}
           rank == [k \in kept |-> Rank(kept, k)]
<1>1. IsFiniteSet(kept) /\ m \in Nat
  <2>1. IsFiniteSet(1..n)
    BY FS_Interval
  <2>2. IsFiniteSet(kept)
    BY <2>1, FS_Subset
  <2> QED BY <2>2, FS_CardinalityType
<1>0. \A k \in kept : k \in Nat
  OBVIOUS
<1>2. \A k \in kept : upTo(k) \in SUBSET kept /\ k \in upTo(k)
  BY <1>0
<1>3. \A k, l \in kept : k < l => upTo(k) \in SUBSET upTo(l) /\ l \in upTo(l) \ upTo(k)
  <2> SUFFICES ASSUME NEW k \in kept, NEW l \in kept, k < l
               PROVE  upTo(k) \in SUBSET upTo(l) /\ l \in upTo(l) \ upTo(k)
    OBVIOUS
  <2>1. \A j \in kept : j <= k => j <= l
    BY <1>0
  <2>2. l <= l /\ ~(l <= k)
    BY <1>0
  <2> QED BY <2>1, <2>2
<1>4. \A k \in kept : Rank(kept, k) = Cardinality(upTo(k))
  BY DEF Rank
<1> HIDE DEF upTo
<1>5. ASSUME NEW k \in kept
      PROVE  /\ IsFiniteSet(upTo(k)) /\ Rank(kept, k) \in Nat
             /\ Rank(kept, k) <= m /\ Rank(kept, k) # 0
  <2>1. IsFiniteSet(upTo(k)) /\ Cardinality(upTo(k)) <= m /\ Cardinality(upTo(k)) \in Nat
    BY <1>1, <1>2, FS_Subset, FS_CardinalityType
  <2>2. Cardinality(upTo(k)) # 0
    BY <1>2, <2>1, FS_EmptySet
  <2> QED BY <1>4, <2>1, <2>2
<1>6. ASSUME NEW k \in kept, NEW l \in kept, k < l
      PROVE  Rank(kept, k) < Rank(kept, l)
  <2>1. Cardinality(upTo(k)) <= Cardinality(upTo(l)) /\ Cardinality(upTo(k)) # Cardinality(upTo(l))
    BY <1>3, <1>5, <1>6, FS_Subset
  <2> QED BY <1>4, <1>5, <2>1
<1>7. \A k \in kept : Rank(kept, k) \in 1..m
  <2> HIDE DEF m
  <2> QED BY <1>1, <1>5
<1>8. rank \in Injection(kept, 1..m)
  <2>1. \A k, l \in kept : rank[k] = rank[l] => k = l
    <3> SUFFICES ASSUME NEW k \in kept, NEW l \in kept, Rank(kept, k) = Rank(kept, l), k # l
                 PROVE  FALSE
      OBVIOUS
    <3>1. k < l \/ l < k
      OBVIOUS
    <3> QED BY <1>5, <1>6, <3>1
  <2>2. rank \in [kept -> 1..m]
    BY <1>7
  <2> HIDE DEF rank, m
  <2> QED BY <2>1, <2>2 DEF Injection, IsInjective
<1>9. IsFiniteSet(1..m) /\ Cardinality(1..m) = m
  BY <1>1, FS_Interval
<1>10. rank \in Surjection(kept, 1..m)
  <2> HIDE DEF rank
  <2> QED BY <1>1, <1>8, <1>9, FS_Injection
<1>11. \A i \in 1..m : \E k \in kept : rank[k] = i
  <2> HIDE DEF rank, m
  <2> QED BY <1>10 DEF Surjection
<1> QED BY <1>1, <1>6, <1>7, <1>11

(* What r leaves of s comes from increasing places, all of those kept. *)
PlacesOf(from, r, s, kept) ==
    /\ from \in [1..Len(r) -> kept]
    /\ \A i \in 1..Len(r) : r[i] = s[from[i]]
    /\ \A i, j \in 1..Len(r) : i < j => from[i] < from[j]
    /\ \A k \in kept : \E i \in 1..Len(r) : from[i] = k

LEMMA SelectPlaces ==
  ASSUME NEW S, NEW s \in Seq(S), NEW kept \in SUBSET (1..Len(s))
  PROVE  /\ Select(s, kept) \in Seq(S)
         /\ Len(Select(s, kept)) \in Nat
         /\ \E from : PlacesOf(from, Select(s, kept), s, kept)
<1> DEFINE m == Cardinality(kept)
           from == [i \in 1..m |-> CHOOSE k \in kept : Rank(kept, k) = i]
<1>1. /\ m \in Nat
      /\ \A k \in kept : Rank(kept, k) \in 1..m
      /\ \A k, l \in kept : k < l => Rank(kept, k) < Rank(kept, l)
      /\ \A i \in 1..m : \E k \in kept : Rank(kept, k) = i
  BY LenProperties, Ranks
<1>2. Select(s, kept) = [i \in 1..m |-> s[from[i]]]
  BY DEF Select, Rank
<1> HIDE DEF m
<1>3. \A i \in 1..m : from[i] \in kept /\ Rank(kept, from[i]) = i
  BY <1>1
<1>4. from \in [1..m -> kept]
  BY <1>3
<1> HIDE DEF from
<1>5. \A k \in kept : s[k] \in S /\ k \in Nat
  BY ElementOfSeq, LenProperties
<1>6. Select(s, kept) \in Seq(S) /\ Len(Select(s, kept)) = m
  <2>1. \A i \in 1..m : s[from[i]] \in S
    BY <1>4, <1>5
  <2>2. [i \in 1..m |-> s[from[i]]] \in Seq(S)
    BY <1>1, <2>1, IsASeq
  <2>3. Len([i \in 1..m |-> s[from[i]]]) = m
    BY <1>1, <2>2, LenProperties
  <2> QED BY <1>2, <2>2, <2>3
<1>7. ASSUME NEW i \in 1..m, NEW j \in 1..m, i < j PROVE from[i] < from[j]
  <2>1. from[i] \in kept /\ from[j] \in kept /\ Rank(kept, from[i]) = i /\ Rank(kept, from[j]) = j
    BY <1>3
  <2>2. from[i] \in Nat /\ from[j] \in Nat
    BY <1>5, <2>1
  <2>3. ~(from[j] < from[i]) /\ from[i] # from[j]
    <3>1. from[j] < from[i] => j < i
      BY <1>1, <2>1
    <3>2. ~(j < i) /\ i # j
      BY <1>1, <1>7
    <3> QED BY <2>1, <3>1, <3>2
  <2> QED BY <2>2, <2>3
<1>8. ASSUME NEW k \in kept PROVE \E i \in 1..m : from[i] = k
  <2>1. Rank(kept, k) \in 1..m
    BY <1>1
  <2>2. from[Rank(kept, k)] \in kept /\ Rank(kept, from[Rank(kept, k)]) = Rank(kept, k)
    BY <1>3, <2>1
  <2>3. Rank(kept, k) \in Nat /\ ~(Rank(kept, k) < Rank(kept, k))
    BY <1>1, <2>1
  <2>4. k \in Nat /\ from[Rank(kept, k)] \in Nat
    BY <1>5, <2>2
  <2>5. from[Rank(kept, k)] = k
    <3>1. ~(from[Rank(kept, k)] < k) /\ ~(k < from[Rank(kept, k)])
      BY <1>1, <2>2, <2>3
    <3> QED BY <2>4, <3>1
  <2> QED BY <2>1, <2>5
<1> DEFINE r == Select(s, kept)
<1>9. r \in Seq(S) /\ Len(r) = m /\ \A i \in 1..m : r[i] = s[from[i]]
  BY <1>2, <1>6
<1> HIDE DEF r
<1>10. PlacesOf(from, r, s, kept)
  BY <1>4, <1>7, <1>8, <1>9 DEF PlacesOf
<1> QED BY <1>1, <1>9, <1>10 DEF r
-----------------------------------------------------------------------------
(* Sums.                                                                   *)

(* g adds up the weights of every subset, whatever the order. *)
IsSum(g, D, w) ==
    /\ g \in [SUBSET D -> Nat]
    /\ g[{}] = 0
    /\ \A T \in SUBSET D : \A x \in T : g[T] = w[x] + g[T \ {x}]

(* h is made as the library makes its sums, one element after the other. *)
AddsUp(h, D, w) ==
    \A s \in SUBSET D :
      h[s] = IF s = {} THEN 0 ELSE w[CHOOSE x \in s : TRUE] + h[s \ {CHOOSE x \in s : TRUE}]

LEMMA AddsUpExists ==
  ASSUME NEW D, IsFiniteSet(D), NEW w \in [D -> Nat]
  PROVE  \E g \in [SUBSET D -> Nat] : AddsUp(g, D, w)
<1> DEFINE pick == [s \in SUBSET D |-> IF s = {} THEN D ELSE CHOOSE x \in s : TRUE]
           step == [p \in D \X Nat |-> w[p[1]] + p[2]]
<1>1. pick \in Picks(D)
  BY DEF Picks
<1>2. step \in [D \X Nat -> Nat]
  OBVIOUS
<1>3. PICK g : g \in FoldSolutions(D, Nat, 0, step, pick)
  <2>1. ASSUME NEW G, G = Nat, NEW base \in G PROVE FoldSolutions(D, G, base, step, pick) # {}
    <3>1. step \in [D \X G -> G]
      BY <1>2, <2>1
    <3> HIDE DEF step, pick
    <3> QED BY <1>1, <3>1, FoldExists
  <2>2. 0 \in Nat
    OBVIOUS
  <2> QED BY <2>1, <2>2
<1>4. g \in [SUBSET D -> Nat]
  BY <1>3 DEF FoldSolutions
<1>5. ASSUME NEW s \in SUBSET D
      PROVE  g[s] = IF s = {} THEN 0 ELSE w[CHOOSE x \in s : TRUE] + g[s \ {CHOOSE x \in s : TRUE}]
  <2>1. CASE s = {}
    BY <1>3, <2>1 DEF FoldSolutions
  <2>2. CASE s # {}
    <3>1. g[s] = step[<<pick[s], g[s \ {pick[s]}]>>]
      BY <1>3, <2>2 DEF FoldSolutions
    <3>2. pick[s] = (CHOOSE x \in s : TRUE) /\ pick[s] \in D
      BY <2>2
    <3>3. g[s \ {pick[s]}] \in Nat
      BY <1>4
    <3> HIDE DEF pick
    <3>4. step[<<pick[s], g[s \ {pick[s]}]>>] = w[pick[s]] + g[s \ {pick[s]}]
      BY <3>2, <3>3
    <3> QED BY <2>2, <3>1, <3>2, <3>4
  <2> QED BY <2>1, <2>2
<1> QED BY <1>4, <1>5 DEF AddsUp

(* The order does not matter. *)
LEMMA AnyOrder ==
  ASSUME NEW D, IsFiniteSet(D), NEW w \in [D -> Nat], NEW g \in [SUBSET D -> Nat], AddsUp(g, D, w)
  PROVE  IsSum(g, D, w)
<1> DEFINE Sizes == {n \in Nat : \A T \in SUBSET D : Cardinality(T) <= n =>
                       \A x \in T : g[T] = w[x] + g[T \ {x}]}
           c(T) == CHOOSE x \in T : TRUE
<1>1. \A T \in SUBSET D : IsFiniteSet(T) /\ Cardinality(T) \in Nat /\ Cardinality(T) <= Cardinality(D)
  BY FS_Subset, FS_CardinalityType
<1>2. \A T \in SUBSET D : \A x \in T :
        T \ {x} \in SUBSET D /\ Cardinality(T \ {x}) = Cardinality(T) - 1
  BY <1>1, FS_RemoveElement
<1>3. \A T \in SUBSET D : T # {} => c(T) \in T /\ g[T] = w[c(T)] + g[T \ {c(T)}]
  BY DEF AddsUp
<1> HIDE DEF c
<1>4. 0 \in Sizes
  <2>1. \A T \in SUBSET D : Cardinality(T) <= 0 => T = {}
    BY <1>1, FS_EmptySet
  <2> QED BY <2>1
<1>5. ASSUME NEW n \in Nat, n \in Sizes PROVE n + 1 \in Sizes
  <2> SUFFICES ASSUME NEW T \in SUBSET D, Cardinality(T) <= n + 1, NEW x \in T
               PROVE  g[T] = w[x] + g[T \ {x}]
    OBVIOUS
  <2>1. g[T] = w[c(T)] + g[T \ {c(T)}] /\ c(T) \in T
    BY <1>3
  <2>2. CASE x = c(T)
    BY <2>1, <2>2
  <2>3. CASE x # c(T)
    <3> DEFINE A == T \ {c(T)}
               B == T \ {x}
    <3>1. /\ A \in SUBSET D /\ B \in SUBSET D /\ x \in A /\ c(T) \in B
          /\ A \ {x} = B \ {c(T)} /\ A \ {x} \in SUBSET D
      BY <2>1, <2>3
    <3>2. Cardinality(A) <= n /\ Cardinality(B) <= n
      BY <1>1, <1>2, <2>1
    <3>3. g[A] = w[x] + g[A \ {x}] /\ g[B] = w[c(T)] + g[B \ {c(T)}]
      <4> HIDE DEF A, B
      <4> QED BY <1>5, <3>1, <3>2
    <3>4. w[x] \in Nat /\ w[c(T)] \in Nat /\ g[A \ {x}] \in Nat
      BY <2>1, <3>1
    <3>5. g[T] = w[c(T)] + g[A] /\ A \ {x} = B \ {c(T)}
      BY <2>1, <3>1
    <3> HIDE DEF A, B
    <3>6. g[B] = w[c(T)] + g[A \ {x}]
      BY <3>3, <3>5
    <3>7. g[T] = w[c(T)] + (w[x] + g[A \ {x}])
      BY <3>3, <3>5
    <3>8. g[T] = w[x] + g[B]
      BY <3>4, <3>6, <3>7
    <3> QED BY <3>8 DEF B
  <2> QED BY <2>2, <2>3
<1>6. Nat \subseteq Sizes
  <2> HIDE DEF Sizes
  <2> QED BY <1>4, <1>5, NatInductionSet
<1>7. Cardinality(D) \in Sizes
  BY <1>1, <1>6
<1>8. \A T \in SUBSET D : \A x \in T : g[T] = w[x] + g[T \ {x}]
  BY <1>1, <1>7
<1>9. g[{}] = 0
  BY DEF AddsUp
<1> QED BY <1>8, <1>9 DEF IsSum

LEMMA SumExists ==
  ASSUME NEW D, IsFiniteSet(D), NEW w \in [D -> Nat]
  PROVE  \E g : IsSum(g, D, w)
BY AddsUpExists, AnyOrder

(* Any sum of a part made one element after the other is the same. *)
LEMMA SumOfPart ==
  ASSUME NEW D, IsFiniteSet(D), NEW w, NEW g, IsSum(g, D, w), NEW S \in SUBSET D, NEW h,
         AddsUp(h, S, w)
  PROVE  h[S] = g[S]
<1> DEFINE Sizes == {n \in Nat : \A T \in SUBSET S : Cardinality(T) <= n => h[T] = g[T]}
           c(T) == CHOOSE x \in T : TRUE
<1>1. \A T \in SUBSET S : IsFiniteSet(T) /\ Cardinality(T) \in Nat /\ Cardinality(T) <= Cardinality(S)
  BY FS_Subset, FS_CardinalityType
<1>2. \A T \in SUBSET S : \A x \in T :
        T \ {x} \in SUBSET S /\ Cardinality(T \ {x}) = Cardinality(T) - 1
  BY <1>1, FS_RemoveElement
<1>3. \A T \in SUBSET S : T # {} => c(T) \in T /\ h[T] = w[c(T)] + h[T \ {c(T)}]
  BY DEF AddsUp
<1>4. h[{}] = 0 /\ g[{}] = 0
  BY DEF AddsUp, IsSum
<1> HIDE DEF c
<1>5. 0 \in Sizes
  <2>1. \A T \in SUBSET S : Cardinality(T) <= 0 => T = {}
    BY <1>1, FS_EmptySet
  <2> QED BY <1>4, <2>1
<1>6. ASSUME NEW n \in Nat, n \in Sizes PROVE n + 1 \in Sizes
  <2> SUFFICES ASSUME NEW T \in SUBSET S, Cardinality(T) <= n + 1 PROVE h[T] = g[T]
    OBVIOUS
  <2>1. CASE T # {}
    <3>1. h[T] = w[c(T)] + h[T \ {c(T)}] /\ c(T) \in T
      BY <1>3, <2>1
    <3>2. Cardinality(T \ {c(T)}) <= n /\ T \ {c(T)} \in SUBSET S
      BY <1>1, <1>2, <3>1
    <3>3. h[T \ {c(T)}] = g[T \ {c(T)}]
      BY <1>6, <3>2
    <3>4. g[T] = w[c(T)] + g[T \ {c(T)}]
      BY <3>1 DEF IsSum
    <3> QED BY <3>1, <3>3, <3>4
  <2>2. CASE T = {}
    BY <1>4, <2>2
  <2> QED BY <2>1, <2>2
<1>7. Nat \subseteq Sizes
  <2> HIDE DEF Sizes
  <2> QED BY <1>5, <1>6, NatInductionSet
<1>8. Cardinality(S) \in Sizes /\ S \in SUBSET S
  BY <1>1, <1>7
<1> QED BY <1>1, <1>8

(* Parts that share nothing add up to their union. *)
Additive(g, D) ==
    \A A, B \in SUBSET D : A \cap B = {} =>
      g[A] \in Nat /\ g[B] \in Nat /\ g[A \cup B] = g[A] + g[B]

(* The sum of two parts that share nothing. *)
LEMMA SumOfUnion ==
  ASSUME NEW D, IsFiniteSet(D), NEW w \in [D -> Nat], NEW g, IsSum(g, D, w)
  PROVE  Additive(g, D)
<1> SUFFICES ASSUME NEW A \in SUBSET D, NEW B \in SUBSET D, A \cap B = {}
             PROVE  g[A] \in Nat /\ g[B] \in Nat /\ g[A \cup B] = g[A] + g[B]
  BY DEF Additive
<1> DEFINE Good == {T \in SUBSET B : g[A \cup T] = g[A] + g[T]}
<1>1. \A T \in SUBSET D : g[T] \in Nat
  BY DEF IsSum
<1>2. {} \in Good
  <2>1. A \cup {} = A /\ g[{}] = 0
    BY DEF IsSum
  <2> QED BY <1>1, <2>1
<1>3. ASSUME NEW T \in SUBSET B, NEW x \in B \ T, T \in Good PROVE T \cup {x} \in Good
  <2> DEFINE U == T \cup {x}
             V == A \cup U
  <2>1. U \in SUBSET D /\ V \in SUBSET D /\ x \in U /\ x \in V /\ U \ {x} = T /\ V \ {x} = A \cup T
    OBVIOUS
  <2>2. g[U] = w[x] + g[U \ {x}] /\ g[V] = w[x] + g[V \ {x}]
    <3> HIDE DEF U, V
    <3> QED BY <2>1 DEF IsSum
  <2>3. w[x] \in Nat /\ g[A] \in Nat /\ g[T] \in Nat
    BY <1>1
  <2>4. g[A \cup T] = g[A] + g[T]
    BY <1>3
  <2>5. g[V] = g[A] + g[U]
    <3>1. g[U] = w[x] + g[T] /\ g[V] = w[x] + g[A \cup T]
      BY <2>1, <2>2
    <3> HIDE DEF U, V
    <3> QED BY <2>3, <2>4, <3>1
  <2> QED BY <2>5
<1>4. IsFiniteSet(B)
  BY FS_Subset
<1>5. SUBSET B \subseteq Good
  <2> HIDE DEF Good
  <2> QED BY <1>2, <1>3, <1>4, SubsetInductionSet
<1> QED BY <1>1, <1>5

(* A part weighs no more than the whole. *)
LEMMA SumOfSubset ==
  ASSUME NEW D, IsFiniteSet(D), NEW w \in [D -> Nat], NEW g, IsSum(g, D, w),
         NEW B \in SUBSET D, NEW A \in SUBSET B
  PROVE  g[A] \in Nat /\ g[B] \in Nat /\ g[A] <= g[B]
<1> DEFINE C == B \ A
<1>1. A \in SUBSET D /\ C \in SUBSET D /\ A \cap C = {} /\ A \cup C = B
  OBVIOUS
<1>2. g[A] \in Nat /\ g[C] \in Nat /\ g[A \cup C] = g[A] + g[C]
  <2>1. Additive(g, D)
    BY SumOfUnion
  <2> HIDE DEF C
  <2> QED BY <1>1, <2>1 DEF Additive
<1>3. g[B] = g[A] + g[C]
  BY <1>1, <1>2
<1> QED BY <1>2, <1>3

-----------------------------------------------------------------------------
(* Sequences in which nothing is repeated. *)

Unrepeated(q) == \A i, j \in 1..Len(q) : q[i] = q[j] => i = j

LEMMA UnrepeatedTail ==
  ASSUME NEW S, NEW q \in Seq(S), q # <<>>, Unrepeated(q)
  PROVE  /\ Tail(q) \in Seq(S) /\ Unrepeated(Tail(q)) /\ Head(q) \in Elements(q)
         /\ Elements(Tail(q)) = Elements(q) \ {Head(q)}
<1> DEFINE t == Tail(q)
<1>1. /\ Len(q) \in Nat \ {0} /\ Head(q) = q[1] /\ t \in Seq(S)
      /\ Len(t) = Len(q) - 1
      /\ \A i \in 1..Len(t) : t[i] = q[i + 1]
  BY HeadTailProperties, EmptySeq, LenProperties
<1>2. Elements(q) = {Head(q)} \cup Elements(t)
  BY ElementsOfTail
<1> HIDE DEF t
<1>3. \A i \in 1..Len(t) : t[i] # Head(q)
  <2> SUFFICES ASSUME NEW i \in 1..Len(t), q[i + 1] = q[1] PROVE FALSE
    BY <1>1
  <2>1. i + 1 \in 1..Len(q) /\ 1 \in 1..Len(q) /\ i + 1 # 1
    BY <1>1
  <2> QED BY <2>1 DEF Unrepeated
<1>4. Head(q) \notin Elements(t)
  BY <1>3 DEF Elements
<1>5. Unrepeated(t)
  <2> SUFFICES ASSUME NEW i \in 1..Len(t), NEW j \in 1..Len(t), t[i] = t[j] PROVE i = j
    BY DEF Unrepeated
  <2>1. i + 1 \in 1..Len(q) /\ j + 1 \in 1..Len(q) /\ q[i + 1] = q[j + 1]
    BY <1>1
  <2>2. i + 1 = j + 1
    BY <2>1 DEF Unrepeated
  <2> QED BY <1>1, <2>2
<1> QED BY <1>1, <1>2, <1>4, <1>5 DEF t

LEMMA UnrepeatedAppend ==
  ASSUME NEW S, NEW q \in Seq(S), NEW x \in S, Unrepeated(q), x \notin Elements(q)
  PROVE  Unrepeated(Append(q, x)) /\ Elements(Append(q, x)) = Elements(q) \cup {x}
<1> DEFINE r == Append(q, x)
<1>1. /\ Len(q) \in Nat /\ Len(r) = Len(q) + 1
      /\ \A i \in 1..Len(q) : r[i] = q[i] /\ r[i] # x
      /\ r[Len(q) + 1] = x
  BY AppendProperties, LenProperties DEF Elements
<1> HIDE DEF r
<1>2. Unrepeated(r)
  <2> SUFFICES ASSUME NEW i \in 1..(Len(q) + 1), NEW j \in 1..(Len(q) + 1), r[i] = r[j] PROVE i = j
    BY <1>1 DEF Unrepeated
  <2>1. CASE i \in 1..Len(q) /\ j \in 1..Len(q)
    BY <1>1, <2>1 DEF Unrepeated
  <2>2. CASE i = Len(q) + 1 \/ j = Len(q) + 1
    BY <1>1, <2>2
  <2> QED BY <1>1, <2>1, <2>2
<1> QED BY <1>2, ElementsOfAppend DEF r

(* A push keeps the jobs distinct and may evict some. *)
LEMMA UnrepeatedPush ==
  ASSUME NEW S, NEW q \in Seq(S), NEW x \in S, NEW cap \in Nat \ {0},
         Unrepeated(q), x \notin Elements(q)
  PROVE  /\ Unrepeated(PushDropOldest(q, x, cap))
         /\ Elements(PushDropOldest(q, x, cap)) =
              IF Full(q, cap) THEN (Elements(q) \ {Head(q)}) \cup {x} ELSE Elements(q) \cup {x}
         /\ Full(q, cap) => Head(q) \in Elements(q)
<1>1. CASE ~Full(q, cap)
  BY <1>1, UnrepeatedAppend DEF PushDropOldest
<1>2. CASE Full(q, cap)
  <2>1. q # <<>>
    BY <1>2, EmptySeq, LenProperties DEF Full
  <2>2. /\ Tail(q) \in Seq(S) /\ Unrepeated(Tail(q)) /\ Head(q) \in Elements(q)
        /\ Elements(Tail(q)) = Elements(q) \ {Head(q)}
    BY <2>1, UnrepeatedTail
  <2>3. Unrepeated(Append(Tail(q), x)) /\ Elements(Append(Tail(q), x)) = Elements(Tail(q)) \cup {x}
    <3> DEFINE t == Tail(q)
    <3>1. t \in Seq(S) /\ Unrepeated(t) /\ x \notin Elements(t)
      BY <2>2
    <3> HIDE DEF t
    <3>2. Unrepeated(Append(t, x)) /\ Elements(Append(t, x)) = Elements(t) \cup {x}
      BY <3>1, UnrepeatedAppend
    <3> QED BY <3>2 DEF t
  <2> QED BY <1>2, <2>2, <2>3 DEF PushDropOldest
<1> QED BY <1>1, <1>2

(* Two sequences without repetitions and without a common element. *)
LEMMA UnrepeatedConcat ==
  ASSUME NEW S, NEW s \in Seq(S), NEW t \in Seq(S), Unrepeated(s), Unrepeated(t),
         Elements(s) \cap Elements(t) = {}
  PROVE  Unrepeated(s \o t)
<1> DEFINE r == s \o t
<1>1. /\ Len(s) \in Nat /\ Len(t) \in Nat /\ Len(r) = Len(s) + Len(t)
      /\ \A i \in 1..Len(r) : r[i] = IF i <= Len(s) THEN s[i] ELSE t[i - Len(s)]
  BY ConcatProperties, LenProperties
<1> HIDE DEF r
<1>2. \A i \in 1..Len(s) : s[i] \in Elements(s)
  BY DEF Elements
<1>3. \A i \in 1..Len(t) : t[i] \in Elements(t)
  BY DEF Elements
<1>4. Unrepeated(r)
  <2> SUFFICES ASSUME NEW i \in 1..Len(r), NEW j \in 1..Len(r), r[i] = r[j] PROVE i = j
    BY DEF Unrepeated
  <2>1. CASE i <= Len(s) /\ j <= Len(s)
    <3>1. i \in 1..Len(s) /\ j \in 1..Len(s) /\ s[i] = s[j]
      BY <1>1, <2>1
    <3> QED BY <3>1 DEF Unrepeated
  <2>2. CASE ~(i <= Len(s)) /\ ~(j <= Len(s))
    <3>1. i - Len(s) \in 1..Len(t) /\ j - Len(s) \in 1..Len(t) /\ t[i - Len(s)] = t[j - Len(s)]
      BY <1>1, <2>2
    <3>2. i - Len(s) = j - Len(s)
      BY <3>1 DEF Unrepeated
    <3> QED BY <1>1, <3>2
  <2>3. CASE i <= Len(s) /\ ~(j <= Len(s))
    <3>1. i \in 1..Len(s) /\ j - Len(s) \in 1..Len(t) /\ s[i] = t[j - Len(s)]
      BY <1>1, <2>3
    <3> QED BY <1>2, <1>3, <3>1
  <2>4. CASE ~(i <= Len(s)) /\ j <= Len(s)
    <3>1. j \in 1..Len(s) /\ i - Len(s) \in 1..Len(t) /\ s[j] = t[i - Len(s)]
      BY <1>1, <2>4
    <3> QED BY <1>2, <1>3, <3>1
  <2> QED BY <2>1, <2>2, <2>3, <2>4
<1> QED BY <1>4 DEF r
=============================================================================
