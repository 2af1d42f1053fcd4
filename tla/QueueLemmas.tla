---------------------------- MODULE QueueLemmas ----------------------------
(***************************************************************************)
(* Facts about sets of numbers, on which proofs about a CHOOSE of the      *)
(* first or the last of something rest, and about the queues of messages   *)
(* between the processes: what is at each place after a message was sent   *)
(* or received, and how many of the messages of a given sort are still on  *)
(* their way.                                                              *)
(***************************************************************************)
EXTENDS Integers, Sequences, FiniteSets, FiniteSetTheorems, WellFoundedInduction, TLAPS

-----------------------------------------------------------------------------
(* Numbers.                                                                *)

\* A set of natural numbers has a least element.
LEMMA Least ==
  ASSUME NEW T \in SUBSET Nat, T # {}
  PROVE  \E m \in T : \A k \in T : m <= k
<1> DEFINE R == OpToRel(<, Nat)
<1>1. IsWellFoundedOn(R, Nat)
  BY NatLessThanWellFounded
<1>2. R = {p \in Nat \X Nat : p[1] < p[2]}
  BY DEF OpToRel
<1> HIDE DEF R
<1>3. PICK m \in T : \A k \in T : <<k, m>> \notin R
  BY <1>1, WFMin
<1>4. \A k, n \in Nat : k < n => <<k, n>> \in R
  BY <1>2
<1>5. ASSUME NEW k \in T PROVE m <= k
  <2>1. k \in Nat /\ m \in Nat
    OBVIOUS
  <2>2. ~(k < m)
    BY <1>3, <1>4, <2>1
  <2> QED
    BY <2>1, <2>2
<1> QED
  BY <1>5

\* A set of natural numbers that is bounded has a greatest element.
LEMMA Greatest ==
  ASSUME NEW n \in Nat, NEW T \in SUBSET (0..n), T # {}
  PROVE  \E m \in T : \A k \in T : k <= m
<1> DEFINE U == {n - k : k \in T}
<1>1. U \in SUBSET Nat /\ U # {}
  <2>1. \A k \in T : n - k \in Nat
    OBVIOUS
  <2>2. PICK k \in T : TRUE
    OBVIOUS
  <2> QED
    BY <2>1, <2>2
<1>2. PICK u \in U : \A v \in U : u <= v
  BY <1>1, Least
<1>3. PICK m \in T : u = n - m
  BY <1>2
<1>4. ASSUME NEW k \in T PROVE k <= m
  <2>1. u <= n - k
    BY <1>2
  <2>2. k \in 0..n /\ m \in 0..n
    OBVIOUS
  <2> QED
    BY <1>3, <2>1, <2>2
<1> QED
  BY <1>4

\* Induction: a set that has 0, and the successor of each of its numbers below
\* n, has every number up to n.
LEMMA UpTo ==
  ASSUME NEW n \in Nat, NEW T, 0 \in T, \A i \in 0..(n - 1) : i \in T => i + 1 \in T
  PROVE  0..n \subseteq T
<1> SUFFICES ASSUME ~(0..n \subseteq T) PROVE FALSE
  OBVIOUS
<1> DEFINE U == (0..n) \ T
<1>1. U \in SUBSET Nat /\ U # {}
  OBVIOUS
<1>2. PICK m \in U : \A k \in U : m <= k
  BY <1>1, Least
<1>3. m \in 1..n /\ m \notin T
  BY <1>2
<1>4. m - 1 \in 0..(n - 1) /\ (m - 1) + 1 = m /\ ~(m <= m - 1)
  BY <1>3
<1>5. m - 1 \in 0..n
  BY <1>4
<1>6. m - 1 \in T
  BY <1>2, <1>4, <1>5
<1> QED
  BY <1>3, <1>4, <1>6

-----------------------------------------------------------------------------
(* Queues.                                                                 *)

\* The places in the queue q where a message of the set M waits.
Places(q, M) == {i \in DOMAIN q : q[i] \in M}

Count(q, M) == Cardinality(Places(q, M))

\* What waits in a queue is a message.
LEMMA ItemType ==
  ASSUME NEW S, NEW q \in Seq(S)
  PROVE  \A i \in DOMAIN q : q[i] \in S
OBVIOUS

\* A message that is sent waits behind the others.
LEMMA AppendItems ==
  ASSUME NEW S, NEW q \in Seq(S), NEW m \in S
  PROVE  /\ Len(q) \in Nat /\ DOMAIN q = 1..Len(q)
         /\ Append(q, m) \in Seq(S)
         /\ Len(Append(q, m)) = Len(q) + 1
         /\ DOMAIN Append(q, m) = 1..(Len(q) + 1)
         /\ \A i \in DOMAIN q : Append(q, m)[i] = q[i]
         /\ Append(q, m)[Len(q) + 1] = m
OBVIOUS

\* When the first is received the others move up.
LEMMA TailItems ==
  ASSUME NEW S, NEW q \in Seq(S), q # <<>>
  PROVE  /\ Len(q) \in Nat \ {0} /\ DOMAIN q = 1..Len(q)
         /\ Tail(q) \in Seq(S)
         /\ Len(Tail(q)) = Len(q) - 1
         /\ DOMAIN Tail(q) = 1..(Len(q) - 1)
         /\ \A i \in DOMAIN Tail(q) : i + 1 \in DOMAIN q /\ Tail(q)[i] = q[i + 1]
         /\ 1 \in DOMAIN q /\ Head(q) = q[1] /\ Head(q) \in S
OBVIOUS

\* Several messages that are sent at once.
LEMMA ConcatItems ==
  ASSUME NEW S, NEW p \in Seq(S), NEW q \in Seq(S)
  PROVE  /\ Len(p) \in Nat /\ DOMAIN p = 1..Len(p)
         /\ Len(q) \in Nat /\ DOMAIN q = 1..Len(q)
         /\ p \o q \in Seq(S)
         /\ DOMAIN (p \o q) = 1..(Len(p) + Len(q))
         /\ \A i \in DOMAIN p : (p \o q)[i] = p[i]
         /\ \A i \in DOMAIN q : (p \o q)[Len(p) + i] = q[i]
         /\ \A i \in DOMAIN (p \o q) :
               \/ i \in DOMAIN p
               \/ i > Len(p) /\ i - Len(p) \in DOMAIN q /\ (p \o q)[i] = q[i - Len(p)]
OBVIOUS

\* The places of a queue are finitely many.
LEMMA CountType ==
  ASSUME NEW S, NEW q \in Seq(S), NEW M
  PROVE  IsFiniteSet(Places(q, M)) /\ Count(q, M) \in Nat
<1>1. Len(q) \in Nat /\ DOMAIN q = 1..Len(q)
  OBVIOUS
<1>2. IsFiniteSet(1..Len(q))
  BY <1>1, FS_Interval
<1>3. Places(q, M) \in SUBSET (1..Len(q))
  BY <1>1 DEF Places
<1>4. IsFiniteSet(Places(q, M))
  BY <1>2, <1>3, FS_Subset
<1> QED
  BY <1>4, FS_CardinalityType DEF Count

\* Nothing waits in an empty queue.
LEMMA CountEmpty ==
  ASSUME NEW M
  PROVE  Count(<<>>, M) = 0
<1>1. Places(<<>>, M) = {}
  BY DEF Places
<1> QED
  BY <1>1, FS_EmptySet DEF Count

\* A message that is sent counts if it is in M.
LEMMA CountAppend ==
  ASSUME NEW S, NEW q \in Seq(S), NEW m \in S, NEW M
  PROVE  Count(Append(q, m), M) = IF m \in M THEN Count(q, M) + 1 ELSE Count(q, M)
<1> DEFINE n == Len(q) + 1
<1>1. /\ n \in Nat /\ DOMAIN q = 1..(n - 1) /\ DOMAIN Append(q, m) = 1..n
      /\ \A i \in DOMAIN q : Append(q, m)[i] = q[i]
      /\ Append(q, m)[n] = m
  OBVIOUS
<1>2. n \notin Places(q, M)
  BY <1>1 DEF Places
<1>3. Places(Append(q, m), M) = IF m \in M THEN Places(q, M) \cup {n} ELSE Places(q, M)
  BY <1>1 DEF Places
<1>4. IsFiniteSet(Places(q, M))
  BY CountType
<1> HIDE DEF n
<1> QED
  BY <1>2, <1>3, <1>4, FS_AddElement DEF Count

\* One that is received no longer does.
LEMMA CountTail ==
  ASSUME NEW S, NEW q \in Seq(S), q # <<>>, NEW M
  PROVE  Count(q, M) =
            IF Head(q) \in M THEN Count(Tail(q), M) + 1 ELSE Count(Tail(q), M)
<1> DEFINE A == Places(q, M) \ {1}
           B == Places(Tail(q), M)
           f == [i \in B |-> i + 1]
<1>1. /\ Len(q) \in Nat \ {0} /\ DOMAIN q = 1..Len(q)
      /\ DOMAIN Tail(q) = 1..(Len(q) - 1)
      /\ \A i \in DOMAIN Tail(q) : i + 1 \in DOMAIN q /\ Tail(q)[i] = q[i + 1]
      /\ Head(q) = q[1] /\ Tail(q) \in Seq(S)
  OBVIOUS
<1>2. B \subseteq Nat /\ A \subseteq Nat
  BY <1>1 DEF Places
<1>3. \A i \in B : i + 1 \in A
  BY <1>1 DEF Places
<1>4. \A j \in A : j - 1 \in B /\ (j - 1) + 1 = j
  <2> SUFFICES ASSUME NEW j \in A PROVE j - 1 \in B /\ (j - 1) + 1 = j
    OBVIOUS
  <2>1. j \in 1..Len(q) /\ j # 1 /\ q[j] \in M
    BY <1>1 DEF Places
  <2>2. j - 1 \in DOMAIN Tail(q) /\ (j - 1) + 1 = j
    BY <1>1, <2>1
  <2>3. Tail(q)[j - 1] = q[j]
    BY <1>1, <2>2
  <2> QED
    BY <2>1, <2>2, <2>3 DEF Places
<1>5. f \in [B -> A]
  BY <1>3
<1>6. \A i, j \in B : f[i] = f[j] => i = j
  BY <1>2
<1>7. \A j \in A : \E i \in B : f[i] = j
  BY <1>4
<1>8. IsFiniteSet(B) /\ IsFiniteSet(Places(q, M))
  BY <1>1, CountType
<1> HIDE DEF A, B, f
<1>9. f \in Injection(B, A)
  BY <1>5, <1>6 DEF Injection, IsInjective
<1>10. f \in Surjection(B, A)
  BY <1>5, <1>7 DEF Surjection
<1>11. Cardinality(A) = Cardinality(B)
  BY <1>8, <1>9, <1>10, FS_Surjection
<1>12. 1 \in Places(q, M) <=> Head(q) \in M
  BY <1>1 DEF Places
<1>13. Cardinality(A) =
         IF 1 \in Places(q, M) THEN Cardinality(Places(q, M)) - 1
         ELSE Cardinality(Places(q, M))
  BY <1>8, FS_RemoveElement DEF A
<1>14. Cardinality(Places(q, M)) \in Nat /\ Cardinality(B) \in Nat
  BY <1>8, FS_CardinalityType
<1> QED
  BY <1>11, <1>12, <1>13, <1>14 DEF Count, B

\* What is numbered one to one is as many.
LEMMA OneToOne ==
  ASSUME NEW A, NEW B, IsFiniteSet(A), NEW f \in [A -> B],
         \A x, y \in A : f[x] = f[y] => x = y,
         \A b \in B : \E x \in A : f[x] = b
  PROVE  IsFiniteSet(B) /\ Cardinality(B) = Cardinality(A)
<1>1. f \in Injection(A, B)
  BY DEF Injection, IsInjective
<1>2. f \in Surjection(A, B)
  BY DEF Surjection
<1> QED
  BY <1>1, <1>2, FS_Surjection

\* Two sets with nothing in common.
LEMMA Together ==
  ASSUME NEW A, NEW B, IsFiniteSet(A), IsFiniteSet(B), A \cap B = {}
  PROVE  /\ IsFiniteSet(A \cup B)
         /\ Cardinality(A) \in Nat /\ Cardinality(B) \in Nat
         /\ Cardinality(A \cup B) = Cardinality(A) + Cardinality(B)
<1>1. Cardinality(A \cap B) = 0
  BY FS_EmptySet
<1>2. Cardinality(A) \in Nat /\ Cardinality(B) \in Nat
  BY FS_CardinalityType
<1>3. /\ IsFiniteSet(A \cup B)
      /\ Cardinality(A \cup B) = Cardinality(A) + Cardinality(B) - Cardinality(A \cap B)
  BY FS_Union
<1> QED
  BY <1>1, <1>2, <1>3

\* Messages that are sent at once count as they would one by one.
LEMMA CountConcat ==
  ASSUME NEW S, NEW p \in Seq(S), NEW q \in Seq(S), NEW M
  PROVE  Count(p \o q, M) = Count(p, M) + Count(q, M)
<1> DEFINE n == Len(p)
           A == Places(p, M)
           C == Places(q, M)
           B == {i \in DOMAIN (p \o q) \ DOMAIN p : (p \o q)[i] \in M}
           f == [i \in C |-> n + i]
<1>1. /\ n \in Nat /\ DOMAIN p = 1..n /\ Len(q) \in Nat /\ DOMAIN q = 1..Len(q)
      /\ DOMAIN (p \o q) = 1..(n + Len(q))
      /\ \A i \in DOMAIN p : (p \o q)[i] = p[i]
      /\ \A i \in DOMAIN q : (p \o q)[n + i] = q[i]
      /\ \A i \in DOMAIN (p \o q) :
            \/ i \in DOMAIN p
            \/ i > n /\ i - n \in DOMAIN q /\ (p \o q)[i] = q[i - n]
  BY ConcatItems
<1> HIDE DEF n
<1>2. DOMAIN p \subseteq DOMAIN (p \o q)
  BY <1>1
<1>3. Places(p \o q, M) = A \cup B /\ A \cap B = {}
  BY <1>1, <1>2 DEF Places
<1>4. IsFiniteSet(A) /\ IsFiniteSet(C)
  BY CountType
<1>5. ASSUME NEW i \in C PROVE n + i \in B
  <2>1. i \in 1..Len(q) /\ q[i] \in M
    BY <1>1 DEF Places
  <2>2. n + i \in 1..(n + Len(q)) /\ n + i \notin 1..n
    BY <1>1, <2>1
  <2> QED
    BY <1>1, <2>1, <2>2
<1>6. ASSUME NEW i \in B PROVE i - n \in C /\ n + (i - n) = i
  <2>1. i \in DOMAIN (p \o q) /\ i \notin DOMAIN p /\ (p \o q)[i] \in M
    OBVIOUS
  <2>2. i > n /\ i - n \in DOMAIN q /\ (p \o q)[i] = q[i - n]
    BY <1>1, <2>1
  <2>3. i \in Nat
    BY <1>1, <2>1
  <2> QED
    BY <1>1, <2>1, <2>2, <2>3 DEF Places
<1>7. \A i \in C : i \in Nat
  BY <1>1 DEF Places
<1> HIDE DEF B, C
<1>8. f \in [C -> B] /\ \A i \in C : f[i] = n + i
  BY <1>5
<1>9. \A i, j \in C : f[i] = f[j] => i = j
  BY <1>1, <1>7
<1>10. \A i \in B : \E j \in C : f[j] = i
  BY <1>6, <1>8
<1> HIDE DEF f
<1>11. IsFiniteSet(B) /\ Cardinality(B) = Cardinality(C)
  BY <1>4, <1>8, <1>9, <1>10, OneToOne
<1> HIDE DEF A
<1>12. Cardinality(A \cup B) = Cardinality(A) + Cardinality(B)
  BY <1>3, <1>4, <1>11, Together
<1> QED
  BY <1>3, <1>11, <1>12 DEF Count, A, C

\* Those that are left when the first n are taken off are no more.
LEMMA CountRest ==
  ASSUME NEW S, NEW q \in Seq(S), NEW n \in Nat, NEW M
  PROVE  /\ SubSeq(q, n + 1, Len(q)) \in Seq(S)
         /\ Count(SubSeq(q, n + 1, Len(q)), M) <= Count(q, M)
         /\ n = 0 => SubSeq(q, n + 1, Len(q)) = q
<1> DEFINE first == SubSeq(q, 1, n)
           rest == SubSeq(q, n + 1, Len(q))
<1>1. Len(q) \in Nat /\ DOMAIN q = 1..Len(q) /\ \A i \in 1..Len(q) : q[i] \in S
  OBVIOUS
<1>2. n = 0 => rest = q
  OBVIOUS
<1>3. CASE n <= Len(q)
  <2>1. first \in Seq(S) /\ rest \in Seq(S)
    BY <1>1, <1>3
  <2>2. first \o rest = q
    <3>1. /\ Len(first) = n /\ Len(rest) = Len(q) - n
          /\ \A i \in 1..n : first[i] = q[i]
          /\ \A i \in 1..(Len(q) - n) : rest[i] = q[n + i]
      <4>1. /\ first = [i \in 1..n |-> q[i]]
            /\ rest = [i \in 1..(Len(q) - n) |-> q[n + i]]
        BY <1>1, <1>3
      <4>2. first = [i \in 1..n |-> q[i]] => Len(first) = n /\ \A i \in 1..n : first[i] = q[i]
        <5> HIDE DEF first
        <5> QED
          OBVIOUS
      <4>3. PICK m \in Nat : m = Len(q) - n
        <5>1. Len(q) - n \in Nat
          BY <1>1, <1>3
        <5> QED
          BY <5>1, Zenon
      <4>4. rest = [i \in 1..m |-> q[n + i]] =>
              Len(rest) = m /\ \A i \in 1..m : rest[i] = q[n + i]
        <5> HIDE DEF rest
        <5> QED
          BY <4>3
      <4> HIDE DEF first, rest
      <4> QED
        BY <4>1, <4>2, <4>3, <4>4
    <3> HIDE DEF first, rest
    <3>2. /\ first \o rest \in Seq(S) /\ Len(first \o rest) = Len(q)
          /\ \A i \in 1..n : (first \o rest)[i] = q[i]
          /\ \A i \in 1..(Len(q) - n) : (first \o rest)[n + i] = q[n + i]
      <4>1. DOMAIN first = 1..n /\ DOMAIN rest = 1..(Len(q) - n)
        BY <2>1, <3>1
      <4>2. /\ first \o rest \in Seq(S)
            /\ \A i \in DOMAIN first : (first \o rest)[i] = first[i]
            /\ \A i \in DOMAIN rest : (first \o rest)[Len(first) + i] = rest[i]
        BY <2>1, ConcatItems
      <4>3. Len(first \o rest) = Len(q)
        <5>1. Len(first \o rest) = Len(first) + Len(rest)
          BY <2>1
        <5> QED
          BY <1>1, <3>1, <5>1
      <4> QED
        BY <3>1, <4>1, <4>2, <4>3
    <3>3. ASSUME NEW i \in 1..Len(q) PROVE (first \o rest)[i] = q[i]
      <4>1. CASE i <= n
        BY <3>2, <4>1
      <4>2. CASE ~(i <= n)
        <5>1. i - n \in 1..(Len(q) - n) /\ n + (i - n) = i
          BY <1>1, <1>3, <4>2
        <5>2. (first \o rest)[n + (i - n)] = q[n + (i - n)]
          BY <3>2, <5>1
        <5> QED
          BY <5>1, <5>2
      <4> QED
        BY <4>1, <4>2
    <3>4. /\ first \o rest = [i \in 1..Len(q) |-> (first \o rest)[i]]
          /\ q = [i \in 1..Len(q) |-> q[i]]
      <4> DEFINE s == first \o rest
      <4>1. s \in Seq(S) /\ Len(s) = Len(q)
        BY <3>2
      <4> HIDE DEF s
      <4>2. s = [i \in 1..Len(q) |-> s[i]] /\ q = [i \in 1..Len(q) |-> q[i]]
        BY <4>1
      <4> QED
        BY <4>2 DEF s
    <3> QED
      BY <3>3, <3>4, Zenon
  <2> HIDE DEF first, rest
  <2>3. Count(q, M) = Count(first, M) + Count(rest, M)
    BY <2>1, <2>2, CountConcat
  <2>4. Count(first, M) \in Nat /\ Count(rest, M) \in Nat
    BY <2>1, CountType
  <2>5. Count(rest, M) <= Count(q, M)
    BY <2>3, <2>4
  <2> QED
    BY <1>2, <2>1, <2>5 DEF rest
<1>4. CASE ~(n <= Len(q))
  <2>1. rest = <<>>
    BY <1>1, <1>4
  <2>2. Count(rest, M) = 0 /\ Count(q, M) \in Nat
    BY <2>1, CountEmpty, CountType
  <2> HIDE DEF rest
  <2>3. rest \in Seq(S) /\ Count(rest, M) <= Count(q, M)
    BY <2>1, <2>2
  <2> QED
    BY <1>2, <2>3 DEF rest
<1> QED
  BY <1>3, <1>4
=============================================================================
