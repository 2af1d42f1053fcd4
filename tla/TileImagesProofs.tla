-------------------------- MODULE TileImagesProofs --------------------------
(***************************************************************************)
(* For every set of tiles and workers, every limit and every budget: no    *)
(* delta is applied to pixels it was not made for, and no tile goes back   *)
(* to an older rendering.                                                  *)
(*                                                                         *)
(* The argument follows the renderings of one tile from coolwsd to the     *)
(* canvas.  What is on its way, at any stage, leads from the rendering     *)
(* that the next stage has reached to the one that this stage has reached. *)
(***************************************************************************)
EXTENDS TilePipelineProofs

-----------------------------------------------------------------------------
(* What is on its way leads from one rendering to a later one.             *)

\* A message, a delta or a task is known by the pairs of renderings that it
\* may lead from and to.
Hops == SUBSET (WireId \X WireId)

\* What waits in q leads from the rendering a to b, each by its hop in h.
Leads(q, h, a, b) ==
    \E p \in [0..Len(q) -> WireId] :
      /\ p[0] = a /\ p[Len(q)] = b
      /\ \A i \in 1..Len(q) : <<p[i - 1], p[i]>> \in h[q[i]]

\* Where nothing is on its way the renderings are the same.
LEMMA LeadsNowhere ==
  ASSUME NEW h, NEW a \in WireId, NEW b
  PROVE  Leads(<<>>, h, a, b) <=> a = b
<1>1. Len(<<>>) = 0
  OBVIOUS
<1>2. ASSUME a = b PROVE Leads(<<>>, h, a, b)
  <2> DEFINE p == [i \in 0..0 |-> a]
  <2>1. p \in [0..0 -> WireId] /\ p[0] = a /\ p[0] = b
    BY <1>2
  <2> HIDE DEF p
  <2> QED
    BY <1>1, <2>1 DEF Leads
<1> QED
  BY <1>1, <1>2 DEF Leads

\* The ends are renderings.
LEMMA LeadsType ==
  ASSUME NEW S, NEW q \in Seq(S), NEW h, NEW a, NEW b, Leads(q, h, a, b)
  PROVE  a \in WireId /\ b \in WireId
<1>1. Len(q) \in Nat
  OBVIOUS
<1> QED
  BY <1>1 DEF Leads

\* One more leads further.
LEMMA LeadsAppend ==
  ASSUME NEW S, NEW q \in Seq(S), NEW m \in S, NEW h, NEW a, NEW b,
         NEW c \in WireId, Leads(q, h, a, b), <<b, c>> \in h[m]
  PROVE  Leads(Append(q, m), h, a, c)
<1> DEFINE n == Len(q)
           r == Append(q, m)
<1>1. PICK p \in [0..n -> WireId] :
        /\ p[0] = a /\ p[n] = b
        /\ \A i \in 1..n : <<p[i - 1], p[i]>> \in h[q[i]]
  BY DEF Leads
<1>2. n \in Nat /\ Len(r) = n + 1 /\ r[n + 1] = m /\ \A i \in 1..n : r[i] = q[i]
  BY AppendItems
<1> HIDE DEF n, r
<1> DEFINE f == [i \in 0..(n + 1) |-> IF i = n + 1 THEN c ELSE p[i]]
<1>3. f \in [0..(n + 1) -> WireId] /\ f[0] = a /\ f[n + 1] = c
  BY <1>1, <1>2
<1>4. ASSUME NEW i \in 1..(n + 1) PROVE <<f[i - 1], f[i]>> \in h[r[i]]
  <2>1. CASE i = n + 1
    <3>1. f[i - 1] = b /\ f[i] = c /\ r[i] = m
      BY <1>1, <1>2, <2>1
    <3> HIDE DEF f
    <3> QED
      BY <3>1
  <2>2. CASE i # n + 1
    <3>1. i \in 1..n /\ f[i - 1] = p[i - 1] /\ f[i] = p[i] /\ r[i] = q[i]
      BY <1>1, <1>2, <2>2
    <3> HIDE DEF f
    <3> QED
      BY <1>1, <3>1
  <2> QED
    BY <2>1, <2>2
<1> HIDE DEF f
<1>5. Leads(r, h, a, c)
  BY <1>2, <1>3, <1>4 DEF Leads
<1> QED
  BY <1>5 DEF r

\* The first leads somewhere, and the others on from there.
LEMMA LeadsTail ==
  ASSUME NEW S, NEW q \in Seq(S), q # <<>>, NEW h, NEW a, NEW b, Leads(q, h, a, b)
  PROVE  \E c \in WireId : <<a, c>> \in h[Head(q)] /\ Leads(Tail(q), h, c, b)
<1> DEFINE n == Len(q)
           r == Tail(q)
<1>1. PICK p \in [0..n -> WireId] :
        /\ p[0] = a /\ p[n] = b
        /\ \A i \in 1..n : <<p[i - 1], p[i]>> \in h[q[i]]
  BY DEF Leads
<1>2. /\ n \in Nat \ {0} /\ Len(r) = n - 1 /\ Head(q) = q[1]
      /\ \A i \in 1..(n - 1) : r[i] = q[i + 1]
  BY TailItems
<1> HIDE DEF n, r
<1> DEFINE f == [i \in 0..(n - 1) |-> p[i + 1]]
<1>3. f \in [0..(n - 1) -> WireId] /\ f[0] = p[1] /\ f[n - 1] = b /\ p[1] \in WireId
  BY <1>1, <1>2
<1>4. ASSUME NEW i \in 1..(n - 1) PROVE <<f[i - 1], f[i]>> \in h[r[i]]
  <2>0. i + 1 \in 1..n /\ i \in 0..(n - 1) /\ i - 1 \in 0..(n - 1) /\ (i - 1) + 1 = (i + 1) - 1
    BY <1>2
  <2>1. i + 1 \in 1..n /\ f[i - 1] = p[(i + 1) - 1] /\ f[i] = p[i + 1] /\ r[i] = q[i + 1]
    BY <1>2, <2>0
  <2> HIDE DEF f
  <2> QED
    BY <1>1, <2>1
<1> HIDE DEF f
<1>5. Leads(r, h, p[1], b)
  BY <1>2, <1>3, <1>4 DEF Leads
<1>6. <<a, p[1]>> \in h[Head(q)]
  <2>1. 1 \in 1..n /\ 1 - 1 = 0
    BY <1>2
  <2>2. <<p[1 - 1], p[1]>> \in h[q[1]]
    BY <1>1, <2>1
  <2> QED
    BY <1>1, <1>2, <2>1, <2>2
<1> QED
  BY <1>3, <1>5, <1>6 DEF r

\* One after the other.
LEMMA LeadsConcat ==
  ASSUME NEW S, NEW q \in Seq(S), NEW r \in Seq(S), NEW h, NEW a, NEW b, NEW c,
         Leads(q, h, a, b), Leads(r, h, b, c)
  PROVE  Leads(q \o r, h, a, c)
<1> DEFINE n == Len(q)
           m == Len(r)
           s == q \o r
<1>1. PICK p \in [0..n -> WireId] :
        /\ p[0] = a /\ p[n] = b
        /\ \A i \in 1..n : <<p[i - 1], p[i]>> \in h[q[i]]
  BY DEF Leads
<1>2. PICK g \in [0..m -> WireId] :
        /\ g[0] = b /\ g[m] = c
        /\ \A i \in 1..m : <<g[i - 1], g[i]>> \in h[r[i]]
  BY DEF Leads
<1>3. /\ n \in Nat /\ m \in Nat /\ Len(s) = n + m
      /\ \A i \in 1..n : s[i] = q[i]
      /\ \A i \in 1..m : s[n + i] = r[i]
  OBVIOUS
<1> HIDE DEF n, m, s
<1> DEFINE f == [i \in 0..(n + m) |-> IF i <= n THEN p[i] ELSE g[i - n]]
<1>4. f \in [0..(n + m) -> WireId] /\ f[0] = a /\ f[n + m] = c
  <2>1. ASSUME NEW i \in 0..(n + m) PROVE f[i] \in WireId
    <3>1. CASE i <= n
      BY <1>3, <3>1
    <3>2. CASE ~(i <= n)
      <4>1. i - n \in 0..m
        BY <1>3, <3>2
      <4> QED
        BY <3>2, <4>1
    <3> QED
      BY <3>1, <3>2
  <2>2. f[0] = a
    BY <1>1, <1>3
  <2>3. f[n + m] = c
    <3>1. CASE m = 0
      BY <1>1, <1>2, <1>3, <3>1
    <3>2. CASE m # 0
      BY <1>2, <1>3, <3>2
    <3> QED
      BY <3>1, <3>2
  <2> QED
    BY <2>1, <2>2, <2>3
<1>5. ASSUME NEW i \in 1..(n + m) PROVE <<f[i - 1], f[i]>> \in h[s[i]]
  <2>1. CASE i <= n
    <3>1. i \in 1..n /\ f[i - 1] = p[i - 1] /\ f[i] = p[i] /\ s[i] = q[i]
      BY <1>3, <2>1
    <3> HIDE DEF f
    <3> QED
      BY <1>1, <3>1
  <2>2. CASE ~(i <= n)
    <3>1. PICK j \in 1..m : i = n + j
      <4>1. i - n \in 1..m /\ i = n + (i - n)
        BY <1>3, <2>2
      <4> QED
        BY <4>1
    <3>2. f[i] = g[j] /\ s[i] = r[j]
      BY <1>3, <3>1
    <3>3. f[i - 1] = g[j - 1]
      <4>1. CASE j = 1
        BY <1>1, <1>2, <1>3, <3>1, <4>1
      <4>2. CASE j # 1
        BY <1>3, <3>1, <4>2
      <4> QED
        BY <4>1, <4>2
    <3> HIDE DEF f
    <3> QED
      BY <1>2, <3>2, <3>3
  <2> QED
    BY <2>1, <2>2
<1> HIDE DEF f
<1>6. Leads(s, h, a, c)
  BY <1>3, <1>4, <1>5 DEF Leads
<1> QED
  BY <1>6 DEF s

\* With more hops allowed it leads there too.
LEMMA LeadsWeaker ==
  ASSUME NEW S, NEW q \in Seq(S), NEW h, NEW g, NEW a, NEW b, Leads(q, h, a, b),
         \A m \in S : h[m] \subseteq g[m]
  PROVE  Leads(q, g, a, b)
<1>1. PICK p \in [0..Len(q) -> WireId] :
        /\ p[0] = a /\ p[Len(q)] = b
        /\ \A i \in 1..Len(q) : <<p[i - 1], p[i]>> \in h[q[i]]
  BY DEF Leads
<1>2. \A i \in 1..Len(q) : q[i] \in S
  OBVIOUS
<1>3. \A i \in 1..Len(q) : <<p[i - 1], p[i]>> \in g[q[i]]
  BY <1>1, <1>2
<1> QED
  BY <1>1, <1>3 DEF Leads

\* No hop leads back.
Forward(h, S) == \A m \in S : \A p \in h[m] : p[1] <= p[2]

LEMMA LeadsBetween ==
  ASSUME NEW S, NEW q \in Seq(S), NEW h, NEW a, NEW b, Leads(q, h, a, b),
         Forward(h, S)
  PROVE  \E p \in [0..Len(q) -> WireId] :
           /\ p[0] = a /\ p[Len(q)] = b
           /\ \A i \in 1..Len(q) : <<p[i - 1], p[i]>> \in h[q[i]]
           /\ \A i \in 0..Len(q) : a <= p[i] /\ p[i] <= b
<1> DEFINE n == Len(q)
<1>1. PICK p \in [0..n -> WireId] :
        /\ p[0] = a /\ p[n] = b
        /\ \A i \in 1..n : <<p[i - 1], p[i]>> \in h[q[i]]
  BY DEF Leads
<1>2. n \in Nat /\ \A i \in 1..n : q[i] \in S
  OBVIOUS
<1> HIDE DEF n
<1>3. \A i \in 0..n : p[i] \in Nat
  BY <1>1, WireAssumption DEF WireId
<1>4. a \in Nat /\ b \in Nat
  BY <1>1, <1>2, <1>3
<1>5. ASSUME NEW i \in 0..(n - 1) PROVE p[i] <= p[i + 1]
  <2>1. i + 1 \in 1..n /\ (i + 1) - 1 = i
    BY <1>2
  <2>2. <<p[i], p[i + 1]>> \in h[q[i + 1]] /\ q[i + 1] \in S
    BY <1>1, <1>2, <2>1
  <2> QED
    BY <2>2 DEF Forward
<1>6. \A i \in 0..n : a <= p[i]
  <2> DEFINE T == {i \in 0..n : a <= p[i]}
  <2>1. 0 \in T
    BY <1>1, <1>2, <1>4
  <2>2. ASSUME NEW i \in 0..(n - 1), i \in T PROVE i + 1 \in T
    <3>1. i \in 0..n /\ i + 1 \in 0..n
      BY <1>2
    <3> QED
      BY <1>3, <1>4, <1>5, <2>2, <3>1
  <2>3. 0..n \subseteq T
    <3> HIDE DEF T
    <3> QED
      BY <1>2, <2>1, <2>2, UpTo
  <2> QED
    BY <2>3
<1>7. \A i \in 0..n : p[i] <= b
  <2> DEFINE T == {i \in 0..n : p[n - i] <= b}
  <2>1. 0 \in T
    BY <1>1, <1>2, <1>4
  <2>2. ASSUME NEW i \in 0..(n - 1), i \in T PROVE i + 1 \in T
    <3>1. PICK j \in 0..(n - 1) : j = n - (i + 1)
      BY <1>2
    <3>2. j \in 0..n /\ j + 1 \in 0..n /\ j + 1 = n - i /\ i + 1 \in 0..n
      BY <1>2, <3>1
    <3>3. p[j + 1] <= b /\ p[j] <= p[j + 1]
      BY <1>5, <2>2, <3>2
    <3>4. p[j] <= b
      BY <1>3, <1>4, <3>2, <3>3
    <3> QED
      BY <3>1, <3>2, <3>4
  <2>3. 0..n \subseteq T
    <3> HIDE DEF T
    <3> QED
      BY <1>2, <2>1, <2>2, UpTo
  <2>4. ASSUME NEW i \in 0..n PROVE p[i] <= b
    <3>1. n - i \in 0..n /\ n - (n - i) = i
      BY <1>2
    <3>2. n - i \in T
      BY <2>3, <3>1
    <3> QED
      BY <3>1, <3>2
  <2> QED
    BY <2>4
<1>8. \A i \in 0..n : a <= p[i] /\ p[i] <= b
  BY <1>6, <1>7
<1> QED
  BY <1>1, <1>8 DEF n

LEMMA LeadsForward ==
  ASSUME NEW S, NEW q \in Seq(S), NEW h, NEW a, NEW b, Leads(q, h, a, b),
         Forward(h, S)
  PROVE  a <= b
<1>1. PICK p \in [0..Len(q) -> WireId] :
        p[0] = a /\ \A i \in 0..Len(q) : a <= p[i] /\ p[i] <= b
  BY LeadsBetween
<1>2. 0 \in 0..Len(q)
  OBVIOUS
<1> QED
  BY <1>1, <1>2

\* Nothing of what is on its way concerns the tile.
LEMMA LeadsStay ==
  ASSUME NEW S, NEW q \in Seq(S), NEW h, NEW a \in WireId,
         \A i \in 1..Len(q) : <<a, a>> \in h[q[i]]
  PROVE  Leads(q, h, a, a)
<1> DEFINE n == Len(q)
           p == [i \in 0..n |-> a]
<1>1. n \in Nat
  OBVIOUS
<1> HIDE DEF n
<1>2. p \in [0..n -> WireId] /\ p[0] = a /\ p[n] = a
  BY <1>1
<1>3. \A i \in 1..n : p[i - 1] = a /\ p[i] = a
  BY <1>1
<1> HIDE DEF p
<1> QED
  BY <1>2, <1>3 DEF Leads, n

\* Just one of them does.
LEMMA LeadsOnce ==
  ASSUME NEW S, NEW q \in Seq(S), NEW h, NEW a \in WireId, NEW b \in WireId,
         NEW j \in 1..Len(q), <<a, b>> \in h[q[j]],
         \A i \in 1..Len(q) : i # j => <<a, a>> \in h[q[i]] /\ <<b, b>> \in h[q[i]]
  PROVE  Leads(q, h, a, b)
<1> DEFINE n == Len(q)
           p == [i \in 0..n |-> IF i < j THEN a ELSE b]
<1>1. n \in Nat /\ j \in 1..n
  OBVIOUS
<1>2. \A i \in 1..n : i # j => <<a, a>> \in h[q[i]] /\ <<b, b>> \in h[q[i]]
  OBVIOUS
<1> HIDE DEF n
<1>3. p \in [0..n -> WireId] /\ p[0] = a /\ p[n] = b
  BY <1>1
<1>4. ASSUME NEW i \in 1..n PROVE <<p[i - 1], p[i]>> \in h[q[i]]
  <2>1. CASE i = j
    <3>1. p[i - 1] = a /\ p[i] = b
      BY <1>1, <2>1
    <3> HIDE DEF p
    <3> QED
      BY <2>1, <3>1
  <2>2. CASE i # j
    <3>1. (p[i - 1] = a /\ p[i] = a) \/ (p[i - 1] = b /\ p[i] = b)
      BY <1>1, <2>2
    <3> HIDE DEF p
    <3> QED
      BY <1>2, <2>2, <3>1
  <2> QED
    BY <2>1, <2>2
<1> HIDE DEF p
<1> QED
  BY <1>3, <1>4 DEF Leads, n

-----------------------------------------------------------------------------
(* The stream of tiles from coolwsd.                                       *)

\* A tile message of tile k, and any other message.
MsgHop(m, k) ==
    {p \in WireId \X WireId :
       IF m.type = "tile" /\ m.key = k
       THEN /\ p[2] = m.to /\ p[1] <= p[2]
            /\ m.from = IF m.isKeyframe THEN 0 ELSE p[1]
       ELSE p[2] = p[1]}

MsgHops(k) == [m \in ServerMsg |-> MsgHop(m, k)]

\* What waits to be emitted and what is on the wire lead from the rendering R
\* that the browser has got to the one that the ClientDeltaTracker has, which
\* is not newer than the cached one.
Stream(k, slurped, sending, sent, last, R) ==
    \E M, G \in WireId :
      /\ Leads(slurped, MsgHops(k), R, M)
      /\ Leads(sending, MsgHops(k), M, G)
      /\ sent \in {0, G} /\ G <= last

Injective(q) == \A i, j \in 1..Len(q) : q[i] = q[j] => i = j

\* A message that is not a tile, or of another tile, leads nowhere.
LEMMA OtherMsg ==
  ASSUME NEW m \in ServerMsg, NEW k, ~(m.type = "tile" /\ m.key = k), NEW a \in WireId
  PROVE  <<a, a>> \in MsgHops(k)[m]
BY DEF MsgHops, MsgHop

\* Not even back.
LEMMA OtherMsgOnly ==
  ASSUME NEW m \in ServerMsg, NEW k, ~(m.type = "tile" /\ m.key = k), NEW a, NEW b,
         <<a, b>> \in MsgHops(k)[m]
  PROVE  a = b
BY DEF MsgHops, MsgHop

\* sendTileNow continues where the tracker is.
LEMMA SendTileHop ==
  ASSUME NEW k \in Keys, NEW d \in TileData, d.keyframe # 0, NEW G \in WireId,
         NEW last \in {0, G}, G <= d.last
  PROVE  <<G, d.last>> \in MsgHops(k)[SendTileNow(k, d, last)]
<1> DEFINE kf == (last < d.keyframe)
           m == SendTileNow(k, d, last)
<1>0. 0 \in WireId /\ \A x \in WireId : x \in Nat
  BY WireAssumption DEF WireId
<1>1. last \in WireId
  BY <1>0
<1>2. m \in TileMsg
  BY <1>1, SendTileNowType
<1>3. m \in ServerMsg
  BY <1>2 DEF ServerMsg
<1>4. /\ m.type = "tile" /\ m.key = k /\ m.isKeyframe = kf
      /\ m.from = (IF kf THEN 0 ELSE last) /\ m.to = d.last
  BY Zenon DEF SendTileNow
<1>5. d.last \in WireId /\ d.keyframe \in WireId
  BY DEF TileData
<1> HIDE DEF m
<1>6. ~kf => last = G
  BY <1>0, <1>5
<1> HIDE DEF kf
<1>7. <<G, d.last>> \in MsgHop(m, k)
  BY <1>4, <1>5, <1>6 DEF MsgHop
<1> QED
  BY <1>3, <1>7 DEF MsgHops, m

\* Requests that join the queue are not in it.
LEMMA EnqueueInjective ==
  ASSUME NEW queue \in Seq(Keys), NEW S \in SUBSET Keys, Injective(queue)
  PROVE  Injective(Enqueue(queue, S))
<1> DEFINE T == S \ Range(queue)
           c == Cardinality(T)
           add == SetToSeq(T)
           n == Len(queue)
           r == queue \o add
<1>1. IsFiniteSet(T) /\ T \in SUBSET Keys
  BY WireAssumption, FS_Subset
<1>2. \A x \in T : x \notin Range(queue)
  OBVIOUS
<1> HIDE DEF T
<1>3. c \in Nat /\ ExistsBijection(1..c, T)
  BY <1>1, FS_CardinalityType
<1>4. \E f \in [1..c -> T] : IsInjective(f)
  BY <1>3 DEF ExistsBijection, Bijection, Injection
<1>5. add \in [1..c -> T] /\ IsInjective(add)
  BY <1>4 DEF SetToSeq
<1> HIDE DEF c, add
<1>6. \A i, j \in 1..c : add[i] = add[j] => i = j
  BY <1>5 DEF IsInjective
<1>7. add \in Seq(Keys) /\ Len(add) = c
  BY <1>1, <1>3, <1>5
<1>8. /\ n \in Nat /\ Len(r) = n + c
      /\ \A i \in 1..n : r[i] = queue[i]
      /\ \A i \in 1..c : r[n + i] = add[i]
  BY <1>3, <1>7
<1>9. \A i \in 1..n : queue[i] \in Range(queue)
  BY DEF Range
<1>10. \A i, j \in 1..n : queue[i] = queue[j] => i = j
  BY DEF Injective
<1> HIDE DEF r, n
<1>11. ASSUME NEW i \in 1..(n + c), NEW j \in 1..(n + c), r[i] = r[j]
       PROVE  i = j
  <2>1. ASSUME NEW x \in 1..(n + c), x > n
        PROVE  \E y \in 1..c : x = n + y
    <3>1. x - n \in 1..c /\ x = n + (x - n)
      BY <1>3, <1>8, <2>1
    <3> QED
      BY <3>1
  <2>2. CASE i <= n /\ j <= n
    <3>1. i \in 1..n /\ j \in 1..n
      BY <1>8, <2>2
    <3> QED
      BY <1>8, <1>10, <1>11, <3>1
  <2>3. CASE i > n /\ j > n
    <3>1. PICK x \in 1..c : i = n + x
      BY <2>1, <2>3
    <3>2. PICK y \in 1..c : j = n + y
      BY <2>1, <2>3
    <3>3. add[x] = add[y]
      BY <1>8, <1>11, <3>1, <3>2
    <3> QED
      BY <1>6, <3>1, <3>2, <3>3
  <2>4. ASSUME NEW x \in 1..(n + c), NEW y \in 1..(n + c), x <= n, y > n
        PROVE  r[x] # r[y]
    <3>1. PICK z \in 1..c : y = n + z
      BY <2>1, <2>4
    <3>2. x \in 1..n
      BY <1>8, <2>4
    <3>3. r[y] \in T /\ r[x] \in Range(queue)
      BY <1>5, <1>8, <1>9, <3>1, <3>2
    <3> QED
      BY <1>2, <3>3
  <2>5. (i <= n \/ i > n) /\ (j <= n \/ j > n)
    BY <1>3, <1>8
  <2> QED
    BY <1>11, <2>2, <2>3, <2>4, <2>5
<1>12. Injective(r)
  BY <1>8, <1>11 DEF Injective
<1>13. Enqueue(queue, S) = r
  BY DEF Enqueue, r, add, T
<1> QED
  BY <1>12, <1>13

\* What leaves a queue in turn was at one of the places, each at its own.
LEMMA InTurnPlaces ==
  ASSUME NEW queue \in Seq(Keys), NEW S \in SUBSET (1..Len(queue)), Injective(queue)
  PROVE  /\ \A j \in 1..Cardinality(S) : \E i \in S : InTurn(queue, S)[j] = queue[i]
         /\ Injective(InTurn(queue, S))
<1> DEFINE c == Cardinality(S)
           Rank(i) == Cardinality({x \in S : x <= i})
           Place(j) == CHOOSE i \in S : Rank(i) = j
           out == InTurn(queue, S)
<1>1. Len(queue) \in Nat
  OBVIOUS
<1>2. /\ c \in Nat
      /\ \A j \in 1..c : \E i \in S : Rank(i) = j
  BY <1>1, Ranks
<1>3. out = [j \in 1..c |-> queue[Place(j)]]
  BY Zenon DEF InTurn
<1>4. ASSUME NEW j \in 1..c PROVE Place(j) \in S /\ Rank(Place(j)) = j
  <2> HIDE DEF Rank
  <2> QED
    BY <1>2
<1>5. Len(out) = c
  BY InTurnType
<1> HIDE DEF c, Rank, Place, out
<1>6. \A j \in 1..c : \E i \in S : out[j] = queue[i]
  BY <1>3, <1>4
<1>7. ASSUME NEW i \in 1..c, NEW j \in 1..c, out[i] = out[j] PROVE i = j
  <2>1. queue[Place(i)] = queue[Place(j)] /\ Place(i) \in 1..Len(queue) /\ Place(j) \in 1..Len(queue)
    BY <1>3, <1>4, <1>7
  <2>2. Place(i) = Place(j)
    BY <2>1 DEF Injective
  <2> QED
    BY <1>4, <2>2
<1> QED
  BY <1>5, <1>6, <1>7 DEF Injective, c, out


\* sendRequestedTiles continues where the tracker is, with each tile once.
LEMMA SendStream ==
  ASSUME NEW data, NEW queue, NEW fly, NEW t, NEW sent, NEW subscribed, NEW before,
         SendInput(data, queue, fly, t, sent, subscribed, before),
         SendRequestedTiles(data, queue, fly, t, sent, subscribed, before),
         Injective(queue), \A k \in Keys : data[k].valid => data[k].keyframe # 0
  PROVE  /\ Injective(requested')
         /\ \A k \in Keys : \A M, G \in WireId :
              /\ Leads(before, MsgHops(k), M, G)
              /\ sent[k] \in {0, G} /\ G <= data[k].last
              => \E N \in WireId :
                   /\ Leads(toClient', MsgHops(k), M, N)
                   /\ lastSent'[k] \in {0, N} /\ N <= data[k].last
<1>0. /\ data \in [Keys -> TileData] /\ queue \in Seq(Keys)
      /\ sent \in [Keys -> WireId]
      /\ subscribed \subseteq Keys /\ before \in Seq(ServerMsg)
  BY DEF SendInput
<1> USE <1>0
<1> DEFINE taken == Taken(data, queue, RemoveOutdatedTilesOnFly(fly, t))
           n == Cardinality(taken)
           places == {i \in taken : data[queue[i]].valid}
           out == InTurn(queue, places)
           msgs == [i \in 1..Len(out) |->
                      SendTileNow(out[i], data[out[i]], sent[out[i]])]
<1>1. /\ requested' = SubSeq(queue, n + 1, Len(queue))
      /\ lastSent' = [k \in Keys |-> IF k \in Range(out) THEN data[k].last ELSE sent[k]]
      /\ toClient' = before \o msgs
  BY Zenon DEF SendRequestedTiles
<1>2. taken \in SUBSET (1..Len(queue))
  BY DEF Taken
<1>3. Len(queue) \in Nat
  OBVIOUS
<1> HIDE DEF taken
<1>4. n \in Nat
  BY <1>2, <1>3, Ranks
<1>5. places \in SUBSET (1..Len(queue)) /\ \A i \in places : data[queue[i]].valid
  BY <1>2
<1> HIDE DEF n, places
<1>6. out \in Seq(Keys) /\ Len(out) = Cardinality(places)
  BY <1>5, InTurnType
<1>7. /\ \A j \in 1..Len(out) : \E i \in places : out[j] = queue[i]
      /\ Injective(out)
  BY <1>5, <1>6, InTurnPlaces
<1> HIDE DEF out
<1>8. ASSUME NEW i \in 1..Len(out)
      PROVE  /\ out[i] \in Keys /\ data[out[i]] \in TileData /\ sent[out[i]] \in WireId
             /\ data[out[i]].keyframe # 0
             /\ SendTileNow(out[i], data[out[i]], sent[out[i]]) \in TileMsg
             /\ SendTileNow(out[i], data[out[i]], sent[out[i]]).key = out[i]
  <2>1. out[i] \in Keys
    BY <1>6
  <2>2. data[out[i]] \in TileData /\ sent[out[i]] \in WireId
    BY <2>1
  <2>3. data[out[i]].valid
    BY <1>5, <1>7
  <2>4. SendTileNow(out[i], data[out[i]], sent[out[i]]).key = out[i]
    BY DEF SendTileNow
  <2> QED
    BY <2>1, <2>2, <2>3, <2>4, SendTileNowType
<1>9. TileMsg \subseteq ServerMsg
  BY DEF ServerMsg
<1>10. Len(out) \in Nat
  BY <1>6
<1>11. /\ msgs \in Seq(ServerMsg) /\ Len(msgs) = Len(out)
       /\ \A i \in 1..Len(out) : msgs[i] = SendTileNow(out[i], data[out[i]], sent[out[i]])
  BY <1>8, <1>9, <1>10
<1> HIDE DEF msgs
<1>12. Injective(requested')
  <2> DEFINE s == SubSeq(queue, n + 1, Len(queue))
  <2>1. /\ Len(s) \in Nat
        /\ \A i \in 1..Len(s) : n + i \in 1..Len(queue) /\ s[i] = queue[n + i]
    BY <1>3, <1>4
  <2> HIDE DEF s
  <2>2. ASSUME NEW i \in 1..Len(s), NEW j \in 1..Len(s), s[i] = s[j] PROVE i = j
    <3>1. n + i = n + j
      BY <2>1, <2>2 DEF Injective
    <3> QED
      BY <1>4, <2>1, <3>1
  <2>3. Injective(s)
    BY <2>2 DEF Injective
  <2> QED
    BY <1>1, <2>3 DEF s
<1>13. ASSUME NEW k \in Keys, NEW M \in WireId, NEW G \in WireId,
              Leads(before, MsgHops(k), M, G), sent[k] \in {0, G}, G <= data[k].last
       PROVE  \E N \in WireId :
                /\ Leads(toClient', MsgHops(k), M, N)
                /\ lastSent'[k] \in {0, N} /\ N <= data[k].last
  <2>1. data[k] \in TileData /\ data[k].last \in WireId /\ data[k].last \in Nat
    BY WireAssumption DEF TileData, WireId
  <2>2. CASE k \notin Range(out)
    <3>1. ASSUME NEW i \in 1..Len(msgs) PROVE <<G, G>> \in MsgHops(k)[msgs[i]]
      <4>1. msgs[i].key = out[i] /\ out[i] \in Range(out) /\ msgs[i] \in ServerMsg
        BY <1>8, <1>11 DEF Range
      <4>2. msgs[i].key # k
        BY <2>2, <4>1
      <4> QED
        BY <4>1, <4>2, OtherMsg
    <3>2. Leads(msgs, MsgHops(k), G, G)
      BY <1>11, <3>1, LeadsStay
    <3>3. Leads(toClient', MsgHops(k), M, G)
      BY <1>1, <1>11, <1>13, <3>2, LeadsConcat
    <3>4. lastSent'[k] = sent[k]
      BY <1>1, <2>2
    <3> QED
      BY <1>13, <3>3, <3>4
  <2>3. CASE k \in Range(out)
    <3> DEFINE N == data[k].last
    <3>1. PICK j \in 1..Len(out) : out[j] = k
      BY <1>6, <2>3 DEF Range
    <3>2. <<G, N>> \in MsgHops(k)[msgs[j]]
      <4>1. data[k].keyframe # 0 /\ msgs[j] = SendTileNow(k, data[k], sent[k])
        BY <1>8, <1>11, <3>1
      <4>2. <<G, N>> \in MsgHops(k)[SendTileNow(k, data[k], sent[k])]
        BY <1>13, <2>1, <4>1, SendTileHop
      <4> QED
        BY <4>1, <4>2
    <3> HIDE DEF N
    <3>3. ASSUME NEW i \in 1..Len(msgs), i # j
          PROVE  <<G, G>> \in MsgHops(k)[msgs[i]] /\ <<N, N>> \in MsgHops(k)[msgs[i]]
      <4>1. msgs[i].key = out[i] /\ msgs[i] \in ServerMsg
        BY <1>8, <1>11
      <4>2. out[i] # k
        BY <1>7, <1>11, <3>1, <3>3 DEF Injective
      <4>3. N \in WireId
        BY <2>1 DEF N
      <4> QED
        BY <4>1, <4>2, <4>3, OtherMsg
    <3>4. N \in WireId /\ N <= N
      BY <2>1 DEF N
    <3>5. Leads(msgs, MsgHops(k), G, N)
      BY <1>11, <3>1, <3>2, <3>3, <3>4, LeadsOnce
    <3>6. Leads(toClient', MsgHops(k), M, N)
      BY <1>1, <1>11, <1>13, <3>5, LeadsConcat
    <3>7. lastSent'[k] = N
      BY <1>1, <2>3 DEF N
    <3> QED
      BY <3>4, <3>6, <3>7 DEF N
  <2> QED
    BY <2>2, <2>3
<1> QED
  BY <1>12, <1>13


-----------------------------------------------------------------------------
(* The raw deltas of a tile.                                               *)

\* They are numbered in order, each is a keyframe or goes on from the one
\* before, and the last leads to the rendering R.
RawOK(t, R) ==
    /\ t.lastPendingId <= t.deltaId
    /\ \A i \in 1..Len(t.rawDeltas) :
         /\ t.rawDeltas[i].id \in 1..t.deltaId
         /\ \A j \in 1..(i - 1) : t.rawDeltas[j].id < t.rawDeltas[i].id
         /\ ~t.rawDeltas[i].isKeyframe =>
              i > 1 /\ t.rawDeltas[i].from = t.rawDeltas[i - 1].to
    /\ t.rawDeltas # <<>> => t.rawDeltas[Len(t.rawDeltas)].to = R

\* The one that was last sent to decompression leads to the rendering e.
SentUpTo(t, e) ==
    \A i \in 1..Len(t.rawDeltas) :
      t.rawDeltas[i].id = t.lastPendingId => t.rawDeltas[i].to = e

Fine(t, R, e) == t \in Tile /\ RawOK(t, R) /\ SentUpTo(t, e)

\* A tile that has lost raw deltas: the first ones, up to a keyframe or all.
Lighter(t, u) ==
    /\ t \in Tile /\ u \in Tile
    /\ u.deltaId = t.deltaId /\ u.lastPendingId \in {0, t.lastPendingId}
    /\ \E s \in 0..Len(t.rawDeltas) :
         /\ Len(u.rawDeltas) = Len(t.rawDeltas) - s
         /\ \A i \in 1..Len(u.rawDeltas) : u.rawDeltas[i] = t.rawDeltas[i + s]
         /\ s # 0 /\ s # Len(t.rawDeltas) => t.rawDeltas[s + 1].isKeyframe

LEMMA LighterFine ==
  ASSUME NEW t, NEW u, NEW R, NEW e, Fine(t, R, e), Lighter(t, u)
  PROVE  Fine(u, R, e)
<1> DEFINE raw == t.rawDeltas
           new == u.rawDeltas
           n == Len(raw)
<1>1. PICK s \in 0..n :
         /\ Len(new) = n - s
         /\ \A i \in 1..Len(new) : new[i] = raw[i + s]
         /\ s # 0 /\ s # n => raw[s + 1].isKeyframe
  BY DEF Lighter
<1>2. /\ t \in Tile /\ u \in Tile
      /\ u.deltaId = t.deltaId /\ u.lastPendingId \in {0, t.lastPendingId}
  BY DEF Lighter
<1>3. raw \in Seq(RawDelta) /\ new \in Seq(RawDelta) /\ t.deltaId \in Nat /\ t.lastPendingId \in Nat
  BY <1>2 DEF Tile
<1>4. /\ t.lastPendingId <= t.deltaId
      /\ \A i \in 1..n :
           /\ raw[i].id \in 1..t.deltaId
           /\ \A j \in 1..(i - 1) : raw[j].id < raw[i].id
           /\ ~raw[i].isKeyframe => i > 1 /\ raw[i].from = raw[i - 1].to
           /\ raw[i].id = t.lastPendingId => raw[i].to = e
      /\ raw # <<>> => raw[n].to = R
  BY DEF Fine, RawOK, SentUpTo
<1>5. n \in Nat /\ Len(new) \in Nat
  BY <1>3
<1> HIDE DEF raw, new, n
<1>6. u.lastPendingId <= u.deltaId
  BY <1>2, <1>3, <1>4
<1>7. ASSUME NEW i \in 1..Len(new)
      PROVE  /\ new[i].id \in 1..u.deltaId
             /\ \A j \in 1..(i - 1) : new[j].id < new[i].id
             /\ ~new[i].isKeyframe => i > 1 /\ new[i].from = new[i - 1].to
             /\ new[i].id = u.lastPendingId => new[i].to = e
  <2>1. i + s \in 1..n /\ new[i] = raw[i + s]
    BY <1>1, <1>5
  <2>2. new[i].id \in 1..u.deltaId
    BY <1>2, <1>4, <2>1
  <2>3. ASSUME NEW j \in 1..(i - 1) PROVE new[j].id < new[i].id
    <3>1. j \in 1..Len(new) /\ j + s \in 1..((i + s) - 1)
      BY <1>1, <1>5
    <3>2. new[j] = raw[j + s]
      BY <1>1, <3>1
    <3> QED
      BY <1>4, <2>1, <3>1, <3>2
  <2>4. ASSUME ~new[i].isKeyframe PROVE i > 1 /\ new[i].from = new[i - 1].to
    <3>1. ~raw[i + s].isKeyframe
      BY <2>1, <2>4
    <3>2. i + s > 1 /\ raw[i + s].from = raw[(i + s) - 1].to
      BY <1>4, <2>1, <3>1
    <3>3. i # 1
      <4>1. SUFFICES ASSUME i = 1 PROVE FALSE
        OBVIOUS
      <4>2. s # 0 /\ s # n /\ i + s = s + 1
        BY <1>1, <1>5, <2>1, <3>2, <4>1
      <4> QED
        BY <1>1, <3>1, <4>2
    <3>4. i - 1 \in 1..Len(new) /\ (i - 1) + s = (i + s) - 1 /\ i > 1
      BY <1>1, <1>5, <3>3
    <3>5. new[i - 1] = raw[(i + s) - 1]
      BY <1>1, <3>4
    <3> QED
      BY <2>1, <3>2, <3>4, <3>5
  <2>5. ASSUME new[i].id = u.lastPendingId PROVE new[i].to = e
    <3>1. raw[i + s].id # 0
      BY <1>3, <1>4, <2>1
    <3>2. u.lastPendingId = t.lastPendingId
      BY <1>2, <2>1, <2>5, <3>1
    <3> QED
      BY <1>4, <2>1, <2>5, <3>2
  <2> QED
    BY <2>2, <2>3, <2>4, <2>5
<1>8. ASSUME new # <<>> PROVE new[Len(new)].to = R
  <2>1. Len(new) \in 1..Len(new) /\ Len(new) + s = n
    BY <1>1, <1>3, <1>5, <1>8
  <2>2. raw # <<>>
    BY <1>1, <1>3, <1>5, <2>1 DEF n
  <2> QED
    BY <1>1, <1>4, <2>1, <2>2
<1>9. RawOK(u, R)
  BY <1>6, <1>7, <1>8 DEF RawOK, new
<1>10. SentUpTo(u, e)
  BY <1>7 DEF SentUpTo, new
<1> QED
  BY <1>2, <1>9, <1>10 DEF Fine

\* What leaves the raw deltas alone.
LEMMA SameRaw ==
  ASSUME NEW t \in Tile, NEW u \in Tile, u.rawDeltas = t.rawDeltas,
         u.deltaId = t.deltaId, u.lastPendingId \in {0, t.lastPendingId}
  PROVE  Lighter(t, u)
<1>1. t.rawDeltas \in Seq(RawDelta)
  BY DEF Tile
<1>2. 0 \in 0..Len(t.rawDeltas) /\ Len(t.rawDeltas) - 0 = Len(t.rawDeltas)
      /\ \A i \in 1..Len(t.rawDeltas) : i + 0 = i
  BY <1>1
<1> QED
  BY <1>2 DEF Lighter

\* garbageCollect drops all of them.
LEMMA NoRaw ==
  ASSUME NEW t \in Tile, NEW u \in Tile, u.rawDeltas = <<>>,
         u.deltaId = t.deltaId, u.lastPendingId \in {0, t.lastPendingId}
  PROVE  Lighter(t, u)
<1>1. t.rawDeltas \in Seq(RawDelta)
  BY DEF Tile
<1>2. /\ Len(t.rawDeltas) \in 0..Len(t.rawDeltas)
      /\ Len(<<>>) = Len(t.rawDeltas) - Len(t.rawDeltas) /\ Len(<<>>) = 0
  BY <1>1
<1> QED
  BY <1>2 DEF Lighter

\* A new tile has none.
LEMMA NewTileFine ==
  ASSUME NEW c \in BOOLEAN, NEW R, NEW e
  PROVE  /\ Fine(NewTile(c), R, e)
         /\ NewTile(c).image = None /\ NewTile(c).lastPendingId = 0
         /\ NewTile(c).rawDeltas = <<>> /\ NewTile(c).current = c
<1>1. NewTile(c) \in Tile
  BY NewTileType
<1>2. /\ NewTile(c).rawDeltas = <<>> /\ NewTile(c).lastPendingId = 0
      /\ NewTile(c).deltaId = 0 /\ NewTile(c).image = None /\ NewTile(c).current = c
  BY DEF NewTile
<1>3. Len(<<>>) = 0 /\ 0 <= 0
  OBVIOUS
<1> QED
  BY <1>1, <1>2, <1>3 DEF Fine, RawOK, SentUpTo


\* What is kept of the raw deltas begins with a keyframe.
LEMMA LastKeyframeIs ==
  ASSUME NEW raw \in Seq(RawDelta), raw # <<>>
  PROVE  /\ LastKeyframe(raw) \in 1..Len(raw)
         /\ LastKeyframe(raw) # 1 => raw[LastKeyframe(raw)].isKeyframe
<1> DEFINE kfs == {i \in 2..Len(raw) : raw[i].isKeyframe}
<1>1. Len(raw) \in Nat
  OBVIOUS
<1>2. CASE kfs = {}
  BY <1>2, LastKeyframeType DEF LastKeyframe
<1>3. CASE kfs # {}
  <2>1. kfs \in SUBSET (0..Len(raw))
    BY <1>1
  <2>2. \E i \in kfs : \A j \in kfs : j <= i
    BY <1>1, <1>3, <2>1, Greatest
  <2>3. (CHOOSE i \in kfs : \A j \in kfs : j <= i) \in kfs
    BY <2>2
  <2>4. LastKeyframe(raw) \in kfs
    BY <1>3, <2>3 DEF LastKeyframe
  <2> QED
    BY <2>4, LastKeyframeType
<1> QED
  BY <1>2, <1>3

\* tileReady.
LEMMA TileReadyLighter ==
  ASSUME NEW t \in Tile
  PROVE  /\ Lighter(t, TileReady(t))
         /\ TileReady(t).image = t.image /\ TileReady(t).current = t.current
         /\ TileReady(t).lastPendingId = t.lastPendingId
         /\ TileReady(t).decompressedId = t.decompressedId
<1> DEFINE raw == t.rawDeltas
           kf == LastKeyframe(raw)
           r == SubSeq(raw, kf, Len(raw))
<1>1. raw \in Seq(RawDelta)
  BY DEF Tile
<1>2. TileReady(t) \in Tile
  BY TileReadyType
<1>3. CASE raw = <<>>
  <2>1. TileReady(t) = t
    BY <1>3 DEF TileReady
  <2> QED
    BY <2>1, SameRaw
<1>4. CASE raw # <<>>
  <2>1. /\ kf \in 1..Len(raw) /\ (kf # 1 => raw[kf].isKeyframe)
    BY <1>1, <1>4, LastKeyframeIs
  <2>2. TileReady(t) = [t EXCEPT !.rawDeltas = r]
    BY <1>4 DEF TileReady, Tile
  <2>3. /\ Len(raw) \in Nat /\ Len(r) = Len(raw) - (kf - 1)
        /\ \A i \in 1..Len(r) : r[i] = raw[i + (kf - 1)]
    <3> HIDE DEF kf
    <3> QED
      BY <1>1, <2>1
  <2>4. /\ TileReady(t).rawDeltas = r /\ TileReady(t).deltaId = t.deltaId
        /\ TileReady(t).image = t.image /\ TileReady(t).current = t.current
        /\ TileReady(t).lastPendingId = t.lastPendingId
        /\ TileReady(t).decompressedId = t.decompressedId
    <3> HIDE DEF r
    <3> QED
      BY <2>2 DEF Tile
  <2> HIDE DEF r, kf
  <2>5. PICK s \in 0..Len(raw) : s = kf - 1
    BY <2>1, <2>3
  <2>6. /\ Len(r) = Len(raw) - s /\ \A i \in 1..Len(r) : r[i] = raw[i + s]
        /\ s # 0 /\ s # Len(raw) => raw[s + 1].isKeyframe
    <3>1. s + 1 = kf /\ (s # 0 => kf # 1)
      BY <2>1, <2>3, <2>5
    <3> QED
      BY <2>1, <2>3, <2>5, <3>1
  <2>7. Lighter(t, TileReady(t))
    BY <1>2, <2>4, <2>6 DEF Lighter
  <2> QED
    BY <2>4, <2>7
<1> QED
  BY <1>3, <1>4

\* reclaimTileBitmapMemory.
LEMMA ReclaimedLighter ==
  ASSUME NEW t \in Tile
  PROVE  /\ Lighter(t, Reclaimed(t))
         /\ Reclaimed(t).image = None
         /\ Reclaimed(t).lastPendingId # 0 =>
              Reclaimed(t).decompressedId = t.decompressedId
         /\ Reclaimed(t).current = t.current
<1>1. Reclaimed(t) \in Tile
  BY ReclaimedType
<1>2. /\ Reclaimed(t).rawDeltas = t.rawDeltas /\ Reclaimed(t).deltaId = t.deltaId
      /\ Reclaimed(t).lastPendingId \in {0, t.lastPendingId}
      /\ Reclaimed(t).image = None /\ Reclaimed(t).current = t.current
      /\ Reclaimed(t).lastPendingId # 0 =>
              Reclaimed(t).decompressedId = t.decompressedId
  BY DEF Reclaimed, Tile
<1> QED
  BY <1>1, <1>2, SameRaw

\* What else may happen to the fields: an image is lost, and what has been
\* decompressed is forgotten only together with what has been sent.
Milder(t, u) ==
    /\ u.image \in {None, t.image}
    /\ u.lastPendingId # 0 => u.decompressedId = t.decompressedId

\* garbageCollect keeps a tile, or takes from it.
LEMMA CollectedLighter ==
  ASSUME NEW ts, TilesMap(ts), NEW fate \in [Keys -> Fate],
         NEW k \in DOMAIN GarbageCollect(ts, fate)
  PROVE  /\ k \in DOMAIN ts
         /\ Lighter(ts[k], GarbageCollect(ts, fate)[k])
         /\ Milder(ts[k], GarbageCollect(ts, fate)[k])
         /\ fate[k] # "keep" => GarbageCollect(ts, fate)[k].image = None
         /\ fate[k] = "keep" => GarbageCollect(ts, fate)[k] = ts[k]
<1> DEFINE t == ts[k]
           u == GarbageCollect(ts, fate)[k]
           r == Reclaimed(t)
           d == [r EXCEPT !.rawDeltas = <<>>]
           g == ForceKeyframe(d, 0)
<1>1. k \in DOMAIN ts /\ t \in Tile /\ k \in Keys
  BY DEF GarbageCollect, TilesMap
<1>2. u = CASE fate[k] = "drop" -> g
            [] fate[k] = "evict" -> r
            [] OTHER -> t
  BY Zenon DEF GarbageCollect
<1>3. /\ Lighter(t, r) /\ r.image = None /\ r \in Tile
      /\ r.lastPendingId # 0 => r.decompressedId = t.decompressedId
  BY <1>1, ReclaimedLighter, ReclaimedType
<1>4. /\ g \in Tile /\ g.rawDeltas = <<>> /\ g.deltaId = r.deltaId
      /\ g.lastPendingId = r.lastPendingId /\ g.image = r.image
      /\ g.decompressedId = r.decompressedId
  <2> HIDE DEF r, t, u
  <2>0. r \in Tile /\ <<>> \in Seq(RawDelta)
    BY <1>3
  <2>1. d \in Tile
    BY <2>0 DEF Tile
  <2>2. /\ d.rawDeltas = <<>> /\ d.deltaId = r.deltaId /\ d.image = r.image
        /\ d.lastPendingId = r.lastPendingId /\ d.decompressedId = r.decompressedId
    BY <1>3 DEF Tile
  <2> HIDE DEF d
  <2>3. 0 \in WireId
    BY WireAssumption DEF WireId
  <2>4. g \in Tile
    BY <2>1, <2>3, ForceKeyframeType
  <2>5. /\ g.rawDeltas = d.rawDeltas /\ g.deltaId = d.deltaId /\ g.image = d.image
        /\ g.lastPendingId = d.lastPendingId /\ g.decompressedId = d.decompressedId
    BY <2>1 DEF ForceKeyframe, Tile
  <2> QED
    BY <2>2, <2>4, <2>5
<1>5. r.deltaId = t.deltaId /\ r.lastPendingId \in {0, t.lastPendingId}
  BY <1>3 DEF Lighter
<1> HIDE DEF r, g, d, t
<1>6. CASE fate[k] = "drop"
  <2>1. u = g
    BY <1>2, <1>6
  <2>2. Lighter(t, g)
    BY <1>1, <1>4, <1>5, NoRaw
  <2>3. Milder(t, g) /\ g.image = None
    BY <1>3, <1>4 DEF Milder
  <2> QED
    BY <1>1, <1>6, <2>1, <2>2, <2>3 DEF t
<1>7. CASE fate[k] = "evict"
  <2>1. u = r
    BY <1>2, <1>7
  <2> QED
    BY <1>1, <1>3, <1>7, <2>1 DEF Milder, t
<1>8. CASE fate[k] \notin {"drop", "evict"}
  <2>1. u = t
    BY <1>2, <1>8
  <2>2. fate[k] = "keep"
    <3>1. fate[k] # "remove"
      BY DEF GarbageCollect
    <3>2. fate[k] \in Fate
      BY <1>1
    <3> QED
      BY <1>8, <3>1, <3>2 DEF Fate
  <2>3. Lighter(t, t)
    BY <1>1, SameRaw
  <2> QED
    BY <1>1, <2>1, <2>2, <2>3 DEF Milder, t
<1> QED
  BY <1>6, <1>7, <1>8


\* invalidateTile, and the demand for a keyframe.
LEMMA ForcedLighter ==
  ASSUME NEW t \in Tile, NEW w \in WireId
  PROVE  /\ Lighter(t, ForceKeyframe(t, w)) /\ Milder(t, ForceKeyframe(t, w))
<1>1. ForceKeyframe(t, w) \in Tile
  BY ForceKeyframeType
<1>2. /\ ForceKeyframe(t, w).rawDeltas = t.rawDeltas
      /\ ForceKeyframe(t, w).deltaId = t.deltaId
      /\ ForceKeyframe(t, w).lastPendingId = t.lastPendingId
      /\ ForceKeyframe(t, w).image = t.image
      /\ ForceKeyframe(t, w).decompressedId = t.decompressedId
  BY DEF ForceKeyframe, Tile
<1> QED
  BY <1>1, <1>2, SameRaw DEF Milder

\* A tile message takes the tile from the rendering R to S.
LEMMA ReceivedFine ==
  ASSUME NEW k, NEW t, NEW R, NEW e, Fine(t, R, e), NEW m \in TileMsg, m.key = k,
         NEW S, <<R, S>> \in MsgHop(m, k)
  PROVE  /\ Fine(ReceivedTile(t, m), S, e)
         /\ ReceivedTile(t, m).image = t.image
         /\ ReceivedTile(t, m).current = t.current
         /\ ReceivedTile(t, m).lastPendingId = t.lastPendingId
         /\ ReceivedTile(t, m).decompressedId = t.decompressedId
         /\ \A i \in 1..Len(t.rawDeltas) :
              \E j \in 1..Len(ReceivedTile(t, m).rawDeltas) :
                ReceivedTile(t, m).rawDeltas[j].id = t.rawDeltas[i].id
         /\ t.rawDeltas = <<>> =>
              \/ ReceivedTile(t, m).rawDeltas = <<>>
              \/ /\ Len(ReceivedTile(t, m).rawDeltas) = 1
                 /\ ReceivedTile(t, m).rawDeltas[1].isKeyframe
                 /\ NeedsRehydration(ReceivedTile(t, m))
<1> DEFINE r == [t EXCEPT !.wireId = m.to]
           d == t.deltaId + 1
           x == [id |-> d, isKeyframe |-> m.isKeyframe, from |-> m.from, to |-> m.to]
           raw == t.rawDeltas
           new == Append(raw, x)
           u == [r EXCEPT !.deltaId = d, !.rawDeltas = new]
           f == ForceKeyframe(r, 0)
           n == Len(raw)
<1>1. /\ m.to \in WireId /\ m.from \in WireId /\ m.isKeyframe \in BOOLEAN /\ m.type = "tile"
  BY DEF TileMsg
<1>2. /\ R \in WireId /\ S = m.to /\ R <= S /\ m.from = IF m.isKeyframe THEN 0 ELSE R
  BY <1>1 DEF MsgHop
<1>3. t \in Tile /\ RawOK(t, R) /\ SentUpTo(t, e)
  BY DEF Fine
<1>4. /\ raw \in Seq(RawDelta) /\ t.deltaId \in Nat /\ t.lastPendingId \in Nat
      /\ t.decompressedId \in Nat
  BY <1>3 DEF Tile
<1>5. \A y \in WireId : y \in Nat
  BY WireAssumption DEF WireId
<1>6. /\ r \in Tile /\ r.rawDeltas = raw /\ r.deltaId = t.deltaId /\ r.current = t.current
      /\ r.lastPendingId = t.lastPendingId /\ r.image = t.image
      /\ r.decompressedId = t.decompressedId
  BY <1>1, <1>3 DEF Tile
<1>7. ReceivedTile(t, m) =
        IF ~m.isKeyframe /\ ~HasKeyframe(r) THEN f
        ELSE IF m.from = m.to THEN r ELSE u
  <2>1. u = [r EXCEPT !.deltaId = @ + 1,
                !.rawDeltas = Append(@, [id |-> r.deltaId + 1,
                    isKeyframe |-> m.isKeyframe, from |-> m.from, to |-> m.to])]
    <3> HIDE DEF r
    <3> QED
      BY <1>6
  <2> QED
    BY <2>1 DEF ReceivedTile
<1>8. ReceivedTile(t, m) \in Tile
  BY <1>3, ReceivedTileType
<1>9. /\ t.lastPendingId <= t.deltaId
      /\ \A i \in 1..n :
           /\ raw[i].id \in 1..t.deltaId
           /\ \A j \in 1..(i - 1) : raw[j].id < raw[i].id
           /\ ~raw[i].isKeyframe => i > 1 /\ raw[i].from = raw[i - 1].to
           /\ raw[i].id = t.lastPendingId => raw[i].to = e
      /\ raw # <<>> => raw[n].to = R
  BY <1>3 DEF RawOK, SentUpTo
<1>10. n \in Nat
  BY <1>4
<1> HIDE DEF r, f
<1>11. CASE ~m.isKeyframe /\ raw = <<>>
  <2>1. ReceivedTile(t, m) = f
    <3>1. ~HasKeyframe(r)
      BY <1>6, <1>11 DEF HasKeyframe
    <3> HIDE DEF u
    <3> QED
      BY <1>7, <1>11, <3>1
  <2>2. /\ f.rawDeltas = raw /\ f.deltaId = t.deltaId /\ f.current = t.current
        /\ f.lastPendingId = t.lastPendingId /\ f.image = t.image
        /\ f.decompressedId = t.decompressedId
    BY <1>6 DEF f, ForceKeyframe, Tile
  <2>3. Len(raw) = 0
    BY <1>11
  <2>4. Fine(f, S, e)
    <3>1. f \in Tile /\ f.rawDeltas = <<>> /\ f.lastPendingId <= f.deltaId
      BY <1>8, <1>9, <1>11, <2>1, <2>2
    <3>2. Len(<<>>) = 0
      OBVIOUS
    <3> HIDE DEF f
    <3> QED
      BY <3>1, <3>2 DEF Fine, RawOK, SentUpTo
  <2> QED
    BY <1>11, <2>1, <2>2, <2>3, <2>4
<1>12. CASE ~(~m.isKeyframe /\ raw = <<>>) /\ m.from = m.to
  <2>1. ReceivedTile(t, m) = r
    <3>1. m.isKeyframe \/ HasKeyframe(r)
      BY <1>6, <1>12 DEF HasKeyframe
    <3> HIDE DEF u
    <3> QED
      BY <1>7, <1>12, <3>1
  <2>2. S = R
    BY <1>2, <1>5, <1>12
  <2>3. Fine(r, S, e)
    BY <1>3, <1>6, <2>2 DEF Fine, RawOK, SentUpTo
  <2>4. \A i \in 1..Len(raw) : \E j \in 1..Len(r.rawDeltas) : r.rawDeltas[j].id = raw[i].id
    BY <1>6
  <2> QED
    BY <1>6, <2>1, <2>3, <2>4
<1>13. CASE ~(~m.isKeyframe /\ raw = <<>>) /\ m.from # m.to
  <2>1. ReceivedTile(t, m) = u
    <3>1. m.isKeyframe \/ HasKeyframe(r)
      BY <1>6, <1>13 DEF HasKeyframe
    <3> HIDE DEF u
    <3> QED
      BY <1>7, <1>13, <3>1
  <2>2. x \in RawDelta /\ x.id = d /\ x.isKeyframe = m.isKeyframe /\ x.from = m.from /\ x.to = m.to
    BY <1>1, <1>4 DEF RawDelta
  <2>3. d \in Nat /\ d > t.deltaId /\ d = t.deltaId + 1
    BY <1>4
  <2> HIDE DEF x, d, raw
  <2>4. /\ new \in Seq(RawDelta) /\ Len(new) = n + 1 /\ new[n + 1] = x
        /\ \A i \in 1..n : new[i] = raw[i]
    BY <1>4, <2>2, AppendItems DEF n
  <2> HIDE DEF new, n
  <2>5. /\ u.rawDeltas = new /\ u.deltaId = d /\ u.current = t.current
        /\ u.lastPendingId = t.lastPendingId /\ u.image = t.image
        /\ u.decompressedId = t.decompressedId
    BY <1>6, <2>3, <2>4 DEF Tile
  <2> HIDE DEF u
  <2>6. ASSUME NEW i \in 1..(n + 1)
        PROVE  /\ new[i].id \in 1..d
               /\ \A j \in 1..(i - 1) : new[j].id < new[i].id
               /\ ~new[i].isKeyframe => i > 1 /\ new[i].from = new[i - 1].to
               /\ new[i].id = t.lastPendingId => new[i].to = e
    <3>1. CASE i = n + 1
      <4>1. new[i].id = d /\ new[i] = x
        BY <2>2, <2>4, <3>1
      <4>2. \A j \in 1..(i - 1) : new[j].id < new[i].id
        <5> TAKE j \in 1..(i - 1)
        <5>1. j \in 1..n /\ new[j] = raw[j]
          BY <1>10, <2>4, <3>1
        <5>2. raw[j].id \in 1..t.deltaId
          BY <1>9, <5>1
        <5> QED
          BY <1>4, <2>3, <4>1, <5>1, <5>2
      <4>3. ASSUME ~x.isKeyframe PROVE i > 1 /\ x.from = new[i - 1].to
        <5>1. raw # <<>> /\ m.from = R
          BY <1>2, <1>13, <2>2, <4>3
        <5>2. n # 0
          BY <1>4, <5>1 DEF n
        <5>3. i - 1 = n /\ n \in 1..n /\ i > 1
          BY <1>10, <3>1, <5>2
        <5> QED
          BY <1>9, <2>2, <2>4, <5>1, <5>3
      <4> QED
        BY <1>4, <1>9, <2>3, <4>1, <4>2, <4>3
    <3>2. CASE i # n + 1
      <4>1. i \in 1..n /\ new[i] = raw[i]
        BY <1>10, <2>4, <3>2
      <4>2. raw[i].id \in 1..t.deltaId
        BY <1>9, <4>1
      <4>3. new[i].id \in 1..d
        BY <1>4, <2>3, <4>1, <4>2
      <4>4. \A j \in 1..(i - 1) : new[j] = raw[j]
        BY <1>10, <2>4, <4>1
      <4>5. i > 1 => new[i - 1] = raw[i - 1]
        BY <4>1, <4>4
      <4> QED
        BY <1>9, <4>1, <4>3, <4>4, <4>5
    <3> QED
      BY <3>1, <3>2
  <2>7. Len(new) \in Nat /\ new[Len(new)].to = S /\ t.lastPendingId <= d
    BY <1>2, <1>4, <1>9, <1>10, <2>2, <2>3, <2>4
  <2>8. Fine(u, S, e)
    BY <1>8, <2>1, <2>4, <2>5, <2>6, <2>7 DEF Fine, RawOK, SentUpTo
  <2>9. \A i \in 1..n : \E j \in 1..(n + 1) : new[j].id = raw[i].id
    BY <1>10, <2>4
  <2>10. ASSUME raw = <<>>
         PROVE  Len(new) = 1 /\ new[1].isKeyframe /\ NeedsRehydration(u)
    <3>1. n = 0 /\ Len(new) = 1 /\ new[1] = x
      BY <1>10, <2>4, <2>10 DEF n
    <3>2. t.lastPendingId # d /\ new # <<>>
      <4>1. t.lastPendingId # d
        BY <1>4, <1>9, <2>3
      <4> QED
        BY <3>1, <4>1
    <3>3. new[Len(new)].id = d
      BY <2>2, <3>1
    <3>4. NeedsRehydration(u)
      BY <2>5, <3>2, <3>3 DEF NeedsRehydration, HasKeyframe
    <3>5. x.isKeyframe
      BY <1>13, <2>2, <2>10
    <3> QED
      BY <3>1, <3>4, <3>5
  <2> QED
    BY <2>1, <2>4, <2>5, <2>8, <2>9, <2>10 DEF n, raw
<1> QED
  BY <1>11, <1>12, <1>13


-----------------------------------------------------------------------------
(* What is sent to decompression.                                          *)

\* A delta that is to be decompressed; unless sound, it is only in order.
DeltaHop(d, sound) ==
    {p \in WireId \X WireId :
       /\ p[2] = d.to /\ p[1] <= p[2]
       /\ sound /\ ~d.isKeyframe => d.from = p[1]}

DeltaHops(sound) == [d \in Delta |-> DeltaHop(d, sound)]

\* rehydrateTile sends what leads from the rendering that was sent last to the
\* newest one, as deltas of the tile that came after what was decompressed.
LEMMA CompressedHop ==
  ASSUME NEW t, NEW R \in WireId, NEW e \in WireId, e <= R, Fine(t, R, e),
         NeedsRehydration(t), NEW b \in BOOLEAN, NEW d, d = CompressedDelta(t, b)
  PROVE  /\ d \in Delta
         /\ \A sound \in BOOLEAN : <<e, R>> \in DeltaHops(sound)[d]
         /\ Known(t, d) /\ d.wireMessage = b /\ d.ids[2] # 0 /\ d.to = R
         /\ ~d.isKeyframe => t.lastPendingId # 0
         /\ Fine(Rehydrated(t), R, R)
         /\ Rehydrated(t).image = t.image /\ Rehydrated(t).current = t.current
         /\ Rehydrated(t).rawDeltas = t.rawDeltas
         /\ Rehydrated(t).decompressedId = t.decompressedId
<1> DEFINE raw == t.rawDeltas
           n == Len(raw)
           f == FirstDelta(t)
           sent == {i \in 1..n : raw[i].id = t.lastPendingId}
           least == CHOOSE i \in sent : \A j \in sent : i <= j
           kf == LastKeyframe(raw)
           r == Rehydrated(t)
<1>1. t \in Tile /\ RawOK(t, R) /\ SentUpTo(t, e)
  BY DEF Fine
<1>2. raw \in Seq(RawDelta) /\ raw # <<>> /\ t.deltaId \in Nat /\ t.lastPendingId \in Nat
  BY <1>1 DEF NeedsRehydration, HasKeyframe, Tile
<1>3. n \in Nat /\ n >= 1 /\ n \in 1..n
  BY <1>2
<1>4. f \in 1..n
  BY <1>1, FirstDeltaType
<1>5. /\ t.lastPendingId <= t.deltaId
      /\ \A i \in 1..n :
           /\ raw[i].id \in 1..t.deltaId
           /\ \A j \in 1..(i - 1) : raw[j].id < raw[i].id
           /\ ~raw[i].isKeyframe => i > 1 /\ raw[i].from = raw[i - 1].to
           /\ raw[i].id = t.lastPendingId => raw[i].to = e
      /\ raw[n].to = R
  BY <1>1, <1>2 DEF RawOK, SentUpTo
<1>6. kf \in 1..n /\ (kf # 1 => raw[kf].isKeyframe)
  BY <1>2, LastKeyframeIs
<1>7. raw[1].isKeyframe
  <2>1. 1 \in 1..n /\ ~(1 > 1)
    BY <1>3
  <2> QED
    BY <1>5, <2>1
<1>8. \/ f = kf
      \/ t.lastPendingId > raw[kf].id /\ sent # {} /\ f = least + 1
  BY DEF FirstDelta
<1>9. ASSUME ~raw[f].isKeyframe
      PROVE  raw[f].from = e /\ t.lastPendingId # 0
  <2>1. f # kf
    BY <1>6, <1>7, <1>9
  <2>2. sent # {} /\ f = least + 1
    BY <1>8, <2>1
  <2>3. sent \in SUBSET Nat
    BY <1>3
  <2>4. \E x \in sent : \A j \in sent : x <= j
    BY <2>2, <2>3, Least
  <2>5. least \in sent
    BY <2>4
  <2> HIDE DEF least, f
  <2>6. least \in 1..n /\ raw[least].id = t.lastPendingId
    BY <2>5
  <2>7. raw[least].to = e /\ raw[least].id # 0
    BY <1>2, <1>5, <2>6
  <2>8. f > 1 /\ raw[f].from = raw[f - 1].to
    BY <1>4, <1>5, <1>9
  <2>9. f - 1 = least
    BY <1>4, <2>2, <2>6
  <2> QED
    BY <2>6, <2>7, <2>8, <2>9
<1>10. d = [ids |-> <<raw[f].id, raw[n].id>>, isKeyframe |-> raw[f].isKeyframe,
            from |-> raw[f].from, to |-> raw[n].to, wireMessage |-> b]
  BY DEF CompressedDelta
<1>11. d \in Delta
  BY <1>1, CompressedDeltaType
<1> HIDE DEF f, kf, sent, least, n, raw
<1>12. /\ d.ids[1] = raw[f].id /\ d.ids[2] = raw[n].id /\ d.isKeyframe = raw[f].isKeyframe
       /\ d.from = raw[f].from /\ d.to = R /\ d.wireMessage = b
  BY <1>5, <1>10
<1>13. \A sound \in BOOLEAN : <<e, R>> \in DeltaHops(sound)[d]
  <2> TAKE sound \in BOOLEAN
  <2>1. <<e, R>> \in DeltaHop(d, sound)
    BY <1>9, <1>12 DEF DeltaHop
  <2> QED
    BY <1>11, <2>1 DEF DeltaHops
<1>14. Known(t, d)
  BY <1>3, <1>4, <1>12 DEF Known, n, raw
<1>15. d.ids[2] # 0
  BY <1>2, <1>3, <1>5, <1>12
<1>16. /\ r \in Tile /\ r.rawDeltas = raw /\ r.deltaId = t.deltaId
       /\ r.lastPendingId = raw[n].id /\ r.image = t.image /\ r.current = t.current
       /\ r.decompressedId = t.decompressedId
  <2>1. r \in Tile
    BY <1>1, RehydratedType
  <2> QED
    BY <1>1, <2>1 DEF Rehydrated, Tile, n, raw
<1>17. RawOK(r, R)
  <2>1. r.lastPendingId <= r.deltaId
    BY <1>2, <1>3, <1>5, <1>16
  <2> QED
    BY <1>5, <1>16, <2>1 DEF RawOK, n
<1>18. SentUpTo(r, R)
  <2>1. ASSUME NEW i \in 1..n, raw[i].id = raw[n].id PROVE i = n
    <3>1. i \in 1..(n - 1) => raw[i].id < raw[n].id
      BY <1>3, <1>5
    <3>2. raw[i].id \in Nat /\ raw[n].id \in Nat
      BY <1>2, <1>3, <1>5
    <3> QED
      BY <1>3, <2>1, <3>1, <3>2
  <2> QED
    BY <1>5, <1>16, <2>1 DEF SentUpTo, n
<1> QED
  BY <1>9, <1>11, <1>12, <1>13, <1>14, <1>15, <1>16, <1>17, <1>18 DEF Fine, raw


\* Deltas lead forward.
LEMMA DeltasForward ==
  ASSUME NEW sound
  PROVE  Forward(DeltaHops(sound), Delta)
BY DEF Forward, DeltaHops, DeltaHop

\* Where each of the deltas leads.
LEMMA LedDeltas ==
  ASSUME NEW ds \in Seq(Delta), NEW sound \in BOOLEAN, NEW a, NEW b,
         Leads(ds, DeltaHops(sound), a, b)
  PROVE  /\ a \in WireId /\ b \in WireId /\ a <= b
         /\ \A i \in 1..Len(ds) :
              /\ ds[i].to \in WireId /\ a <= ds[i].to /\ ds[i].to <= b
              /\ i > 1 => ds[i - 1].to <= ds[i].to
              /\ sound /\ ~ds[i].isKeyframe =>
                   ds[i].from = IF i = 1 THEN a ELSE ds[i - 1].to
         /\ IF ds = <<>> THEN a = b ELSE ds[Len(ds)].to = b
<1> DEFINE n == Len(ds)
<1>1. PICK p \in [0..n -> WireId] :
        /\ p[0] = a /\ p[n] = b
        /\ \A i \in 1..n : <<p[i - 1], p[i]>> \in DeltaHops(sound)[ds[i]]
        /\ \A i \in 0..n : a <= p[i] /\ p[i] <= b
  BY DeltasForward, LeadsBetween
<1>2. n \in Nat /\ \A i \in 1..n : ds[i] \in Delta
  OBVIOUS
<1>3. ds = <<>> <=> n = 0
  OBVIOUS
<1>4. ds # <<>> => n \in 1..n
  OBVIOUS
<1> HIDE DEF n
<1>5. ASSUME NEW i \in 1..n
      PROVE  /\ p[i] = ds[i].to /\ p[i - 1] <= p[i]
             /\ sound /\ ~ds[i].isKeyframe => ds[i].from = p[i - 1]
  <2>1. <<p[i - 1], p[i]>> \in DeltaHop(ds[i], sound)
    BY <1>1, <1>2 DEF DeltaHops
  <2> QED
    BY <2>1 DEF DeltaHop
<1>6. ASSUME NEW i \in 1..n
      PROVE  /\ ds[i].to \in WireId /\ a <= ds[i].to /\ ds[i].to <= b
             /\ i > 1 => ds[i - 1].to <= ds[i].to
             /\ sound /\ ~ds[i].isKeyframe =>
                  ds[i].from = IF i = 1 THEN a ELSE ds[i - 1].to
  <2>1. i \in 0..n /\ p[i] \in WireId
    BY <1>1, <1>2
  <2>2. i # 1 => i - 1 \in 1..n
    BY <1>2
  <2>3. i # 1 => p[i - 1] = ds[i - 1].to
    BY <1>5, <2>2
  <2>4. i = 1 => p[i - 1] = a
    BY <1>1
  <2> QED
    BY <1>1, <1>5, <2>1, <2>3, <2>4
<1>7. a \in WireId /\ b \in WireId /\ a <= b
  <2>1. 0 \in 0..n /\ n \in 0..n
    BY <1>2
  <2> QED
    BY <1>1, <2>1
<1>8. IF ds = <<>> THEN a = b ELSE ds[n].to = b
  BY <1>1, <1>3, <1>4, <1>5
<1> QED
  BY <1>6, <1>7, <1>8 DEF n

\* What a delta leaves of an image.
LEMMA ApplyDeltaIs ==
  ASSUME NEW image, NEW d \in Delta
  PROVE  /\ ApplyDelta(image, d) \in {d.to, Broken}
         /\ d.isKeyframe => ApplyDelta(image, d) = d.to
         /\ image = d.from => ApplyDelta(image, d) = d.to
BY DEF ApplyDelta, Delta

\* updateImageFromDeltas, from one image to the next.
LEMMA ImagesEach ==
  ASSUME NEW image \in Image, NEW ds \in Seq(Delta)
  PROVE  \A i \in 1..Len(ds) :
           Images(image, ds)[i] =
             ApplyDelta(IF i = 1 THEN image ELSE Images(image, ds)[i - 1], ds[i])
<1> DEFINE n == Len(ds)
           after == CHOOSE f : f = [i \in 0..n |->
                      IF i = 0 THEN image ELSE ApplyDelta(f[i - 1], ds[i])]
<1>1. n \in Nat
  OBVIOUS
<1>2. after = [i \in 0..n |-> IF i = 0 THEN image ELSE ApplyDelta(after[i - 1], ds[i])]
  BY ImagesExist
<1>3. Images(image, ds) = [i \in 1..n |-> after[i]]
  BY DEF Images
<1> HIDE DEF after, n
<1>4. ASSUME NEW i \in 1..n
      PROVE  Images(image, ds)[i] =
               ApplyDelta(IF i = 1 THEN image ELSE Images(image, ds)[i - 1], ds[i])
  <2>1. after[i] = ApplyDelta(after[i - 1], ds[i])
    BY <1>1, <1>2
  <2>2. i = 1 => after[i - 1] = image
    BY <1>1, <1>2
  <2>3. i # 1 => Images(image, ds)[i - 1] = after[i - 1]
    BY <1>1, <1>3
  <2> QED
    BY <1>3, <2>1, <2>2, <2>3
<1> QED
  BY <1>4 DEF n

\* A worker that has the image that the deltas go on from, or needs none, gets
\* the images they lead to.
LEMMA ImagesLed ==
  ASSUME NEW ds \in Seq(Delta), NEW sound \in BOOLEAN, NEW a, NEW b,
         Leads(ds, DeltaHops(sound), a, b), NEW image \in Image,
         sound /\ ds # <<>> => image = a \/ ds[1].isKeyframe
  PROVE  \A i \in 1..Len(ds) :
           \/ Images(image, ds)[i] = ds[i].to
           \/ ~sound /\ Images(image, ds)[i] = Broken
<1> DEFINE n == Len(ds)
           im == Images(image, ds)
           OK(i) == im[i] = ds[i].to \/ (~sound /\ im[i] = Broken)
<1>1. n \in Nat /\ (ds = <<>> <=> n = 0)
  OBVIOUS
<1>2. \A i \in 1..n : im[i] = ApplyDelta(IF i = 1 THEN image ELSE im[i - 1], ds[i])
  BY ImagesEach
<1>3. ASSUME NEW i \in 1..n, sound, ~ds[i].isKeyframe
      PROVE  ds[i].from = IF i = 1 THEN a ELSE ds[i - 1].to
  <2>1. \A j \in 1..Len(ds) :
          /\ ds[j].to \in WireId /\ a <= ds[j].to /\ ds[j].to <= b
          /\ j > 1 => ds[j - 1].to <= ds[j].to
          /\ sound /\ ~ds[j].isKeyframe =>
               ds[j].from = IF j = 1 THEN a ELSE ds[j - 1].to
    BY LedDeltas
  <2> QED
    BY <1>3, <2>1
<1>0. \A i \in 1..n : ds[i] \in Delta
  OBVIOUS
<1> HIDE DEF n, im
<1> DEFINE T == {i \in 0..n : i # 0 => OK(i)}
<1>4. 0 \in T
  BY <1>1
<1>5. ASSUME NEW i \in 0..(n - 1), i \in T PROVE i + 1 \in T
  <2>1. i + 1 \in 1..n /\ i + 1 \in 0..n /\ (i + 1) - 1 = i
    BY <1>1
  <2>2. im[i + 1] = ApplyDelta(IF i = 0 THEN image ELSE im[i], ds[i + 1])
    BY <1>2, <2>1
  <2>3. im[i + 1] \in {ds[i + 1].to, Broken}
    BY <1>0, <2>1, <2>2, ApplyDeltaIs
  <2>4. CASE ~sound
    BY <2>1, <2>3, <2>4
  <2>5. CASE sound /\ ds[i + 1].isKeyframe
    <3>1. im[i + 1] = ds[i + 1].to
      BY <1>0, <2>1, <2>2, <2>5, ApplyDeltaIs
    <3> QED
      BY <2>1, <3>1
  <2>6. CASE sound /\ ~ds[i + 1].isKeyframe
    <3>1. ds[i + 1].from = IF i = 0 THEN a ELSE ds[i].to
      BY <1>3, <2>1, <2>6
    <3>2. (IF i = 0 THEN image ELSE im[i]) = ds[i + 1].from
      <4>1. CASE i = 0
        BY <1>1, <2>1, <2>6, <3>1, <4>1
      <4>2. CASE i # 0
        BY <1>5, <2>6, <3>1, <4>2
      <4> QED
        BY <4>1, <4>2
    <3>3. im[i + 1] = ds[i + 1].to
      BY <1>0, <2>1, <2>2, <2>6, <3>2, ApplyDeltaIs
    <3> QED
      BY <2>1, <3>3
  <2> QED
    BY <2>4, <2>5, <2>6
<1>6. 0..n \subseteq T
  <2> HIDE DEF T
  <2> QED
    BY <1>1, <1>4, <1>5, UpTo
<1>7. \A i \in 1..n : OK(i)
  BY <1>1, <1>6
<1> QED
  BY <1>7 DEF n, im

\* The main thread has the image f[i] after the first i deltas.
SyncSteps(f, t, image, ds) ==
    /\ f[0] = image
    /\ \A i \in 1..Len(ds) :
         /\ f[i] = IF i \notin Shown(t, ds) \/ (~ds[i].isKeyframe /\ f[i - 1] = None)
                   THEN f[i - 1] ELSE ApplyDelta(f[i - 1], ds[i])
         /\ SyncImages(t, image, ds)[i] = f[i]

\* It has an image after each of them.
LEMMA SyncImagesAre ==
  ASSUME NEW t, NEW image \in Image, NEW ds \in Seq(Delta)
  PROVE  \E f : SyncSteps(f, t, image, ds)
<1>0. PICK shown \in SUBSET (1..Len(ds)) : shown = Shown(t, ds)
  BY DEF Shown
<1> DEFINE n == Len(ds)
           after == CHOOSE f : f = [i \in 0..n |->
             IF i = 0 THEN image
             ELSE IF i \notin shown \/ (~ds[i].isKeyframe /\ f[i - 1] = None)
                  THEN f[i - 1] ELSE ApplyDelta(f[i - 1], ds[i])]
<1>1. n \in Nat
  OBVIOUS
<1>2. after = [i \in 0..n |->
             IF i = 0 THEN image
             ELSE IF i \notin shown \/ (~ds[i].isKeyframe /\ after[i - 1] = None)
                  THEN after[i - 1] ELSE ApplyDelta(after[i - 1], ds[i])]
  <2>1. \E f : f = [i \in 0..n |->
             IF i = 0 THEN image
             ELSE IF i \notin shown \/ (~ds[i].isKeyframe /\ f[i - 1] = None)
                  THEN f[i - 1] ELSE ApplyDelta(f[i - 1], ds[i])]
    <3>1. PICK f \in [0..n -> Image] :
            /\ f[0] = image
            /\ \A i \in 1..n :
                 f[i] = IF i \notin shown \/ (~ds[i].isKeyframe /\ f[i - 1] = None)
                        THEN f[i - 1] ELSE ApplyDelta(f[i - 1], ds[i])
      BY SyncImagesExist
    <3> HIDE DEF n
    <3>2. f = [i \in 0..n |->
             IF i = 0 THEN image
             ELSE IF i \notin shown \/ (~ds[i].isKeyframe /\ f[i - 1] = None)
                  THEN f[i - 1] ELSE ApplyDelta(f[i - 1], ds[i])]
      BY <1>1, <3>1
    <3> QED
      BY <3>2
  <2> QED
    BY <2>1
<1>3. SyncImages(t, image, ds) = [i \in 1..n |-> after[i]]
  BY <1>0 DEF SyncImages
<1> HIDE DEF after, n
<1>4. after[0] = image
  BY <1>1, <1>2
<1>5. ASSUME NEW i \in 1..n
      PROVE  /\ after[i] = IF i \notin shown \/ (~ds[i].isKeyframe /\ after[i - 1] = None)
                           THEN after[i - 1] ELSE ApplyDelta(after[i - 1], ds[i])
             /\ SyncImages(t, image, ds)[i] = after[i]
  BY <1>1, <1>2, <1>3
<1> QED
  BY <1>0, <1>4, <1>5 DEF n, SyncSteps

\* The last delta that is shown is the last one that changes the image.
LEMMA LastShown ==
  ASSUME NEW t, NEW image \in Image, NEW ds \in Seq(Delta), ds # <<>>,
         NEW shown, shown = Shown(t, ds), NEW sync, sync = SyncImages(t, image, ds)
  PROVE  /\ shown = {} => sync[Len(ds)] = image
         /\ shown # {} => /\ LastOf(shown) \in 1..Len(ds)
                          /\ sync[Len(ds)] = sync[LastOf(shown)]
                          /\ sync[LastOf(shown)] \in {None, Broken, ds[LastOf(shown)].to}
<1> DEFINE n == Len(ds)
           l == IF shown = {} THEN 0 ELSE LastOf(shown)
<1>1. n \in Nat \ {0} /\ \A i \in 1..n : ds[i] \in Delta
  OBVIOUS
<1>0. PICK f : SyncSteps(f, t, image, ds)
  BY SyncImagesAre
<1>2. /\ f[0] = image
      /\ \A i \in 1..n :
           /\ f[i] = IF i \notin shown \/ (~ds[i].isKeyframe /\ f[i - 1] = None)
                     THEN f[i - 1] ELSE ApplyDelta(f[i - 1], ds[i])
           /\ sync[i] = f[i]
  BY <1>0 DEF SyncSteps
<1>3. shown \subseteq 1..n
  BY DEF Shown
<1> HIDE DEF n
<1>4. shown # {} => LastOf(shown) \in shown /\ \A j \in shown : j <= LastOf(shown)
  <2>1. ASSUME shown # {} PROVE \E i \in shown : \A j \in shown : j <= i
    <3>1. shown \in SUBSET (0..n)
      BY <1>1, <1>3
    <3> QED
      BY <1>1, <2>1, <3>1, Greatest
  <2> QED
    BY <2>1 DEF LastOf
<1>5. l \in 0..n /\ \A j \in shown : j <= l
  BY <1>1, <1>3, <1>4
<1> HIDE DEF l
<1> DEFINE T == {i \in 0..n : i >= l => f[i] = f[l]}
<1>6. 0 \in T
  BY <1>1, <1>5
<1>7. ASSUME NEW i \in 0..(n - 1), i \in T PROVE i + 1 \in T
  <2>1. i + 1 \in 1..n /\ i + 1 \in 0..n /\ (i + 1) - 1 = i /\ i \in 0..n
    BY <1>1
  <2>2. CASE i + 1 = l \/ i + 1 < l
    BY <1>5, <2>1, <2>2
  <2>3. CASE i + 1 > l
    <3>1. i + 1 \notin shown /\ i >= l
      BY <1>5, <2>1, <2>3
    <3>2. f[i + 1] = f[i]
      BY <1>2, <2>1, <3>1
    <3> QED
      BY <1>7, <2>1, <3>1, <3>2
  <2> QED
    BY <1>5, <2>1, <2>2, <2>3
<1>8. 0..n \subseteq T
  <2> HIDE DEF T
  <2> QED
    BY <1>1, <1>6, <1>7, UpTo
<1>9. f[n] = f[l] /\ sync[n] = f[n]
  <2>1. n \in 0..n /\ n \in 1..n /\ n >= l
    BY <1>1, <1>5
  <2> QED
    BY <1>2, <1>8, <2>1
<1>10. CASE shown = {}
  BY <1>2, <1>9, <1>10 DEF l, n
<1>11. CASE shown # {}
  <2>1. l = LastOf(shown) /\ l \in shown /\ l \in 1..n
    BY <1>3, <1>4, <1>11 DEF l
  <2>2. sync[l] = f[l]
    BY <1>2, <2>1
  <2>3. f[l] \in {None, Broken, ds[l].to}
    <3>1. CASE ~ds[l].isKeyframe /\ f[l - 1] = None
      BY <1>2, <2>1, <3>1
    <3>2. CASE ~(~ds[l].isKeyframe /\ f[l - 1] = None)
      <4>1. f[l] = ApplyDelta(f[l - 1], ds[l])
        BY <1>2, <2>1, <3>2
      <4>2. ApplyDelta(f[l - 1], ds[l]) \in {ds[l].to, Broken}
        BY <1>1, <2>1, ApplyDeltaIs
      <4> QED
        BY <4>1, <4>2
    <3> QED
      BY <3>1, <3>2
  <2> QED
    BY <1>9, <1>11, <2>1, <2>2, <2>3 DEF n
<1> QED
  BY <1>10, <1>11

\* Where deltas lead of which only the order is known.
LEMMA LooseDeltas ==
  ASSUME NEW ds \in Seq(Delta), ds # <<>>, NEW a, NEW b,
         Leads(ds, DeltaHops(FALSE), a, b)
  PROVE  /\ a \in WireId /\ b \in WireId /\ a <= b /\ ds[Len(ds)].to = b
         /\ \A i \in 1..Len(ds) :
              /\ ds[i].to \in WireId /\ a <= ds[i].to /\ ds[i].to <= b
              /\ i > 1 => ds[i - 1].to <= ds[i].to
<1>1. PICK sound \in BOOLEAN : sound = FALSE
  OBVIOUS
<1>2. Leads(ds, DeltaHops(sound), a, b)
  BY <1>1
<1>3. /\ a \in WireId /\ b \in WireId /\ a <= b
      /\ \A i \in 1..Len(ds) :
           /\ ds[i].to \in WireId /\ a <= ds[i].to /\ ds[i].to <= b
           /\ i > 1 => ds[i - 1].to <= ds[i].to
           /\ sound /\ ~ds[i].isKeyframe =>
                ds[i].from = IF i = 1 THEN a ELSE ds[i - 1].to
      /\ IF ds = <<>> THEN a = b ELSE ds[Len(ds)].to = b
  BY <1>2, LedDeltas
<1> QED
  BY <1>3

-----------------------------------------------------------------------------
(* Deltas that wait for the main thread.                                   *)

\* The deltas ds that wait to be applied to rendering c, for a tile that has
\* become t.  The first m were for a tile that redraw() removed: t knows of
\* none of their ids, and has its keyframe among the others or no raw delta at
\* all.  Each of the others continues the one before it.
Usable(t, ds, m, c) ==
    /\ \A i \in 1..m : ds[i].wireMessage
    /\ m # 0 => IF m = Len(ds) THEN t.current /\ t.rawDeltas = <<>>
                ELSE ds[m + 1].isKeyframe
    /\ \A i \in (m + 1)..Len(ds) :
         /\ Known(t, ds[i])
         /\ ~ds[i].isKeyframe => ds[i].from = IF i = 1 THEN c ELSE ds[i - 1].to
    /\ m = 0 /\ ~ds[1].isKeyframe => t.decompressedId # 0

\* Decompressing them on the main thread ends in the rendering e that they lead
\* to, or in an earlier one where the tile has nothing else.
LeftAt(t, image, ds, c, e) ==
    \E y \in WireId :
      /\ c <= y /\ y <= e
      /\ SyncImages(t, image, ds)[Len(ds)] \in {None, y}
      /\ y = e \/ t.rawDeltas = <<>>

\* It does.
LEMMA SyncUsable ==
  ASSUME NEW t \in Tile, NEW ds \in Seq(Delta), ds # <<>>, NEW c, NEW e,
         Leads(ds, DeltaHops(FALSE), c, e), NEW m \in 0..Len(ds), Usable(t, ds, m, c),
         NEW image \in Image, image \in {None, c}
  PROVE  LeftAt(t, image, ds, c, e)
<1> DEFINE n == Len(ds)
           shown == Shown(t, ds)
<1>1. n \in Nat \ {0} /\ \A i \in 1..n : ds[i] \in Delta
  OBVIOUS
<1>2. /\ c \in WireId /\ e \in WireId /\ c <= e /\ ds[n].to = e
      /\ \A i \in 1..n :
           /\ ds[i].to \in WireId /\ c <= ds[i].to /\ ds[i].to <= e
           /\ i > 1 => ds[i - 1].to <= ds[i].to
  BY LooseDeltas
<1>3. \A x \in WireId : x \in Nat
  BY WireAssumption DEF WireId
<1>4. PICK f : SyncSteps(f, t, image, ds)
  BY SyncImagesAre
<1>5. /\ f[0] = image
      /\ \A i \in 1..n :
           /\ f[i] = IF i \notin shown \/ (~ds[i].isKeyframe /\ f[i - 1] = None)
                     THEN f[i - 1] ELSE ApplyDelta(f[i - 1], ds[i])
           /\ SyncImages(t, image, ds)[i] = f[i]
  BY <1>4 DEF SyncSteps
<1>6. /\ \A i \in 1..m : ds[i].wireMessage
      /\ m # 0 => IF m = n THEN t.current /\ t.rawDeltas = <<>> ELSE ds[m + 1].isKeyframe
      /\ \A i \in (m + 1)..n :
           /\ Known(t, ds[i])
           /\ ~ds[i].isKeyframe => ds[i].from = IF i = 1 THEN c ELSE ds[i - 1].to
      /\ m = 0 /\ ~ds[1].isKeyframe => t.decompressedId # 0
  BY DEF Usable
<1>7. m \in 0..n /\ n \in 1..n
  BY <1>1
<1>8. \A i \in 1..n : i \in shown <=>
        \/ ds[i].isKeyframe
        \/ (ds[i].wireMessage => Known(t, ds[i])) /\ (i = 1 => t.decompressedId # 0)
  BY DEF Shown
<1> HIDE DEF n, shown
<1>9. CASE m # n
  <2> DEFINE from(i) == IF i = 0 THEN c ELSE ds[i].to
             T == {i \in 0..n : i > m \/ m = 0 => f[i] \in {None, from(i)}}
  <2>1. 0 \in T
    BY <1>1, <1>5, <1>7
  <2>2. ASSUME NEW i \in 0..(n - 1), i \in T PROVE i + 1 \in T
    <3>1. i + 1 \in 1..n /\ i + 1 \in 0..n /\ (i + 1) - 1 = i /\ i \in 0..n /\ i + 1 # 0
      BY <1>1
    <3>2. CASE i + 1 <= m
      BY <1>7, <3>1, <3>2
    <3>3. CASE i + 1 > m
      <4>1. i + 1 \in (m + 1)..n
        BY <1>7, <3>1, <3>3
      <4>2. i + 1 \in shown
        <5>1. CASE i + 1 # 1 \/ t.decompressedId # 0
          BY <1>6, <1>8, <3>1, <4>1, <5>1
        <5>2. CASE i + 1 = 1
          <6>1. m = 0
            BY <1>7, <3>3, <5>2
          <6> QED
            BY <1>6, <1>8, <3>1, <4>1, <5>2, <6>1
        <5> QED
          BY <5>1, <5>2
      <4>3. f[i + 1] = IF ~ds[i + 1].isKeyframe /\ f[i] = None
                       THEN f[i] ELSE ApplyDelta(f[i], ds[i + 1])
        BY <1>5, <3>1, <4>2
      <4>4. CASE ds[i + 1].isKeyframe
        <5>1. f[i + 1] = ds[i + 1].to
          BY <1>1, <3>1, <4>3, <4>4, ApplyDeltaIs
        <5> QED
          BY <3>1, <5>1
      <4>5. CASE ~ds[i + 1].isKeyframe
        <5>1. i > m \/ m = 0
          BY <1>6, <1>7, <1>9, <3>1, <3>3, <4>5
        <5>2. f[i] \in {None, from(i)}
          BY <2>2, <5>1
        <5>3. ds[i + 1].from = IF i + 1 = 1 THEN c ELSE ds[(i + 1) - 1].to
          BY <1>6, <4>1, <4>5
        <5>4. ds[i + 1].from = from(i)
          BY <3>1, <5>3
        <5>5. CASE f[i] = None
          BY <3>1, <4>3, <4>5, <5>5
        <5>6. CASE f[i] # None
          <6>1. f[i] = ds[i + 1].from
            BY <5>2, <5>4, <5>6
          <6>2. f[i + 1] = ds[i + 1].to
            BY <1>1, <3>1, <4>3, <5>6, <6>1, ApplyDeltaIs
          <6> QED
            BY <3>1, <6>2
        <5> QED
          BY <5>5, <5>6
      <4> QED
        BY <4>4, <4>5
    <3> QED
      BY <1>7, <3>1, <3>2, <3>3
  <2>3. 0..n \subseteq T
    <3> HIDE DEF T
    <3> QED
      BY <1>1, <2>1, <2>2, UpTo
  <2>4. f[n] \in {None, e}
    <3>1. n \in T /\ n > m /\ n # 0
      BY <1>1, <1>7, <1>9, <2>3
    <3> QED
      BY <1>2, <3>1
  <2> QED
    BY <1>2, <1>3, <1>5, <1>7, <2>4 DEF n, LeftAt
<1>10. CASE m = n
  <2>1. t.rawDeltas = <<>>
    BY <1>1, <1>6, <1>10
  <2>2. \A d : ~Known(t, d)
    BY <2>1 DEF Known
  <2> DEFINE OK(x) == x = None \/ (x \in WireId /\ c <= x /\ x <= e)
             T == {i \in 0..n : OK(f[i])}
  <2>3. 0 \in T
    BY <1>1, <1>2, <1>3, <1>5
  <2>4. ASSUME NEW i \in 0..(n - 1), i \in T PROVE i + 1 \in T
    <3>1. i + 1 \in 1..n /\ i + 1 \in 0..n /\ (i + 1) - 1 = i
      BY <1>1
    <3>2. CASE ds[i + 1].isKeyframe
      <4>1. f[i + 1] = f[i] \/ f[i + 1] = ds[i + 1].to
        BY <1>1, <1>5, <3>1, <3>2, ApplyDeltaIs
      <4> QED
        BY <1>2, <2>4, <3>1, <4>1
    <3>3. CASE ~ds[i + 1].isKeyframe
      <4>1. i + 1 \notin shown
        BY <1>6, <1>8, <1>10, <2>2, <3>1, <3>3
      <4>2. f[i + 1] = f[i]
        BY <1>5, <3>1, <4>1
      <4> QED
        BY <2>4, <3>1, <4>2
    <3> QED
      BY <3>2, <3>3
  <2>5. 0..n \subseteq T
    <3> HIDE DEF T
    <3> QED
      BY <1>1, <2>3, <2>4, UpTo
  <2>6. OK(f[n])
    BY <1>1, <2>5
  <2>7. SyncImages(t, image, ds)[n] = f[n]
    BY <1>5, <1>7
  <2>8. CASE f[n] = None
    BY <1>2, <1>3, <2>1, <2>7, <2>8 DEF n, LeftAt
  <2>9. CASE f[n] # None
    BY <2>1, <2>6, <2>7, <2>9 DEF n, LeftAt
  <2> QED
    BY <2>8, <2>9
<1> QED
  BY <1>9, <1>10

-----------------------------------------------------------------------------
(* The renderings of one tile, from the canvas back to coolwsd.            *)

\* An image that hop p may leave: one that was Broken only where the stage is
\* not sound.
Between(image, p, sound) ==
    \/ p[1] <= image /\ image <= p[2]
    \/ ~sound /\ image = Broken

TaskHops(k, sound) ==
    [t \in Task |-> {p \in WireId \X WireId :
       Leads(t.deltas[k], DeltaHops(sound), p[1], p[2])}]

AnswerHops(k, sound) ==
    [a \in Answered |-> {p \in WireId \X WireId :
       /\ p[1] <= p[2]
       /\ \A i \in 1..Len(a.bitmaps[k]) : Between(a.bitmaps[k][i], p, sound)}]

PromiseHops(k, sound) ==
    [b \in [Keys -> Image] |-> {p \in WireId \X WireId :
       p[1] <= p[2] /\ (b[k] = None \/ Between(b[k], p, sound))}]

\* What tile k has of the renderings up to R, those up to e of them on their
\* way to decompression.
Held(k, ts, R, e) == k \in DOMAIN ts => Fine(ts[k], R, e)

\* The deltas ds that wait to be decompressed on the main thread, onto the
\* image of rendering c.
Waiting(k, sound, ds, ts, c, e) ==
    /\ Leads(ds, DeltaHops(FALSE), c, e)
    /\ \A i \in 1..Len(ds) : ds[i].ids[2] # 0
    /\ sound /\ ds # <<>> =>
         k \in DOMAIN ts /\ \E m \in 0..Len(ds) : Usable(ts[k], ds, m, c)
    /\ sound /\ ds = <<>> /\ k \in DOMAIN ts =>
         (ts[k].lastPendingId # 0 => ts[k].decompressedId # 0)

\* From what tile k has shown, the bitmaps that are promised to the image
\* that the main thread has, and the waiting deltas on to rendering e.
MainLine(k, sound, shown, promises, image, ds, ts, e) ==
    \E a, b, c \in WireId :
      /\ shown <= a /\ Leads(promises, PromiseHops(k, sound), a, b)
      /\ b <= c /\ (sound => image \in {None, c})
      /\ Waiting(k, sound, ds, ts, c, e)

\* The same through a worker: its answers to the image that it has, its tasks
\* and the waiting deltas on to rendering e.
WorkerLine(k, sound, shown, answers, image, tasks, ds, e) ==
    \E a, b, c, d \in WireId :
      /\ shown <= a /\ Leads(answers, AnswerHops(k, sound), a, b)
      /\ b <= c /\ (sound => b = c /\ image \in {None, b})
      /\ Leads(tasks, TaskHops(k, sound), c, d)
      /\ Leads(ds, DeltaHops(sound), d, e)

\* The main thread decompresses the deltas ds: tile k, its new bitmap, the
\* image that is left and the promises.
Synced(k, ds, image, promises, ts, us, bm, left, rest) ==
    /\ DOMAIN us = DOMAIN ts
    /\ k \in DOMAIN ts => ts[k] \in Tile /\ us[k] = Decompressed(ts[k], ds)
    /\ bm = IF k \notin DOMAIN ts \/ Shown(ts[k], ds) = {} THEN None
            ELSE SyncImages(ts[k], image, ds)[LastOf(Shown(ts[k], ds))]
    /\ left = IF k \notin DOMAIN ts \/ ds = <<>> THEN image
              ELSE SyncImages(ts[k], image, ds)[Len(ds)]
    /\ \/ rest = promises /\ bm = None
       \/ \E x \in [Keys -> Image] : rest = Append(promises, x) /\ x[k] = bm

\* Nothing waits any more to be decompressed on the main thread.
AllSynced(k, sound, shown, promises, image, ts, R) ==
    \E f \in WireId :
      /\ f <= R /\ Held(k, ts, R, f)
      /\ MainLine(k, sound, shown, promises, image, <<>>, ts, f)

\* Decompression on the main thread leaves its image at the rendering that
\* it has applied the deltas up to.
LEMMA DecompressOne ==
  ASSUME NEW k, NEW sound \in BOOLEAN, NEW shown \in WireId,
         NEW promises \in Seq([Keys -> Image]), NEW image \in Image,
         NEW ds \in Seq(Delta), NEW ts, NEW R \in WireId, NEW e \in WireId, e <= R,
         Held(k, ts, R, e), MainLine(k, sound, shown, promises, image, ds, ts, e),
         NEW us, NEW bm, NEW left, NEW rest,
         Synced(k, ds, image, promises, ts, us, bm, left, rest)
  PROVE  AllSynced(k, sound, shown, rest, left, us, R)
<1> SUFFICES \E f \in WireId :
               /\ f <= R /\ Held(k, us, R, f)
               /\ MainLine(k, sound, shown, rest, left, <<>>, us, f)
  BY DEF AllSynced
<1>0. /\ DOMAIN us = DOMAIN ts
      /\ k \in DOMAIN ts => ts[k] \in Tile /\ us[k] = Decompressed(ts[k], ds)
      /\ bm = IF k \notin DOMAIN ts \/ Shown(ts[k], ds) = {} THEN None
              ELSE SyncImages(ts[k], image, ds)[LastOf(Shown(ts[k], ds))]
      /\ left = IF k \notin DOMAIN ts \/ ds = <<>> THEN image
                ELSE SyncImages(ts[k], image, ds)[Len(ds)]
      /\ \/ rest = promises /\ bm = None
         \/ \E x \in [Keys -> Image] : rest = Append(promises, x) /\ x[k] = bm
  BY DEF Synced
<1> USE <1>0
<1>1. PICK a \in WireId, b \in WireId, c \in WireId :
        /\ shown <= a /\ Leads(promises, PromiseHops(k, sound), a, b)
        /\ b <= c /\ (sound => image \in {None, c})
        /\ Waiting(k, sound, ds, ts, c, e)
  BY DEF MainLine
<1>2. /\ Leads(ds, DeltaHops(FALSE), c, e)
      /\ \A i \in 1..Len(ds) : ds[i].ids[2] # 0
      /\ sound /\ ds # <<>> =>
           k \in DOMAIN ts /\ \E m \in 0..Len(ds) : Usable(ts[k], ds, m, c)
      /\ sound /\ ds = <<>> /\ k \in DOMAIN ts =>
           (ts[k].lastPendingId # 0 => ts[k].decompressedId # 0)
  BY <1>1 DEF Waiting
<1>3. \A x \in WireId : x \in Nat
  BY WireAssumption DEF WireId
<1>4. c <= e /\ (ds = <<>> => c = e)
  <2>1. CASE ds = <<>>
    <3>1. Leads(<<>>, DeltaHops(FALSE), c, e)
      BY <1>2, <2>1
    <3>2. c = e
      BY <3>1, LeadsNowhere
    <3> QED
      BY <1>3, <3>2
  <2>2. CASE ds # <<>>
    BY <1>2, <2>2, LooseDeltas
  <2> QED
    BY <2>1, <2>2
\* What is promised, and where the image is left.
<1>5. ASSUME NEW y \in WireId, c <= y, y <= e, bm = None \/ Between(bm, <<b, y>>, sound),
             sound => left \in {None, y}, Held(k, us, R, y),
             sound /\ k \in DOMAIN us =>
               (us[k].lastPendingId # 0 => us[k].decompressedId # 0)
      PROVE  \E f \in WireId :
               /\ f <= R /\ Held(k, us, R, f)
               /\ MainLine(k, sound, shown, rest, left, <<>>, us, f)
  <2>1. \E z \in WireId : z <= y /\ Leads(rest, PromiseHops(k, sound), a, z)
    <3>1. CASE rest = promises
      <4>1. b <= y
        BY <1>1, <1>3, <1>5
      <4> QED
        BY <1>1, <3>1, <4>1
    <3>2. CASE \E x \in [Keys -> Image] : rest = Append(promises, x) /\ x[k] = bm
      <4>1. PICK x \in [Keys -> Image] : rest = Append(promises, x) /\ x[k] = bm
        BY <3>2
      <4>2. <<b, y>> \in PromiseHops(k, sound)[x]
        <5>1. b <= y
          BY <1>1, <1>3, <1>5
        <5> QED
          BY <1>5, <4>1, <5>1 DEF PromiseHops
      <4>3. Leads(Append(promises, x), PromiseHops(k, sound), a, y)
        BY <1>1, <4>2, LeadsAppend
      <4> QED
        BY <1>3, <4>1, <4>3
    <3> QED
      BY <3>1, <3>2
  <2>2. PICK z \in WireId : z <= y /\ Leads(rest, PromiseHops(k, sound), a, z)
    BY <2>1
  <2>3. Waiting(k, sound, <<>>, us, y, y)
    <3>1. Leads(<<>>, DeltaHops(FALSE), y, y)
      BY LeadsNowhere
    <3>2. \A i \in 1..Len(<<>>) : FALSE
      OBVIOUS
    <3>3. sound /\ k \in DOMAIN us =>
            (us[k].lastPendingId # 0 => us[k].decompressedId # 0)
      BY <1>5
    <3> QED
      BY <3>1, <3>2, <3>3 DEF Waiting
  <2>4. MainLine(k, sound, shown, rest, left, <<>>, us, y)
    BY <1>1, <1>5, <2>2, <2>3 DEF MainLine
  <2>5. y <= R
    BY <1>3, <1>5
  <2> QED
    BY <1>5, <2>4, <2>5
<1>6. CASE k \notin DOMAIN ts
  <2>1. bm = None /\ left = image /\ Held(k, us, R, e)
    BY <1>6 DEF Held
  <2>2. sound => left \in {None, e}
    BY <1>1, <1>2, <1>4, <1>6, <2>1
  <2>3. e <= e
    BY <1>3
  <2> QED
    BY <1>4, <1>5, <1>6, <2>1, <2>2, <2>3
<1>7. CASE k \in DOMAIN ts /\ ds = <<>>
  <2>1. us[k] = ts[k] /\ Shown(ts[k], ds) = {}
    BY <1>7 DEF Decompressed, Shown
  <2>2. bm = None /\ left = image /\ Held(k, us, R, e)
    BY <1>7, <2>1 DEF Held
  <2>3. sound => left \in {None, e}
    BY <1>1, <1>4, <1>7, <2>2
  <2>4. e <= e
    BY <1>3
  <2> QED
    BY <1>2, <1>4, <1>5, <1>7, <2>1, <2>2, <2>3, <2>4
<1>8. CASE k \in DOMAIN ts /\ ds # <<>>
  <2> DEFINE t == ts[k]
             n == Len(ds)
  <2>0. PICK s, im : s = Shown(t, ds) /\ im = SyncImages(t, image, ds)
    OBVIOUS
  <2> DEFINE l == LastOf(s)
  <2>1. t \in Tile /\ Fine(t, R, e) /\ n \in 1..Len(ds) /\ us[k] = Decompressed(t, ds)
    BY <1>8 DEF Held
  <2>2. /\ s = {} => im[n] = image
        /\ s # {} => l \in 1..n /\ im[n] = im[l] /\ im[l] \in {None, Broken, ds[l].to}
    BY <1>8, <2>0, LastShown
  <2>3. bm = (IF s = {} THEN None ELSE im[l]) /\ left = im[n]
    BY <1>8, <2>0
  <2>4. \A i \in 1..n : ds[i].to \in WireId /\ c <= ds[i].to /\ ds[i].to <= e
    BY <1>2, <1>8, LooseDeltas
  <2>5. /\ us[k].decompressedId # 0 /\ us[k].rawDeltas = t.rawDeltas
        /\ Lighter(t, us[k])
    <3>1. us[k] = [t EXCEPT !.decompressedId = ds[n].ids[2]]
      BY <1>8, <2>1 DEF Decompressed
    <3>2. ds[n].ids[2] \in Nat /\ ds[n].ids[2] # 0
      <4>1. ds[n] \in Delta
        BY <2>1
      <4> QED
        BY <1>2, <2>1, <4>1 DEF Delta
    <3> HIDE DEF t, n
    <3>3. us[k] \in Tile /\ us[k].decompressedId # 0 /\ us[k].rawDeltas = t.rawDeltas
          /\ us[k].deltaId = t.deltaId /\ us[k].lastPendingId = t.lastPendingId
      BY <2>1, <3>1, <3>2 DEF Tile
    <3> QED
      BY <2>1, <3>3, SameRaw
  <2>6. Fine(us[k], R, e)
    BY <2>1, <2>5, LighterFine
  <2> HIDE DEF t, n, l
  <2>7. CASE ~sound
    <3>1. bm = None \/ Between(bm, <<b, e>>, sound)
      <4>1. CASE s = {} \/ im[l] = None
        BY <2>3, <4>1
      <4>2. CASE s # {} /\ im[l] = Broken
        BY <2>3, <2>7, <4>2 DEF Between
      <4>3. CASE s # {} /\ im[l] = ds[l].to
        <5>1. bm \in WireId /\ c <= bm /\ bm <= e
          BY <2>2, <2>3, <2>4, <4>3
        <5>2. b <= bm
          BY <1>1, <1>3, <5>1
        <5> QED
          BY <5>1, <5>2 DEF Between
      <4> QED
        BY <2>2, <4>1, <4>2, <4>3
    <3>2. e <= e
      BY <1>3
    <3> QED
      BY <1>4, <1>5, <2>6, <2>7, <3>1, <3>2 DEF Held
  <2>8. CASE sound
    <3>1. PICK m \in 0..Len(ds) : Usable(t, ds, m, c)
      BY <1>2, <1>8, <2>8 DEF t
    <3>0. image \in {None, c} /\ ds # <<>>
      BY <1>1, <1>8, <2>8
    <3>5. LeftAt(t, image, ds, c, e)
      BY <1>2, <2>1, <3>0, <3>1, SyncUsable
    <3>2. PICK y \in WireId :
            /\ c <= y /\ y <= e
            /\ SyncImages(t, image, ds)[Len(ds)] \in {None, y}
            /\ y = e \/ t.rawDeltas = <<>>
      BY <3>5 DEF LeftAt
    <3>3. bm = None \/ Between(bm, <<b, y>>, sound)
      <4>1. bm \in {None, y}
        BY <2>0, <2>2, <2>3, <3>2 DEF n
      <4>2. b <= y /\ y <= y
        BY <1>1, <1>3, <3>2
      <4> QED
        BY <4>1, <4>2 DEF Between
    <3>4. Fine(us[k], R, y)
      BY <2>5, <2>6, <3>2 DEF Fine, SentUpTo
    <3> QED
      BY <1>5, <2>0, <2>3, <2>5, <3>2, <3>3, <3>4 DEF Held, n
  <2> QED
    BY <2>7, <2>8
<1> QED
  BY <1>6, <1>7, <1>8

\* Nothing leads back.
LEMMA HopsForward ==
  ASSUME NEW k \in Keys, NEW sound \in BOOLEAN
  PROVE  /\ Forward(TaskHops(k, sound), Task)
         /\ Forward(AnswerHops(k, sound), Answered)
         /\ Forward(PromiseHops(k, sound), [Keys -> Image])
<1>1. ASSUME NEW t \in Task, NEW p \in TaskHops(k, sound)[t] PROVE p[1] <= p[2]
  <2>1. Leads(t.deltas[k], DeltaHops(sound), p[1], p[2])
    BY <1>1 DEF TaskHops
  <2>2. t.deltas[k] \in Seq(Delta)
    BY <1>1 DEF Task
  <2> QED
    BY <2>1, <2>2, DeltasForward, LeadsForward
<1>2. Forward(TaskHops(k, sound), Task)
  BY <1>1 DEF Forward
<1>3. Forward(AnswerHops(k, sound), Answered)
  BY DEF Forward, AnswerHops
<1>4. Forward(PromiseHops(k, sound), [Keys -> Image])
  BY DEF Forward, PromiseHops
<1> QED
  BY <1>2, <1>3, <1>4

\* What is sound is in order.
LEMMA HopsLoose ==
  ASSUME NEW k \in Keys, NEW sound \in BOOLEAN, NEW less \in BOOLEAN, less => sound
  PROVE  /\ \A d \in Delta : DeltaHops(sound)[d] \subseteq DeltaHops(less)[d]
         /\ \A t \in Task : TaskHops(k, sound)[t] \subseteq TaskHops(k, less)[t]
         /\ \A a \in Answered : AnswerHops(k, sound)[a] \subseteq AnswerHops(k, less)[a]
         /\ \A b \in [Keys -> Image] : PromiseHops(k, sound)[b] \subseteq PromiseHops(k, less)[b]
<1>1. \A d \in Delta : DeltaHops(sound)[d] \subseteq DeltaHops(less)[d]
  BY DEF DeltaHops, DeltaHop
<1>2. ASSUME NEW t \in Task, NEW p \in TaskHops(k, sound)[t] PROVE p \in TaskHops(k, less)[t]
  <2>1. p \in WireId \X WireId /\ Leads(t.deltas[k], DeltaHops(sound), p[1], p[2])
    BY <1>2 DEF TaskHops
  <2>2. t.deltas[k] \in Seq(Delta)
    BY <1>2 DEF Task
  <2>3. Leads(t.deltas[k], DeltaHops(less), p[1], p[2])
    BY <1>1, <2>1, <2>2, LeadsWeaker
  <2> QED
    BY <2>1, <2>3 DEF TaskHops
<1>3. \A x, p : Between(x, p, sound) => Between(x, p, less)
  BY DEF Between
<1>4. \A a \in Answered : AnswerHops(k, sound)[a] \subseteq AnswerHops(k, less)[a]
  BY <1>3 DEF AnswerHops
<1>5. \A b \in [Keys -> Image] : PromiseHops(k, sound)[b] \subseteq PromiseHops(k, less)[b]
  BY <1>3 DEF PromiseHops
<1> QED
  BY <1>1, <1>2, <1>4, <1>5

\* A line that is sound is one.
LEMMA WorkerLoose ==
  ASSUME NEW k \in Keys, NEW sound \in BOOLEAN, NEW less \in BOOLEAN, less => sound,
         NEW shown, NEW answers \in Seq(Answered), NEW image, NEW tasks \in Seq(Task),
         NEW ds \in Seq(Delta), NEW e,
         WorkerLine(k, sound, shown, answers, image, tasks, ds, e),
         NEW now, less => now = image
  PROVE  WorkerLine(k, less, shown, answers, now, tasks, ds, e)
<1>1. PICK a \in WireId, b \in WireId, c \in WireId, d \in WireId :
        /\ shown <= a /\ Leads(answers, AnswerHops(k, sound), a, b)
        /\ b <= c /\ (sound => b = c /\ image \in {None, b})
        /\ Leads(tasks, TaskHops(k, sound), c, d)
        /\ Leads(ds, DeltaHops(sound), d, e)
  BY DEF WorkerLine
<1>2. /\ Leads(answers, AnswerHops(k, less), a, b)
      /\ Leads(tasks, TaskHops(k, less), c, d)
      /\ Leads(ds, DeltaHops(less), d, e)
  BY <1>1, HopsLoose, LeadsWeaker
<1> QED
  BY <1>1, <1>2 DEF WorkerLine

\* The same on the main thread.
LEMMA MainLoose ==
  ASSUME NEW k \in Keys, NEW sound \in BOOLEAN, NEW less \in BOOLEAN, less => sound,
         NEW shown, NEW promises \in Seq([Keys -> Image]), NEW image, NEW ds,
         NEW ts, NEW e, MainLine(k, sound, shown, promises, image, ds, ts, e)
  PROVE  MainLine(k, less, shown, promises, image, ds, ts, e)
<1>1. PICK a \in WireId, b \in WireId, c \in WireId :
        /\ shown <= a /\ Leads(promises, PromiseHops(k, sound), a, b)
        /\ b <= c /\ (sound => image \in {None, c})
        /\ Waiting(k, sound, ds, ts, c, e)
  BY DEF MainLine
<1>2. Leads(promises, PromiseHops(k, less), a, b)
  BY <1>1, HopsLoose, LeadsWeaker
<1>3. Waiting(k, less, ds, ts, c, e)
  BY <1>1 DEF Waiting
<1> QED
  BY <1>1, <1>2, <1>3 DEF MainLine

\* A worker's line leads on from what the tile has shown.
LEMMA WorkerForward ==
  ASSUME NEW k \in Keys, NEW sound \in BOOLEAN, NEW shown \in WireId,
         NEW answers \in Seq(Answered), NEW image, NEW tasks \in Seq(Task),
         NEW ds \in Seq(Delta), NEW e,
         WorkerLine(k, sound, shown, answers, image, tasks, ds, e)
  PROVE  e \in WireId /\ shown <= e
<1>1. PICK a \in WireId, b \in WireId, c \in WireId, d \in WireId :
        /\ shown <= a /\ Leads(answers, AnswerHops(k, sound), a, b)
        /\ b <= c
        /\ Leads(tasks, TaskHops(k, sound), c, d)
        /\ Leads(ds, DeltaHops(sound), d, e)
  BY DEF WorkerLine
<1>2. a <= b /\ c <= d
  BY <1>1, HopsForward, LeadsForward
<1>3. d <= e /\ e \in WireId
  BY <1>1, DeltasForward, LeadsForward, LeadsType
<1>4. \A x \in WireId : x \in Nat
  BY WireAssumption DEF WireId
<1> QED
  BY <1>1, <1>2, <1>3, <1>4

\* The waiting deltas are posted to the worker.
LEMMA PostOne ==
  ASSUME NEW k \in Keys, NEW sound \in BOOLEAN, NEW shown, NEW answers, NEW image,
         NEW tasks \in Seq(Task), NEW ds \in Seq(Delta), NEW e \in WireId,
         WorkerLine(k, sound, shown, answers, image, tasks, ds, e),
         NEW rest,
         \/ rest = tasks /\ ds = <<>>
         \/ \E t \in Task : rest = Append(tasks, t) /\ t.deltas[k] = ds
  PROVE  WorkerLine(k, sound, shown, answers, image, rest, <<>>, e)
<1>1. PICK a \in WireId, b \in WireId, c \in WireId, d \in WireId :
        /\ shown <= a /\ Leads(answers, AnswerHops(k, sound), a, b)
        /\ b <= c /\ (sound => b = c /\ image \in {None, b})
        /\ Leads(tasks, TaskHops(k, sound), c, d)
        /\ Leads(ds, DeltaHops(sound), d, e)
  BY DEF WorkerLine
<1>2. CASE rest = tasks /\ ds = <<>>
  BY <1>2
<1>3. CASE \E t \in Task : rest = Append(tasks, t) /\ t.deltas[k] = ds
  <2>1. PICK t \in Task : rest = Append(tasks, t) /\ t.deltas[k] = ds
    BY <1>3
  <2>2. <<d, e>> \in TaskHops(k, sound)[t]
    BY <1>1, <2>1 DEF TaskHops
  <2>3. Leads(rest, TaskHops(k, sound), c, e)
    BY <1>1, <2>1, <2>2, LeadsAppend
  <2>4. Leads(<<>>, DeltaHops(sound), e, e)
    BY LeadsNowhere
  <2> QED
    BY <1>1, <2>3, <2>4 DEF WorkerLine
<1> QED
  BY <1>2, <1>3

\* A worker does its first task: its images are those that the deltas lead to.
LEMMA WorkOne ==
  ASSUME NEW k \in Keys, NEW sound \in BOOLEAN, NEW shown, NEW answers \in Seq(Answered),
         NEW image, NEW tasks \in Seq(Task), tasks # <<>>, NEW ds, NEW e,
         WorkerLine(k, sound, shown, answers, image, tasks, ds, e),
         NEW kept \in Image, kept \in {None, image},
         NEW todo, todo = Head(tasks).deltas[k],
         todo # <<>> /\ ~todo[1].isKeyframe => kept # None,
         NEW answer \in Answered, answer.bitmaps[k] = Images(kept, todo),
         NEW now, now = IF answer.bitmaps[k] = <<>> THEN kept
                        ELSE answer.bitmaps[k][Len(answer.bitmaps[k])]
  PROVE  WorkerLine(k, sound, shown, Append(answers, answer), now, Tail(tasks), ds, e)
<1>1. PICK a \in WireId, b \in WireId, c \in WireId, d \in WireId :
        /\ shown <= a /\ Leads(answers, AnswerHops(k, sound), a, b)
        /\ b <= c /\ (sound => b = c /\ image \in {None, b})
        /\ Leads(tasks, TaskHops(k, sound), c, d)
        /\ Leads(ds, DeltaHops(sound), d, e)
  BY DEF WorkerLine
<1>2. Head(tasks) \in Task /\ Tail(tasks) \in Seq(Task)
  BY TailItems
<1>3. PICK x \in WireId : /\ <<c, x>> \in TaskHops(k, sound)[Head(tasks)]
                          /\ Leads(Tail(tasks), TaskHops(k, sound), x, d)
  BY <1>1, LeadsTail
<1>4. todo \in Seq(Delta) /\ Leads(todo, DeltaHops(sound), c, x)
  BY <1>2, <1>3 DEF TaskHops, Task
<1>5. sound /\ todo # <<>> => kept = c \/ todo[1].isKeyframe
  BY <1>1
<1> DEFINE im == Images(kept, todo)
<1>6. im \in Seq(Image) /\ Len(im) = Len(todo)
  BY <1>4, ImagesType
<1>7. \A i \in 1..Len(todo) : im[i] = todo[i].to \/ (~sound /\ im[i] = Broken)
  BY <1>4, <1>5, ImagesLed
<1>8. /\ c <= x
      /\ \A i \in 1..Len(todo) : todo[i].to \in WireId /\ c <= todo[i].to /\ todo[i].to <= x
      /\ IF todo = <<>> THEN c = x ELSE todo[Len(todo)].to = x
  <2>1. /\ c \in WireId /\ x \in WireId /\ c <= x
        /\ \A i \in 1..Len(todo) :
             /\ todo[i].to \in WireId /\ c <= todo[i].to /\ todo[i].to <= x
             /\ i > 1 => todo[i - 1].to <= todo[i].to
             /\ sound /\ ~todo[i].isKeyframe =>
                  todo[i].from = IF i = 1 THEN c ELSE todo[i - 1].to
        /\ IF todo = <<>> THEN c = x ELSE todo[Len(todo)].to = x
    BY <1>4, LedDeltas
  <2> QED
    BY <2>1
<1>9. \A y \in WireId : y \in Nat
  BY WireAssumption DEF WireId
<1>10. im = answer.bitmaps[k]
  OBVIOUS
<1> HIDE DEF im
<1>11. <<b, x>> \in AnswerHops(k, sound)[answer]
  <2>1. b <= x
    BY <1>1, <1>8, <1>9
  <2>2. ASSUME NEW i \in 1..Len(im) PROVE Between(im[i], <<b, x>>, sound)
    <3>1. CASE im[i] = todo[i].to
      <4>1. b <= im[i] /\ im[i] <= x
        BY <1>1, <1>6, <1>8, <1>9, <2>2, <3>1
      <4> QED
        BY <4>1 DEF Between
    <3>2. CASE ~sound /\ im[i] = Broken
      BY <3>2 DEF Between
    <3> QED
      BY <1>6, <1>7, <3>1, <3>2
  <2> QED
    BY <1>10, <2>1, <2>2 DEF AnswerHops
<1>12. Leads(Append(answers, answer), AnswerHops(k, sound), a, x)
  BY <1>1, <1>11, LeadsAppend
<1>13. sound => now \in {None, x}
  <2> SUFFICES ASSUME sound PROVE now \in {None, x}
    OBVIOUS
  <2>1. CASE im = <<>>
    <3>1. todo = <<>>
      BY <1>4, <1>6, <2>1
    <3> QED
      BY <1>1, <1>8, <1>10, <2>1, <3>1
  <2>2. CASE im # <<>>
    <3>1. todo # <<>> /\ Len(todo) \in 1..Len(todo) /\ Len(im) = Len(todo)
      BY <1>4, <1>6, <2>2
    <3>2. now = im[Len(im)]
      BY <1>10, <2>2
    <3> QED
      BY <1>7, <1>8, <3>1, <3>2
  <2> QED
    BY <2>1, <2>2
<1>14. x <= x
  BY <1>9
<1> QED
  BY <1>1, <1>3, <1>12, <1>13, <1>14 DEF WorkerLine

\* A worker throws in the middle of its first task.
LEMMA ThrowOne ==
  ASSUME NEW k \in Keys, NEW sound \in BOOLEAN, NEW shown, NEW answers \in Seq(Answered),
         NEW image, NEW tasks \in Seq(Task), NEW ds \in Seq(Delta), NEW e,
         WorkerLine(k, sound, shown, answers, image, tasks, ds, e), NEW now,
         NEW rest, rest = tasks \/ (tasks # <<>> /\ rest = Tail(tasks))
  PROVE  WorkerLine(k, FALSE, shown, answers, now, rest, ds, e)
<1>0. PICK less \in BOOLEAN : less = FALSE
  OBVIOUS
<1>1. WorkerLine(k, less, shown, answers, now, tasks, ds, e)
  BY <1>0, WorkerLoose
<1>2. CASE rest = tasks
  BY <1>0, <1>1, <1>2
<1>3. CASE tasks # <<>> /\ rest = Tail(tasks)
  <2>1. PICK a \in WireId, b \in WireId, c \in WireId, d \in WireId :
          /\ shown <= a /\ Leads(answers, AnswerHops(k, less), a, b)
          /\ b <= c
          /\ Leads(tasks, TaskHops(k, less), c, d)
          /\ Leads(ds, DeltaHops(less), d, e)
    BY <1>1 DEF WorkerLine
  <2>2. PICK x \in WireId : /\ <<c, x>> \in TaskHops(k, less)[Head(tasks)]
                            /\ Leads(Tail(tasks), TaskHops(k, less), x, d)
    BY <1>3, <2>1, LeadsTail
  <2>3. c <= x
    <3>1. Head(tasks) \in Task
      BY <1>3, TailItems
    <3>2. Forward(TaskHops(k, less), Task)
      BY HopsForward
    <3> QED
      BY <2>2, <3>1, <3>2 DEF Forward
  <2>4. b <= x
    <3>1. \A y \in WireId : y \in Nat
      BY WireAssumption DEF WireId
    <3> QED
      BY <2>1, <2>3, <3>1
  <2>5. WorkerLine(k, less, shown, answers, now, rest, ds, e)
    BY <1>0, <1>3, <2>1, <2>2, <2>4 DEF WorkerLine
  <2> QED
    BY <1>0, <2>5
<1> QED
  BY <1>2, <1>3

\* The first answer of a worker: its bitmaps are of renderings not older than
\* what the tile has shown, nor newer than what is still on its way.
LEMMA AnswerOne ==
  ASSUME NEW k \in Keys, NEW sound \in BOOLEAN, NEW shown \in WireId,
         NEW answers \in Seq(Answered), answers # <<>>, NEW image, NEW tasks, NEW ds, NEW e,
         WorkerLine(k, sound, shown, answers, image, tasks, ds, e)
  PROVE  \E x \in WireId :
           /\ shown <= x
           /\ \A i \in 1..Len(Head(answers).bitmaps[k]) :
                Between(Head(answers).bitmaps[k][i], <<shown, x>>, sound)
           /\ \A s \in WireId : s <= x =>
                WorkerLine(k, sound, s, Tail(answers), image, tasks, ds, e)
<1>1. PICK a \in WireId, b \in WireId, c \in WireId, d \in WireId :
        /\ shown <= a /\ Leads(answers, AnswerHops(k, sound), a, b)
        /\ b <= c /\ (sound => b = c /\ image \in {None, b})
        /\ Leads(tasks, TaskHops(k, sound), c, d)
        /\ Leads(ds, DeltaHops(sound), d, e)
  BY DEF WorkerLine
<1>2. PICK x \in WireId : /\ <<a, x>> \in AnswerHops(k, sound)[Head(answers)]
                          /\ Leads(Tail(answers), AnswerHops(k, sound), x, b)
  BY <1>1, LeadsTail
<1>3. Head(answers) \in Answered
  BY TailItems
<1> DEFINE bms == Head(answers).bitmaps[k]
<1>4. a <= x /\ \A i \in 1..Len(bms) : Between(bms[i], <<a, x>>, sound)
  BY <1>2, <1>3 DEF AnswerHops
<1>5. \A y \in WireId : y \in Nat
  BY WireAssumption DEF WireId
<1>6. bms \in Seq(Image)
  BY <1>3 DEF Answered, Answer
<1>7. ASSUME NEW i \in 1..Len(bms) PROVE Between(bms[i], <<shown, x>>, sound)
  <2>1. bms[i] \in Image
    BY <1>6
  <2>2. bms[i] \in Int
    BY <1>5, <2>1 DEF Image, Broken
  <2>3. Between(bms[i], <<a, x>>, sound)
    BY <1>4
  <2> HIDE DEF bms
  <2> QED
    BY <1>1, <1>5, <2>2, <2>3 DEF Between
<1>8. ASSUME NEW s \in WireId, s <= x
      PROVE  WorkerLine(k, sound, s, Tail(answers), image, tasks, ds, e)
  BY <1>1, <1>2, <1>8 DEF WorkerLine
<1>9. shown <= x
  BY <1>1, <1>4, <1>5
<1> QED
  BY <1>7, <1>8, <1>9

\* The first of the promised bitmaps, of the main thread.
LEMMA PromiseOne ==
  ASSUME NEW k \in Keys, NEW sound \in BOOLEAN, NEW shown \in WireId,
         NEW promises \in Seq([Keys -> Image]), promises # <<>>, NEW image, NEW ds,
         NEW ts, NEW e, MainLine(k, sound, shown, promises, image, ds, ts, e)
  PROVE  \E x \in WireId :
           /\ shown <= x
           /\ \/ Head(promises)[k] = None
              \/ Between(Head(promises)[k], <<shown, x>>, sound)
           /\ \A s \in WireId : s <= x =>
                MainLine(k, sound, s, Tail(promises), image, ds, ts, e)
<1>1. PICK a \in WireId, b \in WireId, c \in WireId :
        /\ shown <= a /\ Leads(promises, PromiseHops(k, sound), a, b)
        /\ b <= c /\ (sound => image \in {None, c})
        /\ Waiting(k, sound, ds, ts, c, e)
  BY DEF MainLine
<1>2. PICK x \in WireId : /\ <<a, x>> \in PromiseHops(k, sound)[Head(promises)]
                          /\ Leads(Tail(promises), PromiseHops(k, sound), x, b)
  BY <1>1, LeadsTail
<1>3. Head(promises) \in [Keys -> Image]
  BY TailItems
<1> DEFINE bm == Head(promises)[k]
<1>4. a <= x /\ (bm = None \/ Between(bm, <<a, x>>, sound))
  BY <1>2, <1>3 DEF PromiseHops
<1>5. \A y \in WireId : y \in Nat
  BY WireAssumption DEF WireId
<1>6. bm \in Int
  <2>1. bm \in Image
    BY <1>3
  <2> QED
    BY <1>5, <2>1 DEF Image, Broken
<1> HIDE DEF bm
<1>7. bm = None \/ Between(bm, <<shown, x>>, sound)
  BY <1>1, <1>4, <1>5, <1>6 DEF Between
<1>8. ASSUME NEW s \in WireId, s <= x
      PROVE  MainLine(k, sound, s, Tail(promises), image, ds, ts, e)
  BY <1>1, <1>2, <1>8 DEF MainLine
<1>9. shown <= x
  BY <1>1, <1>4, <1>5
<1> QED
  BY <1>7, <1>8, <1>9 DEF bm

-----------------------------------------------------------------------------
(* The inductive invariant.                                                *)

\* The renderings of tile k that it has, is sent and has shown, up to R.
Line(k, ts, ds, e) ==
    IF workers # {}
    THEN WorkerLine(k, ~workerError, newest[k], outbox[WorkerOf[k]],
                    workerImages[WorkerOf[k]][k], inbox[WorkerOf[k]], ds, e)
    ELSE MainLine(k, k \notin orphaned, newest[k], bitmapPromises, imageCache[k],
                  ds, ts, e)

AtKey(k, R) ==
    \E e \in WireId :
      e <= R /\ Held(k, tiles, R, e) /\ Line(k, tiles, pendingDeltas[k], e)

KeyOK(k) ==
    \E R \in WireId :
      Stream(k, slurpQueue, toClient, lastSent[k], cache[k].last, R) /\ AtKey(k, R)

\* A tile shows nothing or the newest that it has shown.
ImageOK(k) ==
    k \in DOMAIN tiles =>
      /\ tiles[k].image \in {None, Broken, newest[k]}
      /\ Sound(k) => tiles[k].image # Broken

\* The cache of coolwsd is up to the Kit's last rendering at most.
CacheFit ==
    /\ \A k \in Keys : /\ cache[k].last <= wid
                       /\ cache[k].valid => cache[k].keyframe # 0
    /\ Injective(requested)

\* A worker is asked for its own tiles only.
OwnTask(w) == {t \in Task : \A k \in Keys : WorkerOf[k] # w => t.deltas[k] = <<>>}
OwnAnswer(w) == {a \in Answered : \A k \in Keys : WorkerOf[k] # w => a.deltas[k] = <<>>}
OwnWork ==
    \A w \in Workers :
      /\ inbox[w] \in Seq(OwnTask(w)) /\ outbox[w] \in Seq(OwnAnswer(w))
      /\ \A k \in Keys : WorkerOf[k] # w => workerImages[w][k] = None

\* The main thread decompresses nothing while there are workers, and deltas
\* wait only until the end of the emission.
ModeOK ==
    /\ workers # {} => /\ workers = Workers /\ imageCache = NoBitmaps
                       /\ bitmapPromises = <<>>
    /\ workerError => workers # {}
    /\ ~emitting => pendingDeltas = NoDeltas
    /\ \A k \in Keys : \A i \in 1..Len(pendingDeltas[k]) : pendingDeltas[k][i].wireMessage

ImagesInv == CacheFit /\ OwnWork /\ ModeOK /\ \A k \in Keys : KeyOK(k) /\ ImageOK(k)

\* What is recorded of a step.
Recorded ==
    /\ newest' = [k \in Keys |-> Newest(k, tiles')]
    /\ orphaned' = orphaned \cup Orphans(tiles')

\* A tile that is new, or as it was with less.
Gentle(k, ts, us) ==
    k \in DOMAIN us =>
      \/ \E c \in BOOLEAN : us[k] = NewTile(c)
      \/ k \in DOMAIN ts /\ Lighter(ts[k], us[k]) /\ Milder(ts[k], us[k])

\* The types that the lemmas below need.
LEMMA Types ==
  ASSUME TInv
  PROVE  /\ TilesMap(tiles) /\ pendingDeltas \in [Keys -> Seq(Delta)]
         /\ imageCache \in [Keys -> Image] /\ bitmapPromises \in Seq([Keys -> Image])
         /\ inbox \in [Workers -> Seq(Task)] /\ outbox \in [Workers -> Seq(Answered)]
         /\ workerImages \in [Workers -> [Keys -> Image]]
         /\ workers \subseteq Workers /\ workerError \in BOOLEAN /\ emitting \in BOOLEAN
         /\ newest \in [Keys -> WireId] /\ orphaned \subseteq Keys
         /\ view \subseteq Keys
         /\ toClient \in Seq(ServerMsg)
         /\ slurpQueue \in Seq(TileMsg \cup CanonicalMsg) /\ slurpQueue \in Seq(ServerMsg)
         /\ \A k \in Keys : workers # {} => WorkerOf[k] \in Workers
         /\ \A x \in WireId : x \in Nat
<1>1. slurpQueue \in Seq(TileMsg \cup CanonicalMsg)
  BY DEF TInv, System, SlurpOK
<1>2. slurpQueue \in Seq(ServerMsg)
  <2>1. TileMsg \cup CanonicalMsg \subseteq ServerMsg
    BY DEF ServerMsg
  <2> QED
    BY <1>1, <2>1
<1>3. \A k \in Keys : workers # {} => WorkerOf[k] \in Workers
  <2>1. workers \subseteq Workers
    BY DEF TInv, System, WorkOK
  <2> QED
    BY <2>1, WorkerAssumption
<1>4. \A x \in WireId : x \in Nat
  BY WireAssumption DEF WireId
<1>5. /\ TilesMap(tiles) /\ pendingDeltas \in [Keys -> Seq(Delta)] /\ view \subseteq Keys
  BY DEF TInv, System, ViewOK
<1>6. /\ imageCache \in [Keys -> Image] /\ bitmapPromises \in Seq([Keys -> Image])
      /\ inbox \in [Workers -> Seq(Task)] /\ outbox \in [Workers -> Seq(Answered)]
      /\ workerImages \in [Workers -> [Keys -> Image]]
      /\ workers \subseteq Workers /\ workerError \in BOOLEAN
  BY DEF TInv, System, WorkOK
<1>7. emitting \in BOOLEAN /\ toClient \in Seq(ServerMsg)
  BY DEF TInv, System, SlurpOK, WireOK
<1> QED
  BY <1>1, <1>2, <1>3, <1>4, <1>5, <1>6, <1>7 DEF TInv

\* What a step records of a tile that it gives no new bitmap.
LEMMA QuietHistory ==
  ASSUME TInv, Recorded, NEW k \in Keys, ImageOK(k),
         k \in DOMAIN tiles' =>
           \/ tiles'[k].image = None
           \/ k \in DOMAIN tiles /\ tiles'[k].image = tiles[k].image,
         Sound(k)' => Sound(k) \/ (k \in DOMAIN tiles' => tiles'[k].image = None)
  PROVE  newest'[k] = newest[k] /\ ImageOK(k)'
<1>1. newest[k] \in Nat
  BY Types
<1>2. k \in DOMAIN tiles' => tiles'[k].image \in {None, Broken, newest[k]}
  BY DEF ImageOK
<1>3. newest'[k] = Newest(k, tiles')
  BY DEF Recorded
<1>4. newest'[k] = newest[k]
  <2>1. k \in DOMAIN tiles' => ~(tiles'[k].image > newest[k])
    BY <1>1, <1>2 DEF None, Broken
  <2> QED
    BY <1>3, <2>1 DEF Newest
<1>5. None # Broken
  BY DEF None, Broken
<1>6. ASSUME k \in DOMAIN tiles', Sound(k)' PROVE tiles'[k].image # Broken
  BY <1>5, <1>6 DEF ImageOK
<1> QED
  BY <1>2, <1>4, <1>6 DEF ImageOK

\* What is true of a tile's image when the tile is gentle.
LEMMA GentleImage ==
  ASSUME NEW k, NEW ts, NEW us, Gentle(k, ts, us)
  PROVE  k \in DOMAIN us =>
           \/ us[k].image = None
           \/ k \in DOMAIN ts /\ us[k].image = ts[k].image
<1> SUFFICES ASSUME k \in DOMAIN us
             PROVE  us[k].image = None \/ (k \in DOMAIN ts /\ us[k].image = ts[k].image)
  OBVIOUS
<1>1. CASE \E c \in BOOLEAN : us[k] = NewTile(c)
  BY <1>1 DEF NewTile
<1>2. CASE k \in DOMAIN ts /\ Milder(ts[k], us[k])
  BY <1>2 DEF Milder
<1> QED
  BY <1>1, <1>2 DEF Gentle

\* ... and of what it has.
LEMMA GentleHeld ==
  ASSUME NEW k, NEW ts, NEW us, Gentle(k, ts, us), NEW R, NEW e, Held(k, ts, R, e)
  PROVE  Held(k, us, R, e)
<1> SUFFICES ASSUME k \in DOMAIN us PROVE Fine(us[k], R, e)
  BY DEF Held
<1>1. CASE \E c \in BOOLEAN : us[k] = NewTile(c)
  BY <1>1, NewTileFine
<1>2. CASE k \in DOMAIN ts /\ Lighter(ts[k], us[k])
  BY <1>2, LighterFine DEF Held
<1> QED
  BY <1>1, <1>2 DEF Gentle

\* Nothing waits: a step that takes from the tile, and from the main thread's
\* image, takes nothing from its line.
LEMMA GentleMain ==
  ASSUME NEW k \in Keys, NEW sound, NEW shown, NEW promises,
         NEW image, NEW ts, NEW e, MainLine(k, sound, shown, promises, image, <<>>, ts, e),
         NEW now \in {None, image}, NEW us, Gentle(k, ts, us)
  PROVE  MainLine(k, sound, shown, promises, now, <<>>, us, e)
<1>1. PICK a \in WireId, b \in WireId, c \in WireId :
        /\ shown <= a /\ Leads(promises, PromiseHops(k, sound), a, b)
        /\ b <= c /\ (sound => image \in {None, c})
        /\ Waiting(k, sound, <<>>, ts, c, e)
  BY DEF MainLine
<1>2. /\ Leads(<<>>, DeltaHops(FALSE), c, e)
      /\ \A i \in 1..Len(<<>>) : <<>>[i].ids[2] # 0
      /\ sound /\ k \in DOMAIN ts => (ts[k].lastPendingId # 0 => ts[k].decompressedId # 0)
  BY <1>1 DEF Waiting
<1>3. ASSUME sound, k \in DOMAIN us, us[k].lastPendingId # 0 PROVE us[k].decompressedId # 0
  <2>1. CASE \E x \in BOOLEAN : us[k] = NewTile(x)
    BY <1>3, <2>1 DEF NewTile
  <2>2. CASE k \in DOMAIN ts /\ Lighter(ts[k], us[k]) /\ Milder(ts[k], us[k])
    BY <1>2, <1>3, <2>2 DEF Lighter, Milder
  <2> QED
    BY <1>3, <2>1, <2>2 DEF Gentle
<1>4. Waiting(k, sound, <<>>, us, c, e)
  BY <1>2, <1>3 DEF Waiting
<1> QED
  BY <1>1, <1>4 DEF MainLine

-----------------------------------------------------------------------------
(* Steps that do not decompress.                                           *)

\* The streams of coolwsd stay.
LEMMA SameStream ==
  ASSUME UNCHANGED tileCache, UNCHANGED toClient, UNCHANGED slurpQueue,
         NEW k \in Keys, KeyOK(k), \A R \in WireId : AtKey(k, R) => AtKey(k, R)'
  PROVE  KeyOK(k)'
<1>1. PICK R \in WireId :
        Stream(k, slurpQueue, toClient, lastSent[k], cache[k].last, R) /\ AtKey(k, R)
  BY DEF KeyOK
<1>2. Stream(k, slurpQueue', toClient', lastSent'[k], cache'[k].last, R)
  BY <1>1 DEF tileCache
<1> QED
  BY <1>1, <1>2 DEF KeyOK

\* The rest of coolwsd stays.
LEMMA SameCache ==
  ASSUME CacheFit, UNCHANGED tileCache
  PROVE  CacheFit'
BY DEF CacheFit, tileCache, Injective

\* Between emissions no tile can be orphaned.
LEMMA NoOrphans ==
  ASSUME TInv, ModeOK, ~emitting, Recorded
  PROVE  /\ orphaned' = orphaned
         /\ \A k \in Keys : pendingDeltas[k] = <<>>
<1>1. \A k \in Keys : pendingDeltas[k] = <<>>
  BY DEF ModeOK, NoDeltas
<1>2. Orphans(tiles') = {}
  BY <1>1 DEF Orphans
<1> QED
  BY <1>1, <1>2 DEF Recorded

\* The workers and what is on its way to and from them.
machinery == <<pendingDeltas, workers, inbox, outbox, workerImages, workerError,
               bitmapPromises>>

\* The parts stay that the machinery has.
LEMMA SameWork ==
  ASSUME OwnWork, UNCHANGED <<inbox, outbox, workerImages>>
  PROVE  OwnWork'
BY DEF OwnWork

\* Between emissions, tiles are created, lose something or are removed.
LEMMA GentleKeys ==
  ASSUME TInv, ImagesInv, Recorded, ~emitting, UNCHANGED tileCache,
         UNCHANGED machinery, \A k \in Keys : Gentle(k, tiles, tiles'),
         imageCache' \in [Keys -> Image],
         \A k \in Keys : imageCache'[k] \in {None, imageCache[k]}
  PROVE  /\ CacheFit' /\ OwnWork' /\ ModeOK'
         /\ \A k \in Keys : /\ ImageOK(k)'
                            /\ \A R \in WireId : AtKey(k, R) => AtKey(k, R)'
<1>1. CacheFit'
  BY SameCache DEF ImagesInv
<1>2. OwnWork'
  BY SameWork DEF ImagesInv, machinery
<1>3. ModeOK /\ pendingDeltas' = pendingDeltas /\ pendingDeltas = NoDeltas
  BY DEF ImagesInv, ModeOK, machinery
<1>4. ModeOK'
  <2>1. ASSUME workers' # {} PROVE imageCache' = NoBitmaps
    <3>1. imageCache = NoBitmaps
      BY <1>3, <2>1 DEF ModeOK, machinery
    <3>2. \A k \in Keys : imageCache'[k] = None
      BY <3>1 DEF NoBitmaps
    <3> QED
      BY <3>2 DEF NoBitmaps
  <2> QED
    BY <1>3, <2>1 DEF ModeOK, machinery
<1>5. orphaned' = orphaned /\ \A k \in Keys : pendingDeltas[k] = <<>>
  BY <1>3, NoOrphans
<1>6. ASSUME NEW k \in Keys PROVE newest'[k] = newest[k] /\ ImageOK(k)'
  <2>1. ImageOK(k)
    BY DEF ImagesInv
  <2>2. Sound(k)' => Sound(k)
    BY <1>5 DEF Sound, machinery
  <2>3. k \in DOMAIN tiles' =>
           \/ tiles'[k].image = None
           \/ k \in DOMAIN tiles /\ tiles'[k].image = tiles[k].image
    BY GentleImage
  <2> QED
    BY <2>1, <2>2, <2>3, QuietHistory
<1>7. ASSUME NEW k \in Keys, NEW R \in WireId, AtKey(k, R) PROVE AtKey(k, R)'
  <2>1. PICK e \in WireId :
          e <= R /\ Held(k, tiles, R, e) /\ Line(k, tiles, pendingDeltas[k], e)
    BY <1>7 DEF AtKey
  <2>2. Held(k, tiles', R, e)
    BY <2>1, GentleHeld
  <2>3. CASE workers # {}
    BY <1>6, <2>1, <2>2, <2>3 DEF AtKey, Line, machinery
  <2>4. CASE workers = {}
    <3>1. MainLine(k, k \notin orphaned, newest[k], bitmapPromises, imageCache[k],
                   <<>>, tiles, e)
      BY <1>5, <2>1, <2>4 DEF Line
    <3>2. MainLine(k, k \notin orphaned, newest[k], bitmapPromises, imageCache'[k],
                   <<>>, tiles', e)
      BY <3>1, GentleMain
    <3>3. Line(k, tiles, pendingDeltas[k], e)'
      BY <1>3, <1>5, <1>6, <2>4, <3>2 DEF Line, machinery
    <3> QED
      BY <2>1, <2>2, <3>3 DEF AtKey
  <2> QED
    BY <2>3, <2>4
<1> QED
  BY <1>1, <1>2, <1>4, <1>6, <1>7

\* ... and the streams stay.
LEMMA GentleStep ==
  ASSUME TInv, ImagesInv, Recorded, ~emitting, UNCHANGED tileCache,
         UNCHANGED toClient, UNCHANGED slurpQueue,
         UNCHANGED machinery, \A k \in Keys : Gentle(k, tiles, tiles'),
         imageCache' \in [Keys -> Image],
         \A k \in Keys : imageCache'[k] \in {None, imageCache[k]}
  PROVE  ImagesInv'
<1>1. /\ CacheFit' /\ OwnWork' /\ ModeOK'
      /\ \A k \in Keys : /\ ImageOK(k)'
                         /\ \A R \in WireId : AtKey(k, R) => AtKey(k, R)'
  BY GentleKeys
<1>2. \A k \in Keys : KeyOK(k)'
  BY <1>1, SameStream DEF ImagesInv
<1> QED
  BY <1>1, <1>2 DEF ImagesInv

\* A tile that is as it was is gentle.
LEMMA SameGentle ==
  ASSUME TInv, NEW k \in DOMAIN tiles
  PROVE  Lighter(tiles[k], tiles[k]) /\ Milder(tiles[k], tiles[k])
<1>1. tiles[k] \in Tile
  BY Types DEF TilesMap
<1>2. Lighter(tiles[k], tiles[k])
  BY <1>1, SameRaw
<1> QED
  BY <1>2 DEF Milder

\* Less of what has less.
LEMMA LighterTrans ==
  ASSUME NEW t, NEW v, NEW u, Lighter(t, v), Milder(t, v), Lighter(v, u), Milder(v, u)
  PROVE  Lighter(t, u) /\ Milder(t, u)
<1>1. PICK r \in 0..Len(t.rawDeltas) :
        /\ Len(v.rawDeltas) = Len(t.rawDeltas) - r
        /\ \A i \in 1..Len(v.rawDeltas) : v.rawDeltas[i] = t.rawDeltas[i + r]
        /\ r # 0 /\ r # Len(t.rawDeltas) => t.rawDeltas[r + 1].isKeyframe
  BY DEF Lighter
<1>2. PICK s \in 0..Len(v.rawDeltas) :
        /\ Len(u.rawDeltas) = Len(v.rawDeltas) - s
        /\ \A i \in 1..Len(u.rawDeltas) : u.rawDeltas[i] = v.rawDeltas[i + s]
        /\ s # 0 /\ s # Len(v.rawDeltas) => v.rawDeltas[s + 1].isKeyframe
  BY DEF Lighter
<1>3. /\ t \in Tile /\ v \in Tile /\ u \in Tile
      /\ u.deltaId = t.deltaId /\ u.lastPendingId \in {0, t.lastPendingId}
  BY DEF Lighter
<1> DEFINE n == Len(t.rawDeltas)
           m == Len(v.rawDeltas)
           l == Len(u.rawDeltas)
<1>4. n \in Nat /\ m \in Nat /\ l \in Nat
  BY <1>3 DEF Tile
<1>5. m = n - r /\ l = m - s /\ r \in 0..n /\ s \in 0..m
  BY <1>1, <1>2
<1>6. \A i \in 1..m : v.rawDeltas[i] = t.rawDeltas[i + r]
  BY <1>1
<1>7. \A i \in 1..l : u.rawDeltas[i] = v.rawDeltas[i + s]
  BY <1>2
<1>8. r # 0 /\ r # n => t.rawDeltas[r + 1].isKeyframe
  BY <1>1
<1>9. s # 0 /\ s # m => v.rawDeltas[s + 1].isKeyframe
  BY <1>2
<1> HIDE DEF n, m, l
<1>10. r + s \in 0..n /\ l = n - (r + s)
  BY <1>4, <1>5
<1>11. ASSUME NEW i \in 1..l PROVE u.rawDeltas[i] = t.rawDeltas[i + (r + s)]
  <2>1. i + s \in 1..m /\ (i + s) + r = i + (r + s)
    BY <1>4, <1>5
  <2> QED
    BY <1>6, <1>7, <2>1
<1>12. ASSUME r + s # 0, r + s # n PROVE t.rawDeltas[(r + s) + 1].isKeyframe
  <2>1. CASE s = 0
    <3>1. r # 0 /\ r # n /\ (r + s) + 1 = r + 1
      BY <1>4, <1>5, <1>12, <2>1
    <3> QED
      BY <1>8, <3>1
  <2>2. CASE s # 0
    <3>1. s # m /\ s + 1 \in 1..m /\ (s + 1) + r = (r + s) + 1
      BY <1>4, <1>5, <1>12, <2>2
    <3> QED
      BY <1>6, <1>9, <2>2, <3>1
  <2> QED
    BY <2>1, <2>2
<1>13. Lighter(t, u)
  BY <1>3, <1>10, <1>11, <1>12 DEF Lighter, n, l
<1>14. Milder(t, u)
  BY DEF Milder, Lighter
<1> QED
  BY <1>13, <1>14

\* setDistance changes only how near a tile is.
LEMMA DistancesGentle ==
  ASSUME NEW ts, TilesMap(ts), NEW shown, NEW k \in DOMAIN ts
  PROVE  /\ k \in DOMAIN Distances(ts, shown)
         /\ Lighter(ts[k], Distances(ts, shown)[k])
         /\ Milder(ts[k], Distances(ts, shown)[k])
         /\ Distances(ts, shown)[k].rawDeltas = ts[k].rawDeltas
         /\ Distances(ts, shown)[k].decompressedId = ts[k].decompressedId
         /\ Distances(ts, shown)[k].lastPendingId = ts[k].lastPendingId
         /\ Distances(ts, shown)[k].image = ts[k].image
<1> DEFINE c == (k \in shown)
<1>1. c \in BOOLEAN
  OBVIOUS
<1>2. Distances(ts, shown)[k] = [ts[k] EXCEPT !.current = c] /\ k \in DOMAIN Distances(ts, shown)
  BY DEF Distances
<1> HIDE DEF c
<1>3. ts[k] \in Tile
  BY DEF TilesMap
<1>4. PICK t \in Tile : t = ts[k]
  BY <1>3
<1>5. PICK u : u = [t EXCEPT !.current = c]
  OBVIOUS
<1>6. /\ u \in Tile /\ u.rawDeltas = t.rawDeltas /\ u.deltaId = t.deltaId
      /\ u.lastPendingId = t.lastPendingId /\ u.decompressedId = t.decompressedId
      /\ u.image = t.image
  BY <1>1, <1>5 DEF Tile
<1>7. Lighter(t, u)
  BY <1>6, SameRaw
<1>8. Milder(t, u)
  BY <1>6 DEF Milder
<1> QED
  BY <1>2, <1>4, <1>5, <1>6, <1>7, <1>8

\* preFetchTiles creates tiles.
LEMMA PreFetchImages ==
  ASSUME TInv, ImagesInv, Recorded, PreFetch
  PROVE  ImagesInv'
<1>1. PICK S \in SUBSET Keys : PreFetchTiles(S) /\ UNCHANGED tileCache
  BY DEF PreFetch
<1>2. ASSUME NEW k \in Keys PROVE Gentle(k, tiles, tiles')
  <2>1. CASE k \in DOMAIN tiles
    <3>1. tiles'[k] = tiles[k]
      BY <1>1, <2>1 DEF PreFetchTiles
    <3> QED
      BY <2>1, <3>1, SameGentle DEF Gentle
  <2>2. CASE k \notin DOMAIN tiles
    <3>1. k \in DOMAIN tiles' => tiles'[k] = NewTile(k \in view)
      BY <1>1, <2>2 DEF PreFetchTiles
    <3>2. (k \in view) \in BOOLEAN
      OBVIOUS
    <3> QED
      BY <3>1, <3>2 DEF Gentle
  <2> QED
    BY <2>1, <2>2
<1>3. /\ ~emitting /\ UNCHANGED toClient /\ UNCHANGED slurpQueue /\ UNCHANGED machinery
      /\ imageCache' = imageCache
  BY <1>1 DEF PreFetchTiles, wire, slurping, working, machinery
<1>4. imageCache \in [Keys -> Image]
  BY Types
<1> QED
  BY <1>1, <1>2, <1>3, <1>4, GentleStep

\* flushPendingTileCombineQueue marks tiles as requested.
LEMMA FlushImages ==
  ASSUME TInv, ImagesInv, Recorded, Flush
  PROVE  ImagesInv'
<1>1. PICK added : tiles' = [k \in DOMAIN tiles |->
                     [tiles[k] EXCEPT !.requested = @ \/ k \in added]]
  BY DEF Flush, FlushPendingTileCombineQueue
<1>2. ASSUME NEW k \in Keys PROVE Gentle(k, tiles, tiles')
  <2> SUFFICES ASSUME k \in DOMAIN tiles'
               PROVE  k \in DOMAIN tiles /\ Lighter(tiles[k], tiles'[k])
                        /\ Milder(tiles[k], tiles'[k])
    BY DEF Gentle
  <2>1. k \in DOMAIN tiles
    BY <1>1
  <2>2. PICK t \in Tile : t = tiles[k]
    BY <2>1, Types DEF TilesMap
  <2>3. PICK b \in BOOLEAN : b = (t.requested \/ k \in added)
    OBVIOUS
  <2>4. PICK u : u = [t EXCEPT !.requested = b]
    OBVIOUS
  <2>5. tiles'[k] = u
    BY <1>1, <2>1, <2>2, <2>3, <2>4
  <2>6. /\ u \in Tile /\ u.rawDeltas = t.rawDeltas /\ u.deltaId = t.deltaId
        /\ u.lastPendingId = t.lastPendingId /\ u.decompressedId = t.decompressedId
        /\ u.image = t.image
    BY <2>4 DEF Tile
  <2>7. Lighter(t, u)
    BY <2>6, SameRaw
  <2>8. Milder(t, u)
    BY <2>6 DEF Milder
  <2> QED
    BY <2>1, <2>2, <2>5, <2>7, <2>8
<1>3. /\ ~emitting /\ UNCHANGED toClient /\ UNCHANGED slurpQueue /\ UNCHANGED machinery
      /\ imageCache' = imageCache /\ UNCHANGED tileCache
  BY DEF Flush, FlushPendingTileCombineQueue, slurping, working, machinery
<1>4. imageCache \in [Keys -> Image]
  BY Types
<1> QED
  BY <1>2, <1>3, <1>4, GentleStep

\* The slurp timer touches no tile.
LEMMA TimerImages ==
  ASSUME TInv, ImagesInv, Recorded, Timer
  PROVE  ImagesInv'
<1>1. /\ ~emitting /\ UNCHANGED toClient /\ UNCHANGED slurpQueue /\ UNCHANGED machinery
      /\ imageCache' = imageCache /\ UNCHANGED tileCache /\ tiles' = tiles
  BY DEF Timer, SlurpTimer, wire, working, machinery
<1>2. \A k \in Keys : Gentle(k, tiles, tiles')
  BY <1>1, SameGentle DEF Gentle
<1>3. imageCache \in [Keys -> Image]
  BY Types
<1> QED
  BY <1>1, <1>2, <1>3, GentleStep

\* The images that go with the bitmaps are forgotten, and no others.
LEMMA ForgetLess ==
  ASSUME TInv, NEW ts, NEW S
  PROVE  /\ ForgetImages(ts, S) \in [Keys -> Image]
         /\ \A k \in Keys : ForgetImages(ts, S)[k] \in {None, imageCache[k]}
<1>1. ForgetImages(ts, S) \in [Keys -> Image]
  BY Types, ForgetImagesType
<1> QED
  BY <1>1 DEF ForgetImages

\* _onDocumentBlur gives up the bitmaps.
LEMMA BlurImages ==
  ASSUME TInv, ImagesInv, Recorded, Blur
  PROVE  ImagesInv'
<1> DEFINE near == Distances(tiles, view)
<1>1. PICK fate \in Fates(near) : /\ OnDocumentBlur(fate) /\ fate = KeepAll
                                  /\ UNCHANGED tileCache
  BY DEF Blur
<1> DEFINE pruned == GarbageCollect(near, fate)
<1>2. /\ tiles' = [k \in DOMAIN pruned |-> Reclaimed(pruned[k])]
      /\ imageCache' = ForgetImages(near, Keys)
      /\ ~emitting /\ UNCHANGED toClient /\ UNCHANGED slurpQueue /\ UNCHANGED machinery
  BY <1>1 DEF OnDocumentBlur, wire, slurping, machinery
<1>3. TilesMap(tiles) /\ TilesMap(near) /\ DOMAIN near = DOMAIN tiles
  BY Types, DistancesType
<1>4. fate \in [Keys -> Fate] /\ \A k \in Keys : fate[k] = "keep"
  BY <1>1 DEF Fates, KeepAll
<1>5. ASSUME NEW k \in Keys PROVE Gentle(k, tiles, tiles')
  <2> SUFFICES ASSUME k \in DOMAIN tiles'
               PROVE  k \in DOMAIN tiles /\ Lighter(tiles[k], tiles'[k])
                        /\ Milder(tiles[k], tiles'[k])
    BY DEF Gentle
  <2>1. k \in DOMAIN pruned /\ tiles'[k] = Reclaimed(pruned[k])
    BY <1>2
  <2>2. k \in DOMAIN near /\ pruned[k] = near[k]
    BY <1>3, <1>4, <2>1, CollectedLighter
  <2>3. k \in DOMAIN tiles /\ near[k] \in Tile
    BY <1>3, <2>2 DEF TilesMap
  <2>4. Lighter(tiles[k], near[k]) /\ Milder(tiles[k], near[k])
    BY <1>3, <2>3, DistancesGentle
  <2> HIDE DEF near, pruned
  <2>5. Lighter(near[k], tiles'[k]) /\ Milder(near[k], tiles'[k])
    BY <2>1, <2>2, <2>3, ReclaimedLighter DEF Milder
  <2> QED
    BY <2>3, <2>4, <2>5, LighterTrans
<1>6. /\ imageCache' \in [Keys -> Image]
      /\ \A k \in Keys : imageCache'[k] \in {None, imageCache[k]}
  BY <1>2, ForgetLess
<1> HIDE DEF near, pruned
<1> QED
  BY <1>1, <1>2, <1>5, <1>6, GentleStep

\* A message arrives: it waits in the slurp queue, or invalidates a tile.
LEMMA SlurpImages ==
  ASSUME TInv, ImagesInv, Recorded, Slurp
  PROVE  ImagesInv'
<1> DEFINE m == Head(toClient)
<1>1. /\ ~emitting /\ toClient # <<>> /\ toClient' = Tail(toClient)
      /\ IF m.type = "invalidatetiles"
         THEN tiles' = InvalidateTile(m.key, m.wid) /\ UNCHANGED slurpQueue
         ELSE slurpQueue' = Append(slurpQueue, m) /\ UNCHANGED tiles
      /\ UNCHANGED machinery /\ imageCache' = imageCache /\ UNCHANGED tileCache
  BY DEF Slurp, SlurpMessage, working, machinery
<1>2. /\ toClient \in Seq(ServerMsg) /\ slurpQueue \in Seq(ServerMsg)
      /\ imageCache \in [Keys -> Image]
  BY Types
<1>3. m \in ServerMsg
  BY <1>1, <1>2, TailItems
<1> HIDE DEF m
<1>4. m.type = "invalidatetiles" => m.wid \in WireId /\ m.type # "tile"
  BY <1>3 DEF ServerMsg, TileMsg, InvalidateMsg, CanonicalMsg
<1>5. ASSUME NEW k \in Keys PROVE Gentle(k, tiles, tiles')
  <2>1. CASE k \in DOMAIN tiles' /\ k \in DOMAIN tiles /\ tiles'[k] = tiles[k]
    BY <2>1, SameGentle DEF Gentle
  <2>2. CASE m.type = "invalidatetiles" /\ k \in DOMAIN tiles' /\ tiles'[k] # tiles[k]
    <3>1. k \in DOMAIN tiles /\ tiles'[k] = Invalidated(tiles[k], m.wid)
      BY <1>1, <2>2 DEF InvalidateTile
    <3>2. tiles[k] \in Tile
      BY <3>1, Types DEF TilesMap
    <3>3. PICK w \in WireId : tiles'[k] = ForceKeyframe(tiles[k], w)
      <4>1. tiles[k].wireId \in WireId
        BY <3>2 DEF Tile
      <4> QED
        BY <1>4, <2>2, <3>1, <4>1 DEF Invalidated
    <3> QED
      BY <3>1, <3>2, <3>3, ForcedLighter DEF Gentle
  <2>3. CASE k \notin DOMAIN tiles'
    BY <2>3 DEF Gentle
  <2>4. m.type = "invalidatetiles" => DOMAIN tiles' \subseteq DOMAIN tiles
    BY <1>1 DEF InvalidateTile
  <2> QED
    BY <1>1, <2>1, <2>2, <2>3, <2>4
<1>6. /\ CacheFit' /\ OwnWork' /\ ModeOK'
      /\ \A k \in Keys : /\ ImageOK(k)'
                         /\ \A R \in WireId : AtKey(k, R) => AtKey(k, R)'
  BY <1>1, <1>2, <1>5, GentleKeys
<1>7. ASSUME NEW k \in Keys PROVE KeyOK(k)'
  <2>1. PICK R \in WireId :
          Stream(k, slurpQueue, toClient, lastSent[k], cache[k].last, R) /\ AtKey(k, R)
    BY DEF ImagesInv, KeyOK
  <2>2. PICK M \in WireId, G \in WireId :
          /\ Leads(slurpQueue, MsgHops(k), R, M)
          /\ Leads(toClient, MsgHops(k), M, G)
          /\ lastSent[k] \in {0, G} /\ G <= cache[k].last
    BY <2>1 DEF Stream
  <2>3. PICK N \in WireId : <<M, N>> \in MsgHops(k)[m] /\ Leads(Tail(toClient), MsgHops(k), N, G)
    BY <1>1, <1>2, <2>2, LeadsTail DEF m
  <2>4. Leads(slurpQueue', MsgHops(k), R, N)
    <3>1. CASE m.type = "invalidatetiles"
      <4>1. M = N
        BY <1>3, <1>4, <2>3, <3>1, OtherMsgOnly
      <4> QED
        BY <1>1, <2>2, <3>1, <4>1
    <3>2. CASE m.type # "invalidatetiles"
      <4>1. Leads(Append(slurpQueue, m), MsgHops(k), R, N)
        BY <1>2, <1>3, <2>2, <2>3, LeadsAppend
      <4> QED
        BY <1>1, <3>2, <4>1
    <3> QED
      BY <3>1, <3>2
  <2>5. Stream(k, slurpQueue', toClient', lastSent'[k], cache'[k].last, R)
    BY <1>1, <2>2, <2>3, <2>4 DEF Stream, tileCache
  <2> QED
    BY <1>6, <2>1, <2>5 DEF KeyOK
<1> QED
  BY <1>6, <1>7 DEF ImagesInv

-----------------------------------------------------------------------------
(* Steps of coolwsd and the Kit.                                           *)

\* They leave the browser alone, and continue the stream of each tile.
LEMMA ServerImages ==
  ASSUME TInv, ImagesInv, Recorded, UNCHANGED browser, CacheFit',
         \A k \in Keys : \A M, G \in WireId :
           /\ Leads(toClient, MsgHops(k), M, G)
           /\ lastSent[k] \in {0, G} /\ G <= cache[k].last
           => \E N \in WireId :
                /\ Leads(toClient', MsgHops(k), M, N)
                /\ lastSent'[k] \in {0, N} /\ N <= cache'[k].last
  PROVE  ImagesInv'
<1>1. /\ UNCHANGED machinery /\ UNCHANGED slurpQueue /\ UNCHANGED emitting
      /\ tiles' = tiles /\ imageCache' = imageCache
  BY DEF browser, machinery, slurping, working
<1>2. OwnWork' /\ ModeOK'
  BY <1>1 DEF ImagesInv, OwnWork, ModeOK, machinery
<1>3. ASSUME NEW k \in Keys
      PROVE /\ newest'[k] = newest[k] /\ ImageOK(k)'
            /\ \A R \in WireId : AtKey(k, R) => AtKey(k, R)'
  <2>1. newest'[k] = newest[k] /\ ImageOK(k)'
    <3>1. Sound(k)' => Sound(k)
      BY <1>1 DEF Sound, machinery, Recorded
    <3> QED
      BY <1>1, <3>1, QuietHistory DEF ImagesInv
  <2>2. ASSUME NEW R \in WireId, AtKey(k, R) PROVE AtKey(k, R)'
    <3>1. PICK e \in WireId :
            e <= R /\ Held(k, tiles, R, e) /\ Line(k, tiles, pendingDeltas[k], e)
      BY <2>2 DEF AtKey
    <3>2. CASE workers # {}
      BY <1>1, <2>1, <3>1, <3>2 DEF AtKey, Line, machinery
    <3>3. CASE workers = {}
      <4>1. PICK less \in BOOLEAN, sound \in BOOLEAN :
              less = (k \notin orphaned') /\ sound = (k \notin orphaned)
        OBVIOUS
      <4>2. less => sound
        BY <4>1 DEF Recorded
      <4>3. MainLine(k, sound, newest[k], bitmapPromises, imageCache[k],
                     pendingDeltas[k], tiles, e)
        BY <3>1, <3>3, <4>1 DEF Line
      <4>4. MainLine(k, less, newest[k], bitmapPromises, imageCache[k],
                     pendingDeltas[k], tiles, e)
        BY <4>2, <4>3, MainLoose, Types
      <4>5. Line(k, tiles, pendingDeltas[k], e)'
        BY <1>1, <2>1, <3>3, <4>1, <4>4 DEF Line, machinery
      <4> QED
        BY <1>1, <3>1, <4>5 DEF AtKey
    <3> QED
      BY <3>2, <3>3
  <2> QED
    BY <2>1, <2>2
<1>4. ASSUME NEW k \in Keys PROVE KeyOK(k)'
  <2>1. PICK R \in WireId :
          Stream(k, slurpQueue, toClient, lastSent[k], cache[k].last, R) /\ AtKey(k, R)
    BY DEF ImagesInv, KeyOK
  <2>2. PICK M \in WireId, G \in WireId :
          /\ Leads(slurpQueue, MsgHops(k), R, M)
          /\ Leads(toClient, MsgHops(k), M, G)
          /\ lastSent[k] \in {0, G} /\ G <= cache[k].last
    BY <2>1 DEF Stream
  <2>3. PICK N \in WireId :
          /\ Leads(toClient', MsgHops(k), M, N)
          /\ lastSent'[k] \in {0, N} /\ N <= cache'[k].last
    BY <2>2
  <2>4. Stream(k, slurpQueue', toClient', lastSent'[k], cache'[k].last, R)
    BY <1>1, <2>2, <2>3 DEF Stream
  <2> QED
    BY <1>3, <2>1, <2>4 DEF KeyOK
<1> QED
  BY <1>2, <1>3, <1>4 DEF ImagesInv

\* sendRequestedTiles continues the streams.
LEMMA SendImages ==
  ASSUME TInv, ImagesInv, Recorded, UNCHANGED browser, UNCHANGED wid,
         NEW data, NEW queue, NEW fly, NEW n, NEW sent, NEW subscribed, NEW before,
         SendInput(data, queue, fly, n, sent, subscribed, before),
         SendRequestedTiles(data, queue, fly, n, sent, subscribed, before),
         Injective(queue), cache' = data,
         \A k \in Keys : /\ data[k].last = cache[k].last
                         /\ data[k].keyframe = cache[k].keyframe
                         /\ data[k].valid => cache[k].valid
                         /\ sent[k] \in {0, lastSent[k]},
         \/ before = toClient
         \/ \E m \in ServerMsg : m.type # "tile" /\ before = Append(toClient, m)
  PROVE  ImagesInv'
<1>1. \A k \in Keys : cache[k].last <= wid /\ (cache[k].valid => cache[k].keyframe # 0)
  BY DEF ImagesInv, CacheFit
<1>2. \A k \in Keys : data[k].valid => data[k].keyframe # 0
  BY <1>1
<1>3. /\ Injective(requested')
      /\ \A k \in Keys : \A M, G \in WireId :
           /\ Leads(before, MsgHops(k), M, G)
           /\ sent[k] \in {0, G} /\ G <= data[k].last
           => \E N \in WireId :
                /\ Leads(toClient', MsgHops(k), M, N)
                /\ lastSent'[k] \in {0, N} /\ N <= data[k].last
  BY <1>2, SendStream
<1>4. CacheFit'
  BY <1>1, <1>2, <1>3 DEF CacheFit
<1>5. toClient \in Seq(ServerMsg)
  BY Types
<1>6. ASSUME NEW k \in Keys, NEW M \in WireId, NEW G \in WireId,
             Leads(toClient, MsgHops(k), M, G), lastSent[k] \in {0, G}, G <= cache[k].last
      PROVE  \E N \in WireId :
               /\ Leads(toClient', MsgHops(k), M, N)
               /\ lastSent'[k] \in {0, N} /\ N <= cache'[k].last
  <2>1. Leads(before, MsgHops(k), M, G)
    <3>1. CASE before = toClient
      BY <1>6, <3>1
    <3>2. CASE \E m \in ServerMsg : m.type # "tile" /\ before = Append(toClient, m)
      <4>1. PICK m \in ServerMsg : m.type # "tile" /\ before = Append(toClient, m)
        BY <3>2
      <4>2. <<G, G>> \in MsgHops(k)[m]
        BY <4>1, OtherMsg
      <4>3. Leads(Append(toClient, m), MsgHops(k), M, G)
        BY <1>5, <1>6, <4>2, LeadsAppend
      <4> QED
        BY <4>1, <4>3
    <3> QED
      BY <3>1, <3>2
  <2>2. sent[k] \in {0, G} /\ G <= data[k].last
    BY <1>6
  <2> QED
    BY <1>3, <2>1, <2>2
<1> QED
  BY <1>4, <1>6, ServerImages

\* handleTileInvalidation.
LEMMA EditImages ==
  ASSUME TInv, ImagesInv, Recorded, Edit
  PROVE  ImagesInv'
<1>1. PICK k \in Keys, n \in 0..Len(onFly) :
        HandleTileInvalidation(k, n) /\ UNCHANGED browser
  BY DEF Edit
<1> DEFINE data == [cache EXCEPT ![k].valid = FALSE]
           seen == {k} \cap visibleArea
           msg == Invalidatetiles(k, wid)
           before == Append(toClient, msg)
<1>2. /\ cache' = data
      /\ IF seen # {}
         THEN SendRequestedTiles(data, Enqueue(requested, seen), onFly, n, lastSent,
                                 rendering \cup seen, before)
         ELSE toClient' = before /\ UNCHANGED <<requested, rendering, onFly, lastSent>>
      /\ UNCHANGED wid
  BY <1>1 DEF HandleTileInvalidation
<1>3. /\ wid \in WireId /\ cache \in [Keys -> TileData]
      /\ lastSent \in [Keys -> WireId] /\ rendering \subseteq Keys
      /\ requested \in Seq(Keys) /\ onFly \in Seq(WireId) /\ visibleArea \subseteq Keys
  BY DEF TInv, System, CacheTypeOK
<1>4. /\ data \in [Keys -> TileData]
      /\ \A x \in Keys : /\ data[x].last = cache[x].last
                         /\ data[x].keyframe = cache[x].keyframe
                         /\ data[x].valid => cache[x].valid
  <2>1. /\ [cache[k] EXCEPT !.valid = FALSE] \in TileData
        /\ [cache[k] EXCEPT !.valid = FALSE].last = cache[k].last
        /\ [cache[k] EXCEPT !.valid = FALSE].keyframe = cache[k].keyframe
        /\ ~[cache[k] EXCEPT !.valid = FALSE].valid
    BY <1>3 DEF TileData
  <2> QED
    BY <1>3, <2>1
<1>5. toClient \in Seq(ServerMsg)
  BY Types
<1>6. msg \in ServerMsg /\ msg.type # "tile"
  BY <1>3, ServerMessages DEF Invalidatetiles
<1> HIDE DEF data, msg
<1>7. before \in Seq(ServerMsg)
  BY <1>5, <1>6, AppendItems
<1>8. CASE seen # {}
  <2>1. seen \in SUBSET Keys /\ rendering \cup seen \in SUBSET Keys
    BY <1>3
  <2>2. SendRequestedTiles(data, Enqueue(requested, seen), onFly, n, lastSent,
                           rendering \cup seen, before)
    BY <1>2, <1>8
  <2> HIDE DEF seen
  <2>3. Enqueue(requested, seen) \in Seq(Keys) /\ Injective(Enqueue(requested, seen))
    BY <1>3, <2>1, EnqueueType, EnqueueInjective DEF ImagesInv, CacheFit
  <2>4. SendInput(data, Enqueue(requested, seen), onFly, n, lastSent,
                  rendering \cup seen, before)
    BY <1>3, <1>4, <1>7, <2>1, <2>3 DEF SendInput
  <2>5. \A x \in Keys : lastSent[x] \in {0, lastSent[x]}
    OBVIOUS
  <2>6. \E m \in ServerMsg : m.type # "tile" /\ before = Append(toClient, m)
    BY <1>6
  <2> HIDE DEF before
  <2> QED
    BY <1>1, <1>2, <1>4, <2>2, <2>3, <2>4, <2>5, <2>6, SendImages
<1>9. CASE seen = {}
  <2>1. toClient' = before /\ requested' = requested /\ lastSent' = lastSent
    BY <1>2, <1>9
  <2>2. CacheFit'
    BY <1>2, <1>4, <2>1 DEF ImagesInv, CacheFit
  <2>3. ASSUME NEW x \in Keys, NEW M \in WireId, NEW G \in WireId,
               Leads(toClient, MsgHops(x), M, G), lastSent[x] \in {0, G}, G <= cache[x].last
        PROVE  \E N \in WireId :
                 /\ Leads(toClient', MsgHops(x), M, N)
                 /\ lastSent'[x] \in {0, N} /\ N <= cache'[x].last
    <3>1. <<G, G>> \in MsgHops(x)[msg]
      BY <1>6, OtherMsg
    <3>2. Leads(Append(toClient, msg), MsgHops(x), M, G)
      BY <1>5, <1>6, <2>3, <3>1, LeadsAppend
    <3> QED
      BY <1>2, <1>4, <2>1, <2>3, <3>2
  <2> QED
    BY <1>1, <2>2, <2>3, ServerImages
<1> QED
  BY <1>8, <1>9

\* The Kit's canonicalidchange.
LEMMA CanonicalIdChangeImages ==
  ASSUME TInv, ImagesInv, Recorded, CanonicalIdChange
  PROVE  ImagesInv'
<1>1. /\ toClient' = Append(toClient, Canonicalidchange)
      /\ UNCHANGED browser /\ UNCHANGED tileCache
  BY DEF CanonicalIdChange
<1>2. CacheFit'
  BY <1>1, SameCache DEF ImagesInv
<1>3. Canonicalidchange \in ServerMsg /\ Canonicalidchange.type # "tile"
  BY ServerMessages DEF Canonicalidchange
<1>4. ASSUME NEW x \in Keys, NEW M \in WireId, NEW G \in WireId,
             Leads(toClient, MsgHops(x), M, G), lastSent[x] \in {0, G}, G <= cache[x].last
      PROVE  \E N \in WireId :
               /\ Leads(toClient', MsgHops(x), M, N)
               /\ lastSent'[x] \in {0, N} /\ N <= cache'[x].last
  <2>1. <<G, G>> \in MsgHops(x)[Canonicalidchange]
    BY <1>3, OtherMsg
  <2>2. toClient \in Seq(ServerMsg)
    BY Types
  <2>3. Leads(Append(toClient, Canonicalidchange), MsgHops(x), M, G)
    BY <1>3, <1>4, <2>1, <2>2, LeadsAppend
  <2> QED
    BY <1>1, <1>4, <2>3 DEF tileCache
<1> QED
  BY <1>1, <1>2, <1>4, ServerImages

\* handleTileCombinedRequest.
LEMMA RequestImages ==
  ASSUME TInv, ImagesInv, Recorded, Request
  PROVE  ImagesInv'
<1> DEFINE m == Head(toServer)
           queue == Enqueue(requested, m.keys)
           sent == [k \in Keys |-> IF k \in m.keys /\ m.oldwid[k] = 0
                                   THEN 0 ELSE lastSent[k]]
           subscribed == rendering \cup {k \in m.keys : ~cache[k].valid}
<1>1. PICK n \in 0..Len(onFly) :
      /\ toServer # <<>> /\ m.type = "tilecombine"
      /\ SendRequestedTiles(cache, queue, onFly, n, sent, subscribed, toClient)
      /\ UNCHANGED wid /\ cache' = cache /\ UNCHANGED browser
  BY DEF Request, HandleTileCombinedRequest
<1>2. m \in ClientMsg
  BY <1>1, HeadCounted DEF TInv
<1>3. m.keys \in SUBSET Keys
  BY <1>1, <1>2 DEF ClientMsg, TileCombineMsg, ProcessedMsg, VisibleAreaMsg
<1>4. /\ cache \in [Keys -> TileData] /\ lastSent \in [Keys -> WireId]
      /\ rendering \subseteq Keys /\ requested \in Seq(Keys) /\ onFly \in Seq(WireId)
      /\ toClient \in Seq(ServerMsg) /\ 0 \in WireId
  BY WireAssumption DEF TInv, System, CacheTypeOK, WireOK, WireId
<1> HIDE DEF m
<1>5. queue \in Seq(Keys) /\ Injective(queue)
  BY <1>3, <1>4, EnqueueType, EnqueueInjective DEF ImagesInv, CacheFit
<1>6. sent \in [Keys -> WireId] /\ \A k \in Keys : sent[k] \in {0, lastSent[k]}
  BY <1>4
<1>7. subscribed \subseteq Keys
  BY <1>3, <1>4
<1> HIDE DEF queue, sent, subscribed
<1>8. SendInput(cache, queue, onFly, n, sent, subscribed, toClient)
  BY <1>4, <1>5, <1>6, <1>7 DEF SendInput
<1> QED
  BY <1>1, <1>5, <1>6, <1>8, SendImages

\* tileprocessed.
LEMMA ProcessedImages ==
  ASSUME TInv, ImagesInv, Recorded, Processed
  PROVE  ImagesInv'
<1> DEFINE left == OnTileProcessed(onFly, Head(toServer).wids)
<1>1. PICK n \in 0..Len(onFly) :
      /\ SendRequestedTiles(cache, requested, left, n, lastSent, rendering, toClient)
      /\ UNCHANGED wid /\ cache' = cache /\ UNCHANGED browser
  BY DEF Processed, HandleTileProcessed
<1>2. /\ cache \in [Keys -> TileData] /\ lastSent \in [Keys -> WireId]
      /\ rendering \subseteq Keys /\ requested \in Seq(Keys) /\ onFly \in Seq(WireId)
      /\ toClient \in Seq(ServerMsg)
  BY DEF TInv, System, CacheTypeOK, WireOK
<1>3. left \in Seq(WireId)
  <2>1. {i \in 1..Len(onFly) :
           Cardinality({j \in PlacesOf(onFly, onFly[i]) : j <= i})
             > Cardinality(PlacesOf(Head(toServer).wids, onFly[i]))}
          \in SUBSET (1..Len(onFly))
    OBVIOUS
  <2> QED
    BY <1>2, <2>1, InTurnType DEF OnTileProcessed
<1> HIDE DEF left
<1>4. SendInput(cache, requested, left, n, lastSent, rendering, toClient)
  BY <1>2, <1>3 DEF SendInput
<1>5. Injective(requested) /\ \A k \in Keys : lastSent[k] \in {0, lastSent[k]}
  BY DEF ImagesInv, CacheFit
<1> QED
  BY <1>1, <1>4, <1>5, SendImages

\* clientvisiblearea.
LEMMA VisibleAreaImages ==
  ASSUME TInv, ImagesInv, Recorded, VisibleArea
  PROVE  ImagesInv'
<1>1. /\ UNCHANGED browser /\ UNCHANGED <<toClient, wid, cache, lastSent, requested>>
  BY DEF VisibleArea, HandleClientVisibleArea
<1>2. CacheFit'
  BY <1>1 DEF ImagesInv, CacheFit
<1>3. \A k \in Keys : \A M, G \in WireId :
        /\ Leads(toClient, MsgHops(k), M, G)
        /\ lastSent[k] \in {0, G} /\ G <= cache[k].last
        => \E N \in WireId :
             /\ Leads(toClient', MsgHops(k), M, N)
             /\ lastSent'[k] \in {0, N} /\ N <= cache'[k].last
  BY <1>1
<1> QED
  BY <1>1, <1>2, <1>3, ServerImages

\* saveTileAndNotify.
LEMMA RenderImages ==
  ASSUME TInv, ImagesInv, Recorded, NEW k \in Keys, Render(k)
  PROVE  ImagesInv'
<1>1. PICK isKeyframe \in BOOLEAN : SaveTileAndNotify(k, isKeyframe) /\ UNCHANGED browser
  BY DEF Render
<1> DEFINE data == [keyframe |-> IF isKeyframe THEN wid + 1 ELSE cache[k].keyframe,
                    last |-> wid + 1, valid |-> TRUE]
           msg == SendTileNow(k, data, lastSent[k])
<1>2. /\ wid < MaxWid /\ (cache[k].keyframe = 0 => isKeyframe)
      /\ wid' = wid + 1
      /\ cache' = [cache EXCEPT ![k] = data]
      /\ toClient' = Append(toClient, msg)
      /\ lastSent' = [lastSent EXCEPT ![k] = wid + 1]
      /\ requested' = requested
  BY <1>1 DEF SaveTileAndNotify
<1>3. /\ wid \in WireId /\ cache \in [Keys -> TileData] /\ lastSent \in [Keys -> WireId]
      /\ toClient \in Seq(ServerMsg)
  BY DEF TInv, System, CacheTypeOK, WireOK
<1>4. wid \in Nat /\ wid + 1 \in WireId /\ wid + 1 # 0
  BY <1>2, <1>3, WireAssumption DEF WireId
<1>5. /\ data \in TileData /\ data.keyframe # 0 /\ data.last = wid + 1
  BY <1>2, <1>3, <1>4 DEF TileData
<1> HIDE DEF data
<1>6. \A x \in Keys : /\ cache[x].last \in Nat /\ cache[x].last <= wid
                      /\ cache[x].valid => cache[x].keyframe # 0
  <2>1. \A x \in Keys : cache[x].last \in WireId
    BY <1>3 DEF TileData
  <2> QED
    BY <2>1, Types DEF ImagesInv, CacheFit
<1>7. CacheFit'
  <2>1. ASSUME NEW x \in Keys
        PROVE  cache'[x].last <= wid' /\ (cache'[x].valid => cache'[x].keyframe # 0)
    <3>1. CASE x = k
      <4>1. cache'[x] = data
        BY <1>2, <1>3, <3>1
      <4> QED
        BY <1>2, <1>4, <1>5, <4>1
    <3>2. CASE x # k
      <4>1. cache'[x] = cache[x]
        BY <1>2, <1>3, <3>2
      <4> QED
        BY <1>2, <1>4, <1>6, <4>1
    <3> QED
      BY <3>1, <3>2
  <2> QED
    BY <1>2, <2>1 DEF ImagesInv, CacheFit, Injective
<1>8. msg \in TileMsg /\ msg \in ServerMsg /\ msg.key = k
  BY <1>3, <1>5, SendTileNowType, ServerMessages DEF SendTileNow
<1>9. ASSUME NEW x \in Keys, NEW M \in WireId, NEW G \in WireId,
             Leads(toClient, MsgHops(x), M, G), lastSent[x] \in {0, G}, G <= cache[x].last
      PROVE  \E N \in WireId :
               /\ Leads(toClient', MsgHops(x), M, N)
               /\ lastSent'[x] \in {0, N} /\ N <= cache'[x].last
  <2>1. CASE x = k
    <3>1. G <= data.last
      BY <1>4, <1>5, <1>6, <1>9, <2>1, Types
    <3>2. <<G, wid + 1>> \in MsgHops(x)[msg]
      BY <1>5, <1>9, <2>1, <3>1, SendTileHop
    <3> HIDE DEF msg
    <3>3. Leads(Append(toClient, msg), MsgHops(x), M, wid + 1)
      BY <1>3, <1>4, <1>8, <1>9, <3>2, LeadsAppend
    <3>4. lastSent'[x] = wid + 1 /\ cache'[x].last = wid + 1
      BY <1>2, <1>3, <1>5, <2>1
    <3>5. wid + 1 <= wid + 1
      BY <1>4
    <3> QED
      BY <1>2, <1>4, <3>3, <3>4, <3>5
  <2>2. CASE x # k
    <3> HIDE DEF msg
    <3>1. <<G, G>> \in MsgHops(x)[msg]
      BY <1>8, <2>2, OtherMsg
    <3>2. Leads(Append(toClient, msg), MsgHops(x), M, G)
      BY <1>3, <1>8, <1>9, <3>1, LeadsAppend
    <3>3. lastSent'[x] = lastSent[x] /\ cache'[x] = cache[x]
      BY <1>2, <1>3, <2>2
    <3> QED
      BY <1>2, <1>9, <3>2, <3>3
  <2> QED
    BY <2>1, <2>2
<1> QED
  BY <1>1, <1>7, <1>9, ServerImages

-----------------------------------------------------------------------------
(* The end of a transaction.                                               *)

\* A worker that is posted anything is posted the deltas of its own tiles.
LEMMA PostedTasks ==
  ASSUME TInv, ModeOK, workers # {}, NEW deltas \in [Keys -> Seq(Delta)],
         PostTasks(deltas), NEW w \in Workers
  PROVE  \/ inbox'[w] = inbox[w] /\ PostTo(w, deltas) = NoDeltas
         \/ \E t \in OwnTask(w) :
              inbox'[w] = Append(inbox[w], t) /\ t.deltas = PostTo(w, deltas)
<1> DEFINE busy == {v \in workers : PostTo(v, deltas) # NoDeltas}
           task(v) == [deltas |-> PostTo(v, deltas), cached |-> cachedTiles]
<1>1. inbox' = [v \in Workers |-> IF v \in busy THEN Append(inbox[v], task(v))
                                                ELSE inbox[v]]
  BY Zenon DEF PostTasks
<1>2. workers = Workers
  BY DEF ModeOK
<1>3. PostTo(w, deltas) \in [Keys -> Seq(Delta)]
      /\ \A k \in Keys : WorkerOf[k] # w => PostTo(w, deltas)[k] = <<>>
  <2>1. <<>> \in Seq(Delta)
    OBVIOUS
  <2> QED
    BY <2>1 DEF PostTo
<1>4. cachedTiles \in SUBSET Keys
  BY DEF TInv, System, WorkOK
<1>5. task(w) \in OwnTask(w) /\ task(w).deltas = PostTo(w, deltas)
  <2>1. task(w) \in Task
    BY <1>3, <1>4 DEF Task
  <2>2. task(w).deltas = PostTo(w, deltas)
    OBVIOUS
  <2> HIDE DEF task
  <2> QED
    BY <1>3, <2>1, <2>2 DEF OwnTask
<1>6. inbox'[w] = IF w \in busy THEN Append(inbox[w], task(w)) ELSE inbox[w]
  BY <1>1
<1>7. w \in busy \/ PostTo(w, deltas) = NoDeltas
  BY <1>2
<1>8. CASE PostTo(w, deltas) = NoDeltas
  BY <1>6, <1>8
<1>9. CASE w \in busy
  <2> HIDE DEF task, busy
  <2> QED
    BY <1>5, <1>6, <1>9
<1> QED
  BY <1>7, <1>8, <1>9

\* The line of a tile after the tasks are posted.
LEMMA PostedLine ==
  ASSUME TInv, ModeOK, workers # {}, NEW deltas \in [Keys -> Seq(Delta)],
         PostTasks(deltas), NEW k \in Keys, NEW sound \in BOOLEAN, NEW e \in WireId,
         NEW image,
         WorkerLine(k, sound, newest[k], outbox[WorkerOf[k]], image,
                    inbox[WorkerOf[k]], deltas[k], e)
  PROVE  WorkerLine(k, sound, newest[k], outbox[WorkerOf[k]], image,
                    inbox'[WorkerOf[k]], <<>>, e)
<1> DEFINE w == WorkerOf[k]
<1>1. w \in Workers /\ inbox[w] \in Seq(Task) /\ deltas[k] \in Seq(Delta)
  BY Types
<1>2. PostTo(w, deltas)[k] = deltas[k]
  BY DEF PostTo
<1>3. \/ inbox'[w] = inbox[w] /\ PostTo(w, deltas) = NoDeltas
      \/ \E t \in OwnTask(w) :
              inbox'[w] = Append(inbox[w], t) /\ t.deltas = PostTo(w, deltas)
  BY <1>1, PostedTasks
<1>4. \/ inbox'[w] = inbox[w] /\ deltas[k] = <<>>
      \/ \E t \in Task : inbox'[w] = Append(inbox[w], t) /\ t.deltas[k] = deltas[k]
  BY <1>2, <1>3 DEF NoDeltas, OwnTask
<1> HIDE DEF w
<1>5. WorkerLine(k, sound, newest[k], outbox[w], image, inbox[w], deltas[k], e)
  BY DEF w
<1>6. WorkerLine(k, sound, newest[k], outbox[w], image, inbox'[w], <<>>, e)
  BY <1>1, <1>4, <1>5, PostOne
<1> QED
  BY <1>6 DEF w

\* The line of a tile after the main thread has decompressed.
LEMMA DecompressedLine ==
  ASSUME TInv, NEW ts, TilesMap(ts), NEW deltas \in [Keys -> Seq(Delta)],
         DecompressNow(ts, deltas, imageCache), NEW k \in Keys, NEW sound \in BOOLEAN,
         NEW R \in WireId, NEW e \in WireId, e <= R, Held(k, ts, R, e),
         MainLine(k, sound, newest[k], bitmapPromises, imageCache[k], deltas[k], ts, e)
  PROVE  AllSynced(k, sound, newest[k], bitmapPromises', imageCache'[k], tiles', R)
<1> DEFINE images == [x \in Keys |->
             IF x \in DOMAIN ts THEN SyncImages(ts[x], imageCache[x], deltas[x]) ELSE <<>>]
           bitmaps == BitmapsOf(ts, deltas, images)
           ds == deltas[k]
           image == imageCache[k]
<1>1. /\ tiles' = AllDecompressed(ts, deltas)
      /\ imageCache' = [x \in Keys |-> IF images[x] = <<>> THEN imageCache[x]
                                       ELSE images[x][Len(images[x])]]
      /\ bitmapPromises' = IF bitmaps = NoBitmaps THEN bitmapPromises
                           ELSE Append(bitmapPromises, bitmaps)
  BY Zenon DEF DecompressNow
<1>2. /\ imageCache \in [Keys -> Image] /\ bitmapPromises \in Seq([Keys -> Image])
      /\ newest[k] \in WireId
  BY Types
<1>3. \A x \in Keys \cap DOMAIN ts :
        /\ images[x] \in Seq(Image) /\ Len(images[x]) = Len(deltas[x])
  BY <1>2, SyncImagesType
<1>4. bitmaps \in [Keys -> Image]
  <2> HIDE DEF images
  <2> QED
    BY <1>3, BitmapsOfType
<1>5. bitmaps[k] = IF k \notin DOMAIN ts \/ Shown(ts[k], ds) = {} THEN None
                   ELSE SyncImages(ts[k], image, ds)[LastOf(Shown(ts[k], ds))]
  BY DEF BitmapsOf
<1>6. images[k] = IF k \in DOMAIN ts THEN SyncImages(ts[k], image, ds) ELSE <<>>
  OBVIOUS
<1>7. k \in DOMAIN ts => images[k] \in Seq(Image) /\ Len(images[k]) = Len(ds)
  BY <1>3
<1>8. imageCache'[k] = IF images[k] = <<>> THEN image ELSE images[k][Len(images[k])]
  BY <1>1
<1> HIDE DEF images
<1>9. imageCache'[k] = IF k \notin DOMAIN ts \/ ds = <<>> THEN image
                       ELSE SyncImages(ts[k], image, ds)[Len(ds)]
  <2>0. ds \in Seq(Delta)
    OBVIOUS
  <2>1. CASE k \notin DOMAIN ts
    BY <1>6, <1>8, <2>1
  <2>2. CASE k \in DOMAIN ts /\ ds = <<>>
    <3>1. images[k] = <<>>
      BY <1>7, <2>2
    <3> QED
      BY <1>8, <2>2, <3>1
  <2>3. CASE k \in DOMAIN ts /\ ds # <<>>
    <3>1. images[k] # <<>>
      BY <1>7, <2>0, <2>3
    <3> QED
      BY <1>6, <1>7, <1>8, <2>3, <3>1
  <2> QED
    BY <2>1, <2>2, <2>3
<1>10. /\ DOMAIN tiles' = DOMAIN ts
       /\ k \in DOMAIN ts => ts[k] \in Tile /\ tiles'[k] = Decompressed(ts[k], ds)
  BY <1>1 DEF AllDecompressed, TilesMap
<1> HIDE DEF bitmaps
<1>11. \/ bitmapPromises' = bitmapPromises /\ bitmaps[k] = None
       \/ \E x \in [Keys -> Image] :
            bitmapPromises' = Append(bitmapPromises, x) /\ x[k] = bitmaps[k]
  BY <1>1, <1>4 DEF NoBitmaps
<1>12. image \in Image /\ ds \in Seq(Delta)
  BY <1>2
<1> HIDE DEF ds, image
<1>13. MainLine(k, sound, newest[k], bitmapPromises, image, ds, ts, e)
  BY DEF ds, image
<1>14. Synced(k, ds, image, bitmapPromises, ts, tiles', bitmaps[k], imageCache'[k],
              bitmapPromises')
  BY <1>5, <1>9, <1>10, <1>11 DEF Synced
<1> QED
  BY <1>2, <1>12, <1>13, <1>14, DecompressOne

\* Where tile k gets to with the tiles ts and the waiting deltas.
Ending(k, ts, deltas, R) ==
    \E e \in WireId : e <= R /\ Held(k, ts, R, e) /\ Line(k, ts, deltas[k], e)

\* endTransaction passes the waiting deltas on.
LEMMA EndingLine ==
  ASSUME TInv, ImagesInv, Recorded, NEW ts, TilesMap(ts),
         NEW deltas \in [Keys -> Seq(Delta)], EndTransaction(ts, deltas, imageCache),
         pendingDeltas' = NoDeltas, NEW k \in Keys, newest'[k] = newest[k],
         NEW R \in WireId, Ending(k, ts, deltas, R)
  PROVE  AtKey(k, R)'
<1>1. PICK e \in WireId : e <= R /\ Held(k, ts, R, e) /\ Line(k, ts, deltas[k], e)
  BY DEF Ending
<1>2. /\ UNCHANGED <<workers, outbox, workerImages, workerError>>
      /\ pendingDeltas'[k] = <<>>
  BY DEF EndTransaction, NoDeltas
<1>3. ModeOK
  BY DEF ImagesInv
<1>4. CASE workers # {}
  <2>1. WorkerLine(k, ~workerError, newest[k], outbox[WorkerOf[k]],
                   workerImages[WorkerOf[k]][k], inbox[WorkerOf[k]], deltas[k], e)
    BY <1>1, <1>4 DEF Line
  <2>2. tiles' = ts
    BY <1>4 DEF EndTransaction
  <2>3. WorkerLine(k, ~workerError, newest[k], outbox[WorkerOf[k]],
                   workerImages[WorkerOf[k]][k], inbox'[WorkerOf[k]], <<>>, e)
    <3>1. CASE deltas # NoDeltas
      <4>1. PostTasks(deltas)
        BY <1>4, <3>1 DEF EndTransaction
      <4>2. (~workerError) \in BOOLEAN
        OBVIOUS
      <4> QED
        BY <1>3, <1>4, <2>1, <4>1, <4>2, PostedLine
    <3>2. CASE deltas = NoDeltas
      <4>1. inbox' = inbox /\ deltas[k] = <<>>
        BY <3>2 DEF EndTransaction, NoDeltas
      <4> QED
        BY <2>1, <4>1
    <3> QED
      BY <3>1, <3>2
  <2>4. Line(k, tiles, pendingDeltas[k], e)'
    BY <1>2, <1>4, <2>3 DEF Line
  <2> QED
    BY <1>1, <2>2, <2>4 DEF AtKey
<1>5. CASE workers = {}
  <2>0. PICK less \in BOOLEAN, sound \in BOOLEAN :
          less = (k \notin orphaned') /\ sound = (k \notin orphaned)
    OBVIOUS
  <2>1. MainLine(k, sound, newest[k], bitmapPromises, imageCache[k], deltas[k], ts, e)
    BY <1>1, <1>5, <2>0 DEF Line
  <2>2. AllSynced(k, sound, newest[k], bitmapPromises', imageCache'[k], tiles', R)
    <3>1. CASE deltas # NoDeltas
      <4>1. DecompressNow(ts, deltas, imageCache)
        BY <1>5, <3>1 DEF EndTransaction
      <4> QED
        BY <1>1, <2>1, <4>1, DecompressedLine
    <3>2. CASE deltas = NoDeltas
      <4>1. /\ tiles' = ts /\ imageCache' = imageCache /\ bitmapPromises' = bitmapPromises
            /\ deltas[k] = <<>>
        BY <3>2 DEF EndTransaction, NoDeltas
      <4> QED
        BY <1>1, <2>1, <4>1 DEF AllSynced
    <3> QED
      BY <3>1, <3>2
  <2>3. PICK f \in WireId :
          /\ f <= R /\ Held(k, tiles', R, f)
          /\ MainLine(k, sound, newest[k], bitmapPromises', imageCache'[k], <<>>, tiles', f)
    BY <2>2 DEF AllSynced
  <2>4. less => sound
    BY <2>0 DEF Recorded
  <2>5. bitmapPromises' \in Seq([Keys -> Image])
    <3>1. WorkOK /\ imageCache \in [Keys -> Image]
      BY Types DEF TInv, System
    <3>2. WorkOK'
      BY <3>1, EndTransactionWork
    <3> QED
      BY <3>2 DEF WorkOK
  <2>6. MainLine(k, less, newest[k], bitmapPromises', imageCache'[k], <<>>, tiles', f)
    BY <2>3, <2>4, <2>5, MainLoose
  <2>7. Line(k, tiles, pendingDeltas[k], f)'
    BY <1>2, <1>5, <2>0, <2>6 DEF Line
  <2> QED
    BY <2>3, <2>7 DEF AtKey
<1> QED
  BY <1>4, <1>5

\* What else endTransaction keeps.
LEMMA EndingImages ==
  ASSUME TInv, ImagesInv, Recorded, UNCHANGED tileCache, UNCHANGED toClient,
         UNCHANGED slurpQueue, NEW ts, TilesMap(ts), NEW deltas \in [Keys -> Seq(Delta)],
         EndTransaction(ts, deltas, imageCache), pendingDeltas' = NoDeltas,
         \A k \in Keys \cap DOMAIN ts :
           \/ ts[k].image = None
           \/ k \in DOMAIN tiles /\ ts[k].image = tiles[k].image,
         \A k \in Keys : \A R \in WireId : AtKey(k, R) => Ending(k, ts, deltas, R)
  PROVE  ImagesInv'
<1>1. UNCHANGED <<workers, outbox, workerImages, workerError>>
  BY DEF EndTransaction
<1>2. CacheFit'
  BY SameCache DEF ImagesInv
<1>3. ModeOK /\ OwnWork
  BY DEF ImagesInv
<1>4. OwnWork'
  <2>1. CASE deltas # NoDeltas /\ workers # {}
    <3>1. PostTasks(deltas)
      BY <2>1 DEF EndTransaction
    <3>2. ASSUME NEW w \in Workers PROVE inbox'[w] \in Seq(OwnTask(w))
      <4>1. inbox[w] \in Seq(OwnTask(w))
        BY <1>3 DEF OwnWork
      <4>2. \/ inbox'[w] = inbox[w]
            \/ \E t \in OwnTask(w) : inbox'[w] = Append(inbox[w], t)
        BY <1>3, <2>1, <3>1, PostedTasks
      <4>3. PICK T : T = OwnTask(w)
        OBVIOUS
      <4>4. inbox[w] \in Seq(T) /\ (inbox'[w] = inbox[w] \/ \E t \in T : inbox'[w] = Append(inbox[w], t))
        BY <4>1, <4>2, <4>3
      <4>5. inbox'[w] \in Seq(T)
        BY <4>4, AppendItems
      <4> QED
        BY <4>3, <4>5
    <3> QED
      BY <1>1, <1>3, <3>2 DEF OwnWork
  <2>2. CASE ~(deltas # NoDeltas /\ workers # {})
    <3>1. inbox' = inbox
      BY <2>2 DEF EndTransaction
    <3> QED
      BY <1>1, <1>3, <3>1, SameWork
  <2> QED
    BY <2>1, <2>2
<1>5. ModeOK'
  <2>1. workers # {} => imageCache' = imageCache /\ bitmapPromises' = bitmapPromises
    BY DEF EndTransaction
  <2>2. \A k \in Keys : Len(NoDeltas[k]) = 0
    BY DEF NoDeltas
  <2>3. \A k \in Keys : \A i \in 1..Len(pendingDeltas'[k]) : pendingDeltas'[k][i].wireMessage
    BY <2>2
  <2> QED
    BY <1>1, <1>3, <2>1, <2>3 DEF ModeOK
<1>6. ASSUME NEW k \in Keys PROVE newest'[k] = newest[k] /\ ImageOK(k)'
  <2>1. ImageOK(k)
    BY DEF ImagesInv
  <2>2. Sound(k)' => Sound(k)
    BY <1>1 DEF Sound, Recorded
  <2>3. k \in DOMAIN tiles' => k \in DOMAIN ts /\ tiles'[k].image = ts[k].image
    <3>1. CASE deltas # NoDeltas /\ workers = {}
      <4>1. tiles' = AllDecompressed(ts, deltas)
        BY <3>1, Zenon DEF EndTransaction, DecompressNow
      <4>2. k \in DOMAIN tiles' => k \in DOMAIN ts /\ tiles'[k] = Decompressed(ts[k], deltas[k])
        BY <4>1 DEF AllDecompressed
      <4>3. k \in DOMAIN ts => ts[k] \in Tile
        BY DEF TilesMap
      <4>4. k \in DOMAIN ts => Decompressed(ts[k], deltas[k]).image = ts[k].image
        BY <4>3 DEF Decompressed, Tile
      <4> QED
        BY <4>2, <4>4
    <3>2. CASE ~(deltas # NoDeltas /\ workers = {})
      BY <3>2 DEF EndTransaction
    <3> QED
      BY <3>1, <3>2
  <2>4. k \in DOMAIN tiles' =>
           \/ tiles'[k].image = None
           \/ k \in DOMAIN tiles /\ tiles'[k].image = tiles[k].image
    BY <2>3
  <2> QED
    BY <2>1, <2>2, <2>4, QuietHistory
<1>7. ASSUME NEW k \in Keys PROVE KeyOK(k)'
  <2>1. \A R \in WireId : AtKey(k, R) => AtKey(k, R)'
    BY <1>6, EndingLine
  <2> QED
    BY <2>1, SameStream DEF ImagesInv
<1> QED
  BY <1>2, <1>4, <1>5, <1>6, <1>7 DEF ImagesInv

\* _emitSlurpedEvents ends the transaction.
LEMMA EmitEndImages ==
  ASSUME TInv, ImagesInv, Recorded, EmitEnd
  PROVE  ImagesInv'
<1>1. /\ EndTransaction(tiles, pendingDeltas, imageCache) /\ pendingDeltas' = NoDeltas
      /\ UNCHANGED tileCache /\ UNCHANGED toClient /\ UNCHANGED slurpQueue
  BY DEF EmitEnd, EmitSlurpedEventsEnd
<1>2. TilesMap(tiles) /\ pendingDeltas \in [Keys -> Seq(Delta)]
  BY Types
<1>3. \A k \in Keys : \A R \in WireId : AtKey(k, R) => Ending(k, tiles, pendingDeltas, R)
  BY DEF AtKey, Ending
<1> QED
  BY <1>1, <1>2, <1>3, EndingImages

\* Tiles that differ only in how they are fetched and how near they are.
Alike(t, u) ==
    /\ t \in Tile /\ u \in Tile
    /\ u.rawDeltas = t.rawDeltas /\ u.deltaId = t.deltaId
    /\ u.lastPendingId = t.lastPendingId /\ u.decompressedId = t.decompressedId
    /\ u.image = t.image

LEMMA AlikeLighter ==
  ASSUME NEW t, NEW u, Alike(t, u)
  PROVE  Lighter(t, u) /\ Milder(t, u)
<1>1. Lighter(t, u)
  BY SameRaw DEF Alike
<1> QED
  BY <1>1 DEF Alike, Milder

\* makeTileCurrent rehydrates a tile that needs it.
LEMMA CurrentAlike ==
  ASSUME NEW t \in Tile, NEW u, Alike(t, u)
  PROVE  /\ NeedsRehydration(t) => Alike(Rehydrated(t), MakeTileCurrent(u))
         /\ ~NeedsRehydration(t) => Alike(t, MakeTileCurrent(u))
<1>0. u \in Tile /\ t.rawDeltas \in Seq(RawDelta) /\ t.rawDeltas = u.rawDeltas
  BY DEF Alike, Tile
<1>1. PICK c : c = [u EXCEPT !.current = TRUE, !.requested = FALSE]
  OBVIOUS
<1>2. c \in Tile /\ Alike(t, c)
  BY <1>0, <1>1 DEF Alike, Tile
<1>3. NeedsRehydration(c) <=> NeedsRehydration(t)
  BY <1>2 DEF Alike, NeedsRehydration, HasKeyframe
<1>4. MakeTileCurrent(u) = IF NeedsRehydration(c) THEN Rehydrated(c) ELSE c
  BY <1>1 DEF MakeTileCurrent
<1>5. CASE ~NeedsRehydration(t)
  BY <1>2, <1>3, <1>4, <1>5
<1>6. CASE NeedsRehydration(t)
  <2>1. Rehydrated(t) \in Tile /\ Rehydrated(c) \in Tile
    BY <1>2, <1>3, <1>6, RehydratedType
  <2>2. PICK n : n = t.rawDeltas[Len(t.rawDeltas)].id
    OBVIOUS
  <2>3. Rehydrated(t) = [t EXCEPT !.lastPendingId = n]
        /\ Rehydrated(c) = [c EXCEPT !.lastPendingId = n]
    BY <1>2, <2>2 DEF Rehydrated, Alike
  <2>4. Alike(Rehydrated(t), Rehydrated(c))
    BY <1>2, <2>1, <2>3 DEF Alike, Tile
  <2> QED
    BY <1>3, <1>4, <1>6, <2>4
<1> QED
  BY <1>5, <1>6

\* rehydrateTile, between emissions: the delta of tile k is the only one that
\* waits.
LEMMA RehydrateEnding ==
  ASSUME TInv, ImagesInv, ~emitting, NEW S, NEW ts, NEW deltas,
         deltas = Rehydrating(tiles, S, FALSE), NEW k \in Keys,
         k \in S => /\ k \in DOMAIN tiles /\ NeedsRehydration(tiles[k])
                    /\ k \in DOMAIN ts /\ Alike(Rehydrated(tiles[k]), ts[k]),
         k \notin S => Gentle(k, tiles, ts),
         NEW R \in WireId, AtKey(k, R)
  PROVE  Ending(k, ts, deltas, R)
<1>1. PICK e \in WireId :
        e <= R /\ Held(k, tiles, R, e) /\ Line(k, tiles, pendingDeltas[k], e)
  BY DEF AtKey
<1>2. pendingDeltas[k] = <<>>
  BY DEF ImagesInv, ModeOK, NoDeltas
<1>3. CASE k \notin S
  <2>1. deltas[k] = <<>>
    BY <1>2, <1>3 DEF Rehydrating
  <2>2. Held(k, ts, R, e)
    BY <1>1, <1>3, GentleHeld
  <2>3. Line(k, ts, <<>>, e)
    <3>1. CASE workers # {}
      BY <1>1, <1>2, <3>1 DEF Line
    <3>2. CASE workers = {}
      BY <1>1, <1>2, <1>3, <3>2, GentleMain DEF Line
    <3> QED
      BY <3>1, <3>2
  <2> QED
    BY <1>1, <2>1, <2>2, <2>3 DEF Ending
<1>4. CASE k \in S
  <2>0. PICK t \in Tile, u \in Tile : t = tiles[k] /\ u = ts[k]
    BY <1>4, Types DEF TilesMap, Alike
  <2>01. PICK wired \in BOOLEAN : wired = FALSE
    OBVIOUS
  <2>1. PICK d : d = CompressedDelta(t, wired)
    OBVIOUS
  <2>2. deltas[k] = Append(<<>>, d)
    BY <1>2, <1>4, <2>0, <2>01, <2>1 DEF Rehydrating
  <2>3. Fine(t, R, e) /\ NeedsRehydration(t) /\ Alike(Rehydrated(t), u)
    BY <1>1, <1>4, <2>0 DEF Held
  <2>4. /\ d \in Delta
        /\ \A sound \in BOOLEAN : <<e, R>> \in DeltaHops(sound)[d]
        /\ Known(t, d) /\ d.wireMessage = wired /\ d.ids[2] # 0 /\ d.to = R
        /\ ~d.isKeyframe => t.lastPendingId # 0
        /\ Fine(Rehydrated(t), R, R)
        /\ Rehydrated(t).image = t.image /\ Rehydrated(t).current = t.current
        /\ Rehydrated(t).rawDeltas = t.rawDeltas
        /\ Rehydrated(t).decompressedId = t.decompressedId
    BY <1>1, <2>1, <2>3, CompressedHop
  <2>5. Held(k, ts, R, R)
    <3>1. Fine(u, R, R)
      BY <2>3, <2>4, AlikeLighter, LighterFine
    <3> QED
      BY <2>0, <3>1 DEF Held
  <2>6. <<>> \in Seq(Delta) /\ R <= R
    BY Types
  <2>7. Line(k, ts, Append(<<>>, d), R)
    <3>1. CASE workers # {}
      <4>0. PICK sound \in BOOLEAN : sound = ~workerError
        OBVIOUS
      <4>1. WorkerLine(k, sound, newest[k], outbox[WorkerOf[k]],
                    workerImages[WorkerOf[k]][k], inbox[WorkerOf[k]], <<>>, e)
        BY <1>1, <1>2, <3>1, <4>0 DEF Line
      <4>2. PICK x1 \in WireId, x2 \in WireId, x3 \in WireId, x4 \in WireId :
              /\ newest[k] <= x1
              /\ Leads(outbox[WorkerOf[k]], AnswerHops(k, sound), x1, x2)
              /\ x2 <= x3
              /\ (sound => x2 = x3 /\ workerImages[WorkerOf[k]][k] \in {None, x2})
              /\ Leads(inbox[WorkerOf[k]], TaskHops(k, sound), x3, x4)
              /\ Leads(<<>>, DeltaHops(sound), x4, e)
        BY <4>1 DEF WorkerLine
      <4>3. Leads(Append(<<>>, d), DeltaHops(sound), x4, R)
        BY <2>4, <2>6, <4>2, LeadsAppend
      <4>4. WorkerLine(k, sound, newest[k], outbox[WorkerOf[k]],
                    workerImages[WorkerOf[k]][k], inbox[WorkerOf[k]], Append(<<>>, d), R)
        BY <4>2, <4>3 DEF WorkerLine
      <4> QED
        BY <3>1, <4>0, <4>4 DEF Line
    <3>2. CASE workers = {}
      <4>0. PICK sound \in BOOLEAN : sound = (k \notin orphaned)
        OBVIOUS
      <4>1. MainLine(k, sound, newest[k], bitmapPromises, imageCache[k], <<>>, tiles, e)
        BY <1>1, <1>2, <3>2, <4>0 DEF Line
      <4>2. PICK a \in WireId, b \in WireId, c \in WireId :
              /\ newest[k] <= a /\ Leads(bitmapPromises, PromiseHops(k, sound), a, b)
              /\ b <= c /\ (sound => imageCache[k] \in {None, c})
              /\ Waiting(k, sound, <<>>, tiles, c, e)
        BY <4>1 DEF MainLine
      <4>3. /\ Leads(<<>>, DeltaHops(FALSE), c, e)
            /\ sound => (t.lastPendingId # 0 => t.decompressedId # 0)
        BY <1>4, <2>0, <4>2 DEF Waiting
      <4>4. c = e
        BY <4>3, LeadsNowhere
      <4>5. PICK ds : ds = Append(<<>>, d)
        OBVIOUS
      <4>6. Len(ds) = 1 /\ ds[1] = d /\ ds # <<>>
        BY <2>4, <4>5
      <4>7. Leads(ds, DeltaHops(FALSE), c, R)
        BY <2>4, <2>6, <4>3, <4>5, LeadsAppend
      <4>8. ASSUME sound PROVE Usable(u, ds, 0, c)
        <5>1. <<e, R>> \in DeltaHops(sound)[d]
          BY <2>4
        <5>2. ~d.isKeyframe => d.from = c
          BY <2>4, <4>4, <4>8, <5>1 DEF DeltaHops, DeltaHop
        <5>3. Known(u, d)
          BY <2>3, <2>4 DEF Known, Alike
        <5>4. ~d.isKeyframe => u.decompressedId # 0
          BY <2>3, <2>4, <4>3, <4>8 DEF Alike
        <5>5. \A i \in (0 + 1)..Len(ds) : i = 1
          BY <4>6
        <5>6. \A i \in 1..0 : FALSE
          OBVIOUS
        <5> QED
          BY <4>6, <5>2, <5>3, <5>4, <5>5, <5>6 DEF Usable
      <4>9. Waiting(k, sound, ds, ts, c, R)
        <5>1. 0 \in 0..Len(ds) /\ \A i \in 1..Len(ds) : i = 1
          BY <4>6
        <5> QED
          BY <1>4, <2>0, <2>4, <4>6, <4>7, <4>8, <5>1 DEF Waiting
      <4>10. MainLine(k, sound, newest[k], bitmapPromises, imageCache[k], ds, ts, R)
        BY <4>2, <4>9 DEF MainLine
      <4> QED
        BY <3>2, <4>0, <4>5, <4>10 DEF Line
    <3> QED
      BY <3>1, <3>2
  <2> QED
    BY <2>2, <2>5, <2>6, <2>7 DEF Ending
<1> QED
  BY <1>3, <1>4

\* A tile that is like another is gentle.
LEMMA AlikeGentle ==
  ASSUME NEW k, NEW ts, NEW us, k \in DOMAIN ts, Alike(ts[k], us[k])
  PROVE  Gentle(k, ts, us)
<1>1. Lighter(ts[k], us[k]) /\ Milder(ts[k], us[k])
  BY AlikeLighter
<1> QED
  BY <1>1 DEF Gentle

\* The image of a tile that is gentle or rehydrated.
LEMMA RehydratedImage ==
  ASSUME NEW t \in Tile, NeedsRehydration(t), NEW u, Alike(Rehydrated(t), u)
  PROVE  u.image = t.image
<1>1. Rehydrated(t).image = t.image
  BY DEF Rehydrated, Tile
<1> QED
  BY <1>1 DEF Alike

\* The user scrolls or zooms.
LEMMA ScrollImages ==
  ASSUME TInv, ImagesInv, Recorded, Scroll
  PROVE  ImagesInv'
<1>1. PICK shown \in SUBSET Keys : \E area \in Areas(shown) :
        Update(shown, area) /\ UNCHANGED tileCache
  BY DEF Scroll
<1>2. PICK area \in Areas(shown) : Update(shown, area) /\ UNCHANGED tileCache
  BY <1>1
<1> DEFINE S == ToRehydrate(tiles, area)
           ts == UpdatedTiles(tiles, shown, area)
           deltas == Rehydrating(tiles, S, FALSE)
           missing == Missing(tiles, area)
           old == Distances(tiles, shown)
<1>3. /\ EndTransaction(ts, deltas, imageCache) /\ ~emitting
      /\ UNCHANGED <<toClient, pendingDeltas, slurpQueue>>
  BY <1>2 DEF Update, slurping
<1>4. area \in SUBSET Keys
  BY <1>2 DEF Areas
<1>5. TilesMap(tiles) /\ pendingDeltas \in [Keys -> Seq(Delta)]
  BY Types
<1>6. TilesMap(ts)
  BY <1>4, <1>5, UpdatedTilesType
<1>7. \A k \in S : tiles[k] \in Tile /\ NeedsRehydration(tiles[k])
  BY <1>5 DEF ToRehydrate, Missing, TilesMap
<1>8. deltas \in [Keys -> Seq(Delta)]
  BY <1>5, <1>7, RehydratingType
<1>9. pendingDeltas' = NoDeltas
  BY <1>3 DEF ImagesInv, ModeOK
<1>10. ASSUME NEW k \in DOMAIN tiles PROVE tiles[k] \in Tile /\ Alike(tiles[k], old[k])
  <2>1. tiles[k] \in Tile
    BY <1>5 DEF TilesMap
  <2>2. /\ k \in DOMAIN old /\ Lighter(tiles[k], old[k]) /\ old[k].rawDeltas = tiles[k].rawDeltas
        /\ old[k].decompressedId = tiles[k].decompressedId
        /\ old[k].lastPendingId = tiles[k].lastPendingId /\ old[k].image = tiles[k].image
    BY <1>5, DistancesGentle
  <2> HIDE DEF old
  <2> QED
    BY <2>1, <2>2 DEF Alike, Lighter
<1>11. ASSUME NEW k \in DOMAIN ts
       PROVE  ts[k] = CASE k \notin DOMAIN tiles -> NewTile(TRUE)
                        [] k \in area \ missing -> MakeTileCurrent(old[k])
                        [] OTHER -> old[k]
  BY DEF UpdatedTiles
<1>12. /\ DOMAIN ts = DOMAIN tiles \cup missing
       /\ area \ missing \subseteq DOMAIN tiles
  BY DEF UpdatedTiles, Missing
<1>13. \A k : k \in S <=> k \in area \ missing /\ NeedsRehydration(tiles[k])
  BY DEF ToRehydrate
<1> HIDE DEF ts, old, missing, S, deltas
<1>14. ASSUME NEW k \in Keys
       PROVE  /\ k \in S => /\ k \in DOMAIN tiles /\ NeedsRehydration(tiles[k])
                            /\ k \in DOMAIN ts /\ Alike(Rehydrated(tiles[k]), ts[k])
              /\ k \notin S => Gentle(k, tiles, ts)
  <2>1. CASE k \notin DOMAIN ts
    BY <1>12, <1>13, <2>1 DEF Gentle
  <2>2. CASE k \in DOMAIN ts /\ k \notin DOMAIN tiles
    <3>1. ts[k] = NewTile(TRUE)
      BY <1>11, <1>12, <2>2
    <3>2. k \notin S
      BY <1>12, <1>13, <2>2
    <3>3. PICK c \in BOOLEAN : c = TRUE
      OBVIOUS
    <3> QED
      BY <3>1, <3>2, <3>3 DEF Gentle
  <2>3. CASE k \in DOMAIN tiles /\ k \in area \ missing
    <3>0. k \in DOMAIN ts
      BY <1>12, <2>3
    <3>1. ts[k] = MakeTileCurrent(old[k]) /\ k \in DOMAIN ts
      BY <1>11, <2>3, <3>0
    <3>2. /\ NeedsRehydration(tiles[k]) => Alike(Rehydrated(tiles[k]), ts[k])
          /\ ~NeedsRehydration(tiles[k]) => Alike(tiles[k], ts[k])
      BY <1>10, <2>3, <3>1, CurrentAlike
    <3> QED
      BY <1>13, <2>3, <3>1, <3>2, AlikeGentle
  <2>4. CASE k \in DOMAIN tiles /\ k \notin area \ missing
    <3>1. ts[k] = old[k]
      BY <1>11, <1>12, <2>4
    <3> QED
      BY <1>10, <1>13, <2>4, <3>1, AlikeGentle
  <2> QED
    BY <2>1, <2>2, <2>3, <2>4
<1>15. ASSUME NEW k \in Keys \cap DOMAIN ts
       PROVE  \/ ts[k].image = None
              \/ k \in DOMAIN tiles /\ ts[k].image = tiles[k].image
  <2>1. CASE k \in S
    BY <1>7, <1>14, <2>1, RehydratedImage
  <2>2. CASE k \notin S
    BY <1>14, <2>2, GentleImage
  <2> QED
    BY <2>1, <2>2
<1>16. deltas = Rehydrating(tiles, S, FALSE)
  BY DEF deltas
<1>17. ASSUME NEW k \in Keys, NEW R \in WireId, AtKey(k, R) PROVE Ending(k, ts, deltas, R)
  BY <1>3, <1>14, <1>16, <1>17, RehydrateEnding
<1> QED
  BY <1>2, <1>3, <1>6, <1>8, <1>9, <1>15, <1>17, EndingImages

\* rehydrateCurrentTiles, before a redraw.
LEMMA RedrawImages ==
  ASSUME TInv, ImagesInv, Recorded, Redraw
  PROVE  ImagesInv'
<1> DEFINE S == {k \in dehydratedCurrentTiles \cap DOMAIN tiles :
                   NeedsRehydration(tiles[k])}
           ts == [k \in DOMAIN tiles |-> IF k \in S THEN Rehydrated(tiles[k]) ELSE tiles[k]]
           deltas == Rehydrating(tiles, S, FALSE)
<1>1. /\ EndTransaction(ts, deltas, imageCache) /\ ~emitting
      /\ UNCHANGED <<toClient, pendingDeltas, slurpQueue>> /\ UNCHANGED tileCache
  BY DEF Redraw, RehydrateCurrentTiles, slurping, wire
<1>2. TilesMap(tiles) /\ pendingDeltas \in [Keys -> Seq(Delta)]
  BY Types
<1>3. \A k \in S : tiles[k] \in Tile /\ NeedsRehydration(tiles[k]) /\ k \in DOMAIN tiles
  BY <1>2 DEF TilesMap
<1>4. deltas \in [Keys -> Seq(Delta)]
  BY <1>2, <1>3, RehydratingType
<1>5. pendingDeltas' = NoDeltas
  BY <1>1 DEF ImagesInv, ModeOK
<1>6. /\ DOMAIN ts = DOMAIN tiles
      /\ \A k \in DOMAIN tiles : ts[k] = IF k \in S THEN Rehydrated(tiles[k]) ELSE tiles[k]
  OBVIOUS
<1>7. deltas = Rehydrating(tiles, S, FALSE)
  OBVIOUS
<1> HIDE DEF S, ts, deltas
<1>8. \A k \in S : Rehydrated(tiles[k]) \in Tile
  BY <1>3, RehydratedType
<1>9. TilesMap(ts)
  BY <1>2, <1>6, <1>8 DEF TilesMap
<1>10. ASSUME NEW k \in Keys
       PROVE  /\ k \in S => /\ k \in DOMAIN tiles /\ NeedsRehydration(tiles[k])
                            /\ k \in DOMAIN ts /\ Alike(Rehydrated(tiles[k]), ts[k])
              /\ k \notin S => Gentle(k, tiles, ts)
  <2>1. CASE k \in S
    BY <1>3, <1>6, <1>8, <2>1 DEF Alike
  <2>2. CASE k \in DOMAIN tiles /\ k \notin S
    <3>1. Alike(tiles[k], ts[k])
      BY <1>2, <1>6, <2>2 DEF Alike, TilesMap
    <3> QED
      BY <2>2, <3>1, AlikeGentle
  <2>3. CASE k \notin DOMAIN tiles
    BY <1>3, <1>6, <2>3 DEF Gentle
  <2> QED
    BY <2>1, <2>2, <2>3
<1>11. ASSUME NEW k \in Keys \cap DOMAIN ts
       PROVE  \/ ts[k].image = None
              \/ k \in DOMAIN tiles /\ ts[k].image = tiles[k].image
  <2>1. CASE k \in S
    BY <1>3, <1>10, <2>1, RehydratedImage
  <2>2. CASE k \notin S
    BY <1>10, <2>2, GentleImage
  <2> QED
    BY <2>1, <2>2
<1>12. ASSUME NEW k \in Keys, NEW R \in WireId, AtKey(k, R) PROVE Ending(k, ts, deltas, R)
  BY <1>1, <1>7, <1>10, <1>12, RehydrateEnding
<1> QED
  BY <1>1, <1>4, <1>5, <1>9, <1>11, <1>12, EndingImages

-----------------------------------------------------------------------------
(* Messages of coolwsd are emitted.                                        *)

\* Tile u has every raw delta that t has.
Knowing(t, u) ==
    \A i \in 1..Len(t.rawDeltas) :
      \E j \in 1..Len(u.rawDeltas) : u.rawDeltas[j].id = t.rawDeltas[i].id

LEMMA StillKnown ==
  ASSUME NEW t, NEW u, Knowing(t, u), NEW d, Known(t, d)
  PROVE  Known(u, d)
BY DEF Known, Knowing

\* The waiting deltas stay usable for a tile that gets more.
LEMMA KeepUsable ==
  ASSUME NEW t, NEW u, Knowing(t, u), u.decompressedId = t.decompressedId,
         u.current = t.current, NEW ds \in Seq(Delta), NEW m \in 0..Len(ds), NEW c,
         Usable(t, ds, m, c),
         m = Len(ds) /\ t.current /\ t.rawDeltas = <<>> => u.rawDeltas = <<>>
  PROVE  Usable(u, ds, m, c)
<1>1. \A i \in (m + 1)..Len(ds) : Known(t, ds[i]) => Known(u, ds[i])
  BY StillKnown
<1> QED
  BY <1>1 DEF Usable

\* So they do with one more that continues them.
LEMMA AppendUsable ==
  ASSUME NEW t, NEW u, Knowing(t, u), u.decompressedId = t.decompressedId,
         NEW ds \in Seq(Delta), ds # <<>>, NEW m \in 0..Len(ds), NEW c,
         Usable(t, ds, m, c), NEW d \in Delta, Known(u, d),
         m = Len(ds) => d.isKeyframe, ~d.isKeyframe => d.from = ds[Len(ds)].to
  PROVE  Usable(u, Append(ds, d), m, c)
<1> DEFINE n == Len(ds)
<1>1. PICK r : r = Append(ds, d)
  OBVIOUS
<1>2. /\ n \in Nat \ {0} /\ Len(r) = n + 1 /\ r[n + 1] = d
      /\ \A i \in 1..n : r[i] = ds[i]
  BY <1>1
<1>3. /\ \A i \in 1..m : ds[i].wireMessage
      /\ m # 0 /\ m # n => ds[m + 1].isKeyframe
      /\ \A i \in (m + 1)..n :
           /\ Known(t, ds[i])
           /\ ~ds[i].isKeyframe => ds[i].from = IF i = 1 THEN c ELSE ds[i - 1].to
      /\ m = 0 /\ ~ds[1].isKeyframe => t.decompressedId # 0
  BY DEF Usable
<1>0. ds[Len(ds)] = ds[n] /\ m \in 0..n
  OBVIOUS
<1> HIDE DEF n
<1>4. \A i \in 1..m : r[i].wireMessage
  BY <1>0, <1>2, <1>3
<1>5. m # 0 => m # Len(r) /\ r[m + 1].isKeyframe
  <2>1. CASE m = n
    BY <1>2, <2>1 DEF n
  <2>2. CASE m # n
    <3>1. m + 1 \in 1..n
      BY <1>0, <1>2, <2>2
    <3> QED
      BY <1>0, <1>2, <1>3, <2>2, <3>1
  <2> QED
    BY <2>1, <2>2
<1>6. ASSUME NEW i \in (m + 1)..Len(r)
      PROVE  /\ Known(u, r[i])
             /\ ~r[i].isKeyframe => r[i].from = IF i = 1 THEN c ELSE r[i - 1].to
  <2>1. CASE i = n + 1
    <3>1. r[i] = d /\ r[i - 1] = ds[n] /\ i # 1
      BY <1>2, <2>1
    <3> QED
      BY <1>0, <3>1
  <2>2. CASE i # n + 1
    <3>1. i \in (m + 1)..n /\ i \in 1..n
      BY <1>0, <1>2, <2>2
    <3>2. r[i] = ds[i] /\ (i # 1 => r[i - 1] = ds[i - 1])
      BY <1>2, <3>1
    <3>3. Known(u, ds[i])
      BY <1>3, <3>1, StillKnown
    <3> QED
      BY <1>3, <3>1, <3>2, <3>3
  <2> QED
    BY <2>1, <2>2
<1>7. r[1] = ds[1]
  BY <1>2
<1>8. m = 0 /\ ~r[1].isKeyframe => u.decompressedId # 0
  BY <1>3, <1>7
<1>9. Usable(u, r, m, c)
  BY <1>4, <1>5, <1>6, <1>8 DEF Usable
<1> QED
  BY <1>1, <1>9

\* What onTileMsg makes of the tile r that has received a tile message: it is
\* rehydrated, up to the rendering S, or left to be as far as it was, e.
Emitted(r, ds, e, S, u, new, f) ==
    IF r.current /\ NeedsRehydration(r)
    THEN u = Rehydrated(r) /\ new = Append(ds, CompressedDelta(r, TRUE)) /\ f = S
    ELSE u = r /\ new = ds /\ f = e

\* The delta of a tile that has received a message.
LEMMA EmittedDelta ==
  ASSUME NEW r, NEW S \in WireId, NEW e \in WireId, e <= S, Fine(r, S, e),
         NeedsRehydration(r), NEW b \in BOOLEAN, NEW d, d = CompressedDelta(r, b)
  PROVE  /\ d \in Delta
         /\ \A sound \in BOOLEAN : <<e, S>> \in DeltaHops(sound)[d]
         /\ Known(r, d) /\ d.wireMessage = b /\ d.ids[2] # 0
         /\ ~d.isKeyframe => r.lastPendingId # 0
         /\ Fine(Rehydrated(r), S, S)
         /\ Rehydrated(r).image = r.image /\ Rehydrated(r).current = r.current
         /\ Rehydrated(r).rawDeltas = r.rawDeltas
         /\ Rehydrated(r).decompressedId = r.decompressedId
         /\ Len(r.rawDeltas) = 1 => d.isKeyframe = r.rawDeltas[1].isKeyframe
<1>3. /\ d \in Delta
      /\ \A sound \in BOOLEAN : <<e, S>> \in DeltaHops(sound)[d]
      /\ Known(r, d) /\ d.wireMessage = b /\ d.ids[2] # 0 /\ d.to = S
      /\ ~d.isKeyframe => r.lastPendingId # 0
      /\ Fine(Rehydrated(r), S, S)
      /\ Rehydrated(r).image = r.image /\ Rehydrated(r).current = r.current
      /\ Rehydrated(r).rawDeltas = r.rawDeltas
      /\ Rehydrated(r).decompressedId = r.decompressedId
  BY CompressedHop
<1>4. r \in Tile
  BY DEF Fine
<1>5. FirstDelta(r) \in 1..Len(r.rawDeltas)
  BY <1>4, FirstDeltaType
<1>6. d.isKeyframe = r.rawDeltas[FirstDelta(r)].isKeyframe
  BY DEF CompressedDelta
<1>7. Len(r.rawDeltas) = 1 => FirstDelta(r) = 1
  BY <1>5
<1>8. Len(r.rawDeltas) = 1 => d.isKeyframe = r.rawDeltas[1].isKeyframe
  BY <1>6, <1>7
<1> QED
  BY <1>3, <1>8

\* What waits for the main thread after a tile message.
LEMMA ReceivedWaiting ==
  ASSUME NEW k \in Keys, NEW R \in WireId, NEW S \in WireId, NEW e \in WireId, e <= R,
         NEW t, Fine(t, R, e), NEW m \in TileMsg, m.key = k, <<R, S>> \in MsgHop(m, k),
         NEW sound \in BOOLEAN, NEW ds \in Seq(Delta), NEW ts, NEW c \in WireId,
         Waiting(k, sound, ds, ts, c, e),
         IF k \in DOMAIN ts THEN t = ts[k] ELSE t.lastPendingId = 0,
         NEW r, r = ReceivedTile(t, m), NEW us, k \in DOMAIN us, NEW new, NEW f,
         Emitted(r, ds, e, S, us[k], new, f)
  PROVE  Waiting(k, sound, new, us, c, f)
<1>1. /\ Leads(ds, DeltaHops(FALSE), c, e)
      /\ \A i \in 1..Len(ds) : ds[i].ids[2] # 0
      /\ sound /\ ds # <<>> =>
           k \in DOMAIN ts /\ \E x \in 0..Len(ds) : Usable(ts[k], ds, x, c)
      /\ sound /\ ds = <<>> /\ k \in DOMAIN ts =>
           (ts[k].lastPendingId # 0 => ts[k].decompressedId # 0)
  BY DEF Waiting
<1>2. /\ Fine(r, S, e)
      /\ r.image = t.image /\ r.current = t.current
      /\ r.lastPendingId = t.lastPendingId /\ r.decompressedId = t.decompressedId
      /\ \A i \in 1..Len(t.rawDeltas) :
              \E j \in 1..Len(r.rawDeltas) : r.rawDeltas[j].id = t.rawDeltas[i].id
      /\ t.rawDeltas = <<>> =>
              \/ r.rawDeltas = <<>>
              \/ /\ Len(r.rawDeltas) = 1 /\ r.rawDeltas[1].isKeyframe
                 /\ NeedsRehydration(r)
  <2>1. /\ Fine(ReceivedTile(t, m), S, e)
        /\ ReceivedTile(t, m).image = t.image
        /\ ReceivedTile(t, m).current = t.current
        /\ ReceivedTile(t, m).lastPendingId = t.lastPendingId
        /\ ReceivedTile(t, m).decompressedId = t.decompressedId
        /\ \A i \in 1..Len(t.rawDeltas) :
              \E j \in 1..Len(ReceivedTile(t, m).rawDeltas) :
                ReceivedTile(t, m).rawDeltas[j].id = t.rawDeltas[i].id
        /\ t.rawDeltas = <<>> =>
              \/ ReceivedTile(t, m).rawDeltas = <<>>
              \/ /\ Len(ReceivedTile(t, m).rawDeltas) = 1
                 /\ ReceivedTile(t, m).rawDeltas[1].isKeyframe
                 /\ NeedsRehydration(ReceivedTile(t, m))
    BY ReceivedFine
  <2> QED
    BY <2>1
<1>3. Knowing(t, r)
  BY <1>2 DEF Knowing
<1>4. sound /\ ds = <<>> => (t.lastPendingId # 0 => t.decompressedId # 0)
  BY <1>1
<1>5. ASSUME sound, ds # <<>>
      PROVE  \E x \in 0..Len(ds) : Usable(t, ds, x, c)
  BY <1>1, <1>5
<1>6. e <= S
  <2>1. R <= S
    BY DEF MsgHop, TileMsg
  <2>2. \A x \in WireId : x \in Nat
    BY WireAssumption DEF WireId
  <2> QED
    BY <2>1, <2>2
<1>7. CASE ~(r.current /\ NeedsRehydration(r))
  <2>1. us[k] = r /\ new = ds /\ f = e
    BY <1>7 DEF Emitted
  <2>2. ASSUME sound, ds # <<>> PROVE \E x \in 0..Len(ds) : Usable(r, ds, x, c)
    <3>1. PICK x \in 0..Len(ds) : Usable(t, ds, x, c)
      BY <1>5, <2>2
    <3>2. t.current /\ t.rawDeltas = <<>> => r.rawDeltas = <<>>
      BY <1>2, <1>7
    <3>3. Usable(r, ds, x, c)
      BY <1>2, <1>3, <3>1, <3>2, KeepUsable
    <3> QED
      BY <3>3
  <2> QED
    BY <1>1, <1>2, <1>4, <2>1, <2>2 DEF Waiting
<1>8. CASE r.current /\ NeedsRehydration(r)
  <2>0. PICK b \in BOOLEAN : b = TRUE
    OBVIOUS
  <2>1. PICK d, u : d = CompressedDelta(r, b) /\ u = Rehydrated(r)
    OBVIOUS
  <2>2. us[k] = u /\ new = Append(ds, d) /\ f = S
    BY <1>8, <2>0, <2>1 DEF Emitted
  <2>3. /\ d \in Delta
        /\ \A x \in BOOLEAN : <<e, S>> \in DeltaHops(x)[d]
        /\ Known(r, d) /\ d.wireMessage = b /\ d.ids[2] # 0
        /\ ~d.isKeyframe => r.lastPendingId # 0
        /\ u.rawDeltas = r.rawDeltas
        /\ u.decompressedId = r.decompressedId
        /\ Len(r.rawDeltas) = 1 => d.isKeyframe = r.rawDeltas[1].isKeyframe
    <3>0. Fine(r, S, e) /\ NeedsRehydration(r)
      BY <1>2, <1>8
    <3>1. /\ d \in Delta
          /\ \A x \in BOOLEAN : <<e, S>> \in DeltaHops(x)[d]
          /\ Known(r, d) /\ d.wireMessage = b /\ d.ids[2] # 0
          /\ ~d.isKeyframe => r.lastPendingId # 0
          /\ Fine(Rehydrated(r), S, S)
          /\ Rehydrated(r).image = r.image /\ Rehydrated(r).current = r.current
          /\ Rehydrated(r).rawDeltas = r.rawDeltas
          /\ Rehydrated(r).decompressedId = r.decompressedId
          /\ Len(r.rawDeltas) = 1 => d.isKeyframe = r.rawDeltas[1].isKeyframe
      BY <1>6, <2>1, <3>0, EmittedDelta
    <3> QED
      BY <2>1, <3>1
  <2>4. Knowing(t, u) /\ Known(u, d) /\ u.decompressedId = t.decompressedId
    BY <1>2, <1>3, <2>3 DEF Knowing, Known
  <2>5. Leads(new, DeltaHops(FALSE), c, S)
    BY <1>1, <2>2, <2>3, LeadsAppend
  <2>6. /\ Len(new) = Len(ds) + 1 /\ new[Len(ds) + 1] = d /\ new # <<>>
        /\ \A i \in 1..Len(ds) : new[i] = ds[i]
    <3>1. d \in Delta
      BY <2>3
    <3>2. PICK q : q = Append(ds, d)
      OBVIOUS
    <3>3. /\ Len(q) = Len(ds) + 1 /\ q[Len(ds) + 1] = d /\ q # <<>>
          /\ \A i \in 1..Len(ds) : q[i] = ds[i]
      BY <3>1, <3>2
    <3> QED
      BY <2>2, <3>2, <3>3
  <2>7. \A i \in 1..Len(new) : new[i].ids[2] # 0
    <3>1. \A i \in 1..Len(new) : i \in 1..Len(ds) \/ i = Len(ds) + 1
      BY <2>6
    <3> QED
      BY <1>1, <2>3, <2>6, <3>1
  <2>8. ASSUME sound PROVE ~d.isKeyframe => d.from = e
    <3>1. <<e, S>> \in DeltaHops(sound)[d]
      BY <2>3
    <3> QED
      BY <2>3, <2>8, <3>1 DEF DeltaHops, DeltaHop
  <2>9. ASSUME sound, ds = <<>> PROVE Usable(u, new, 0, c)
    <3>1. c = e
      BY <1>1, <2>9, LeadsNowhere
    <3>2. Len(new) = 1 /\ new[1] = d
      BY <2>6, <2>9
    <3>3. ~d.isKeyframe => u.decompressedId # 0
      BY <1>2, <1>4, <2>3, <2>4, <2>9
    <3>4. \A i \in (0 + 1)..Len(new) : i = 1
      BY <3>2
    <3>5. \A i \in 1..0 : FALSE
      OBVIOUS
    <3> QED
      BY <2>4, <2>8, <2>9, <3>1, <3>2, <3>3, <3>4, <3>5 DEF Usable
  <2>10. ASSUME sound, ds # <<>> PROVE \E x \in 0..Len(ds) : Usable(u, new, x, c)
    <3>1. PICK x \in 0..Len(ds) : Usable(t, ds, x, c)
      BY <1>5, <2>10
    <3>2. ds[Len(ds)].to = e
      BY <1>1, <2>10, LooseDeltas
    <3>3. ASSUME x = Len(ds) PROVE d.isKeyframe
      <4>1. t.rawDeltas = <<>>
        <5>1. Len(ds) # 0
          BY <2>10
        <5> QED
          BY <3>1, <3>3, <5>1 DEF Usable
      <4>2. r.rawDeltas # <<>>
        BY <1>8 DEF NeedsRehydration, HasKeyframe
      <4> QED
        BY <1>2, <2>3, <4>1, <4>2
    <3>4. Usable(u, Append(ds, d), x, c)
      BY <2>3, <2>4, <2>8, <2>10, <3>1, <3>2, <3>3, AppendUsable
    <3> QED
      BY <2>2, <3>4
  <2>11. ASSUME sound PROVE \E x \in 0..Len(new) : Usable(u, new, x, c)
    <3>1. CASE ds = <<>>
      <4>1. 0 \in 0..Len(new)
        BY <2>6
      <4> QED
        BY <2>9, <2>11, <3>1, <4>1
    <3>2. CASE ds # <<>>
      <4>1. PICK x \in 0..Len(ds) : Usable(u, new, x, c)
        BY <2>10, <2>11, <3>2
      <4>2. x \in 0..Len(new)
        BY <2>6
      <4> QED
        BY <4>1, <4>2
    <3> QED
      BY <3>1, <3>2
  <2> QED
    BY <2>2, <2>5, <2>6, <2>7, <2>11 DEF Waiting
<1> QED
  BY <1>7, <1>8

\* One more delta waits for a worker.
LEMMA WorkerAppend ==
  ASSUME NEW k \in Keys, NEW sound, NEW shown, NEW answers, NEW image, NEW tasks,
         NEW ds \in Seq(Delta), NEW e, NEW S \in WireId,
         WorkerLine(k, sound, shown, answers, image, tasks, ds, e),
         NEW d \in Delta, <<e, S>> \in DeltaHops(sound)[d]
  PROVE  WorkerLine(k, sound, shown, answers, image, tasks, Append(ds, d), S)
<1>1. PICK x1 \in WireId, x2 \in WireId, x3 \in WireId, x4 \in WireId :
        /\ shown <= x1 /\ Leads(answers, AnswerHops(k, sound), x1, x2)
        /\ x2 <= x3 /\ (sound => x2 = x3 /\ image \in {None, x2})
        /\ Leads(tasks, TaskHops(k, sound), x3, x4)
        /\ Leads(ds, DeltaHops(sound), x4, e)
  BY DEF WorkerLine
<1>2. Leads(Append(ds, d), DeltaHops(sound), x4, S)
  BY <1>1, LeadsAppend
<1> QED
  BY <1>1, <1>2 DEF WorkerLine

\* The line of the tile that a tile message is for.
LEMMA ReceivedLine ==
  ASSUME TInv, NEW k \in Keys, NEW R \in WireId, NEW S \in WireId, NEW e \in WireId, e <= R,
         NEW t, Fine(t, R, e), NEW m \in TileMsg, m.key = k, <<R, S>> \in MsgHop(m, k),
         IF k \in DOMAIN tiles THEN t = tiles[k] ELSE t.lastPendingId = 0,
         NEW r, r = ReceivedTile(t, m),
         Line(k, tiles, pendingDeltas[k], e),
         UNCHANGED <<workers, workerError, newest[k], outbox, workerImages, inbox,
                     bitmapPromises, imageCache>>,
         orphaned \subseteq orphaned', k \in DOMAIN tiles', NEW f,
         Emitted(r, pendingDeltas[k], e, S, tiles'[k], pendingDeltas'[k], f)
  PROVE  AtKey(k, S)'
<1> DEFINE ds == pendingDeltas[k]
           new == pendingDeltas'[k]
<1>1. /\ ds \in Seq(Delta) /\ bitmapPromises \in Seq([Keys -> Image])
      /\ \A x \in WireId : x \in Nat
  BY Types
<1>2. Fine(r, S, e) /\ e <= S
  <2>1. Fine(ReceivedTile(t, m), S, e)
    BY ReceivedFine
  <2>2. R <= S
    BY DEF MsgHop, TileMsg
  <2> QED
    BY <1>1, <2>1, <2>2
<1>3. f \in WireId /\ f <= S /\ Fine(tiles'[k], S, f)
  <2>1. CASE r.current /\ NeedsRehydration(r)
    <3>1. tiles'[k] = Rehydrated(r) /\ f = S
      BY <2>1 DEF Emitted
    <3>0. PICK b \in BOOLEAN : b = TRUE
      OBVIOUS
    <3>2. PICK d : d = CompressedDelta(r, b)
      OBVIOUS
    <3>3. Fine(Rehydrated(r), S, S)
      BY <1>2, <2>1, <3>2, EmittedDelta
    <3> QED
      BY <1>1, <3>1, <3>3
  <2>2. CASE ~(r.current /\ NeedsRehydration(r))
    BY <1>2, <2>2 DEF Emitted
  <2> QED
    BY <2>1, <2>2
<1>4. CASE workers # {}
  <2>0. PICK sound \in BOOLEAN : sound = ~workerError
    OBVIOUS
  <2>1. WorkerLine(k, sound, newest[k], outbox[WorkerOf[k]],
                   workerImages[WorkerOf[k]][k], inbox[WorkerOf[k]], ds, e)
    BY <1>4, <2>0 DEF Line
  <2>2. WorkerLine(k, sound, newest[k], outbox[WorkerOf[k]],
                   workerImages[WorkerOf[k]][k], inbox[WorkerOf[k]], new, f)
    <3>1. CASE r.current /\ NeedsRehydration(r)
      <4>0. PICK b \in BOOLEAN : b = TRUE
        OBVIOUS
      <4>1. PICK d : d = CompressedDelta(r, b)
        OBVIOUS
      <4>2. new = Append(ds, d) /\ f = S
        BY <3>1, <4>0, <4>1 DEF Emitted
      <4>3. d \in Delta /\ \A x \in BOOLEAN : <<e, S>> \in DeltaHops(x)[d]
        BY <1>2, <3>1, <4>1, EmittedDelta
      <4>4. <<e, S>> \in DeltaHops(sound)[d]
        BY <4>3
      <4> HIDE DEF ds, new
      <4>5. WorkerLine(k, sound, newest[k], outbox[WorkerOf[k]],
                   workerImages[WorkerOf[k]][k], inbox[WorkerOf[k]], Append(ds, d), S)
        BY <1>1, <2>1, <4>3, <4>4, WorkerAppend
      <4> QED
        BY <4>2, <4>5
    <3>2. CASE ~(r.current /\ NeedsRehydration(r))
      <4>1. new = ds /\ f = e
        BY <3>2 DEF Emitted
      <4> HIDE DEF ds, new
      <4> QED
        BY <2>1, <4>1
    <3> QED
      BY <3>1, <3>2
  <2>3. Line(k, tiles, pendingDeltas[k], f)'
    BY <1>4, <2>0, <2>2 DEF Line
  <2> QED
    BY <1>3, <2>3 DEF AtKey, Held
<1>5. CASE workers = {}
  <2>0. PICK less \in BOOLEAN, sound \in BOOLEAN :
          less = (k \notin orphaned') /\ sound = (k \notin orphaned)
    OBVIOUS
  <2>1. MainLine(k, sound, newest[k], bitmapPromises, imageCache[k], ds, tiles, e)
    BY <1>5, <2>0 DEF Line
  <2>2. PICK a \in WireId, b \in WireId, c \in WireId :
          /\ newest[k] <= a /\ Leads(bitmapPromises, PromiseHops(k, sound), a, b)
          /\ b <= c /\ (sound => imageCache[k] \in {None, c})
          /\ Waiting(k, sound, ds, tiles, c, e)
    BY <2>1 DEF MainLine
  <2>3. PICK us : us = tiles'
    OBVIOUS
  <2>4. Waiting(k, sound, new, us, c, f)
    <3>1. Emitted(r, ds, e, S, us[k], new, f) /\ k \in DOMAIN us
      BY <2>3
    <3> HIDE DEF ds, new
    <3> QED
      BY <1>1, <2>2, <3>1, ReceivedWaiting
  <2>5. MainLine(k, sound, newest[k], bitmapPromises, imageCache[k], new, us, f)
    BY <2>2, <2>4 DEF MainLine
  <2>6. less => sound
    BY <2>0
  <2>7. MainLine(k, less, newest[k], bitmapPromises, imageCache[k], new, us, f)
    BY <1>1, <2>5, <2>6, MainLoose
  <2>8. Line(k, tiles, pendingDeltas[k], f)'
    BY <1>5, <2>0, <2>3, <2>7 DEF Line
  <2> QED
    BY <1>3, <2>8 DEF AtKey, Held
<1> QED
  BY <1>4, <1>5

\* The stream of each tile goes on from the message that is emitted.
LEMMA EmittedStream ==
  ASSUME TInv, slurpQueue # <<>>, NEW k \in Keys, NEW sent, NEW last, NEW R \in WireId,
         Stream(k, slurpQueue, toClient, sent, last, R)
  PROVE  \E S \in WireId : /\ <<R, S>> \in MsgHops(k)[Head(slurpQueue)]
                           /\ Stream(k, Tail(slurpQueue), toClient, sent, last, S)
<1>1. PICK M \in WireId, G \in WireId :
        /\ Leads(slurpQueue, MsgHops(k), R, M) /\ Leads(toClient, MsgHops(k), M, G)
        /\ sent \in {0, G} /\ G <= last
  BY DEF Stream
<1>2. slurpQueue \in Seq(ServerMsg)
  BY Types
<1>3. PICK S \in WireId : /\ <<R, S>> \in MsgHops(k)[Head(slurpQueue)]
                          /\ Leads(Tail(slurpQueue), MsgHops(k), S, M)
  BY <1>1, <1>2, LeadsTail
<1> QED
  BY <1>1, <1>3 DEF Stream

\* The line of a tile that nothing happens to.
LEMMA OtherLine ==
  ASSUME TInv, NEW k \in Keys, NEW R, AtKey(k, R),
         UNCHANGED <<workers, workerError, newest[k], outbox, workerImages, inbox,
                     bitmapPromises, imageCache, pendingDeltas[k]>>,
         orphaned \subseteq orphaned', k \in DOMAIN tiles <=> k \in DOMAIN tiles',
         k \in DOMAIN tiles => tiles'[k] = tiles[k]
  PROVE  AtKey(k, R)'
<1>1. PICK e \in WireId :
        e <= R /\ Held(k, tiles, R, e) /\ Line(k, tiles, pendingDeltas[k], e)
  BY DEF AtKey
<1>2. Held(k, tiles', R, e)
  BY <1>1 DEF Held
<1>3. CASE workers # {}
  <2>1. Line(k, tiles, pendingDeltas[k], e)'
    BY <1>1, <1>3 DEF Line
  <2> QED
    BY <1>1, <1>2, <2>1 DEF AtKey
<1>4. CASE workers = {}
  <2>0. PICK less \in BOOLEAN, sound \in BOOLEAN :
          less = (k \notin orphaned') /\ sound = (k \notin orphaned)
    OBVIOUS
  <2>1. MainLine(k, sound, newest[k], bitmapPromises, imageCache[k], pendingDeltas[k], tiles, e)
    BY <1>1, <1>4, <2>0 DEF Line
  <2>2. bitmapPromises \in Seq([Keys -> Image])
    BY Types
  <2>3. less => sound
    BY <2>0
  <2>4. MainLine(k, less, newest[k], bitmapPromises, imageCache[k], pendingDeltas[k], tiles, e)
    BY <2>1, <2>2, <2>3, MainLoose
  <2>5. MainLine(k, less, newest[k], bitmapPromises, imageCache[k], pendingDeltas[k], tiles', e)
    BY <2>4 DEF MainLine, Waiting
  <2>6. Line(k, tiles, pendingDeltas[k], e)'
    BY <1>4, <2>0, <2>5 DEF Line
  <2> QED
    BY <1>1, <1>2, <2>6 DEF AtKey
<1> QED
  BY <1>3, <1>4

\* onTileMsg.
LEMMA EmitTileImages ==
  ASSUME TInv, ImagesInv, Recorded, EmitTile
  PROVE  ImagesInv'
<1> DEFINE m == Head(slurpQueue)
           k == m.key
           t == IF k \in DOMAIN tiles THEN tiles[k] ELSE NewTile(k \in view)
           r == ReceivedTile(t, m)
           hydrate == r.current /\ NeedsRehydration(r)
           d == CompressedDelta(r, TRUE)
<1>1. /\ emitting /\ slurpQueue # <<>> /\ m.type = "tile"
      /\ tiles' = [x \in DOMAIN tiles \cup {k} |->
                     IF x # k THEN tiles[x] ELSE IF hydrate THEN Rehydrated(r) ELSE r]
      /\ pendingDeltas' = IF hydrate
           THEN [pendingDeltas EXCEPT ![k] = Append(@, d)] ELSE pendingDeltas
      /\ slurpQueue' = Tail(slurpQueue)
      /\ UNCHANGED <<toClient, emitting>> /\ UNCHANGED tileCache
      /\ UNCHANGED <<workers, workerError, outbox, workerImages, inbox,
                     bitmapPromises, imageCache>>
  BY DEF EmitTile, OnTileMsg, wire, working
<1>2. /\ pendingDeltas \in [Keys -> Seq(Delta)] /\ TilesMap(tiles)
  BY Types
<1>3. m \in TileMsg /\ k \in Keys
  <2>1. m \in TileMsg
    BY <1>1, HeadSlurped DEF TInv
  <2> HIDE DEF m
  <2> QED
    BY <2>1 DEF TileMsg
<1>4. /\ k \in DOMAIN tiles => t = tiles[k]
      /\ k \notin DOMAIN tiles => \E c \in BOOLEAN : t = NewTile(c)
  <2> DEFINE c == (k \in view)
  <2>1. c \in BOOLEAN
    OBVIOUS
  <2>2. t = IF k \in DOMAIN tiles THEN tiles[k] ELSE NewTile(c)
    OBVIOUS
  <2> HIDE DEF t, k, c
  <2> QED
    BY <2>1, <2>2
<1>5. t \in Tile
  BY <1>2, <1>4, NewTileType DEF TilesMap
<1>6. /\ \A x \in Keys : x # k =>
           /\ x \in DOMAIN tiles <=> x \in DOMAIN tiles'
           /\ x \in DOMAIN tiles => tiles'[x] = tiles[x]
           /\ pendingDeltas'[x] = pendingDeltas[x]
      /\ k \in DOMAIN tiles'
      /\ tiles'[k] = IF hydrate THEN Rehydrated(r) ELSE r
      /\ pendingDeltas'[k] = IF hydrate THEN Append(pendingDeltas[k], d) ELSE pendingDeltas[k]
      /\ hydrate <=> r.current /\ NeedsRehydration(r)
  BY <1>1, <1>2, <1>3
<1>7. r = ReceivedTile(t, m) /\ d = CompressedDelta(r, TRUE)
  OBVIOUS
<1> HIDE DEF m, k, t, r, hydrate, d
<1>8. /\ CacheFit /\ OwnWork /\ ModeOK /\ \A x \in Keys : KeyOK(x) /\ ImageOK(x)
      /\ orphaned \subseteq orphaned'
  BY DEF ImagesInv, Recorded
<1>9. r.image = t.image /\ Rehydrated(r).image = r.image
  <2>1. r \in Tile
    BY <1>3, <1>5, <1>7, ReceivedTileType
  <2>2. r.image = t.image
    BY <1>5, <1>7 DEF ReceivedTile, ForceKeyframe, Tile
  <2> QED
    BY <2>1, <2>2 DEF Rehydrated, Tile
<1>10. ASSUME NEW x \in Keys PROVE newest'[x] = newest[x] /\ ImageOK(x)'
  <2>1. x \in DOMAIN tiles' =>
           \/ tiles'[x].image = None
           \/ x \in DOMAIN tiles /\ tiles'[x].image = tiles[x].image
    <3>1. CASE x # k
      BY <1>6, <3>1
    <3>2. CASE x = k
      <4>1. tiles'[x].image = t.image
        BY <1>6, <1>9, <3>2
      <4>2. x \notin DOMAIN tiles => t.image = None
        BY <1>4, <3>2 DEF NewTile
      <4> QED
        BY <1>4, <3>2, <4>1, <4>2
    <3> QED
      BY <3>1, <3>2
  <2>2. Sound(x)' => Sound(x)
    BY <1>1, <1>8 DEF Sound
  <2> QED
    BY <1>8, <2>1, <2>2, QuietHistory
<1>11. CacheFit' /\ OwnWork'
  BY <1>1, <1>8, SameCache, SameWork
<1>12. ModeOK'
  <2>1. ASSUME NEW x \in Keys, NEW i \in 1..Len(pendingDeltas'[x])
        PROVE  pendingDeltas'[x][i].wireMessage
    <3>1. CASE pendingDeltas'[x] = pendingDeltas[x]
      BY <1>8, <2>1, <3>1 DEF ModeOK
    <3>2. CASE pendingDeltas'[x] # pendingDeltas[x]
      <4>1. x = k /\ pendingDeltas'[x] = Append(pendingDeltas[x], d) /\ NeedsRehydration(r)
        BY <1>6, <3>2
      <4>2. d.wireMessage
        BY <1>7 DEF CompressedDelta
      <4>3. pendingDeltas[x] \in Seq(Delta)
        BY <1>2
      <4>4. d \in Delta
        <5>1. PICK b \in BOOLEAN : b = TRUE
          OBVIOUS
        <5>2. CompressedDelta(r, b) \in Delta
          BY <1>3, <1>5, <1>7, <4>1, ReceivedTileType, CompressedDeltaType
        <5> QED
          BY <1>7, <5>1, <5>2
      <4>5. \/ i \in 1..Len(pendingDeltas[x]) /\ pendingDeltas'[x][i] = pendingDeltas[x][i]
            \/ pendingDeltas'[x][i] = d
        BY <4>1, <4>3, <4>4
      <4> QED
        BY <1>8, <4>2, <4>5 DEF ModeOK
    <3> QED
      BY <3>1, <3>2
  <2> QED
    BY <1>1, <1>8, <2>1 DEF ModeOK
<1>13. ASSUME NEW x \in Keys PROVE KeyOK(x)'
  <2>1. PICK R \in WireId :
          Stream(x, slurpQueue, toClient, lastSent[x], cache[x].last, R) /\ AtKey(x, R)
    BY <1>8 DEF KeyOK
  <2>2. PICK S \in WireId :
          /\ <<R, S>> \in MsgHops(x)[m]
          /\ Stream(x, Tail(slurpQueue), toClient, lastSent[x], cache[x].last, S)
    BY <1>1, <2>1, EmittedStream DEF m
  <2>3. Stream(x, slurpQueue', toClient', lastSent'[x], cache'[x].last, S)
    BY <1>1, <2>2 DEF tileCache
  <2>4. m \in ServerMsg
    BY <1>3 DEF ServerMsg
  <2>5. CASE x # k
    <3>1. R = S
      BY <2>2, <2>4, <2>5, OtherMsgOnly DEF k
    <3>2. /\ UNCHANGED <<workers, workerError, newest[x], outbox, workerImages, inbox,
                         bitmapPromises, imageCache, pendingDeltas[x]>>
          /\ x \in DOMAIN tiles <=> x \in DOMAIN tiles'
          /\ x \in DOMAIN tiles => tiles'[x] = tiles[x]
      BY <1>1, <1>6, <1>10, <2>5
    <3>3. AtKey(x, R)'
      BY <1>8, <2>1, <3>2, OtherLine
    <3> QED
      BY <2>3, <3>1, <3>3 DEF KeyOK
  <2>6. CASE x = k
    <3>1. PICK e \in WireId :
            e <= R /\ Held(x, tiles, R, e) /\ Line(x, tiles, pendingDeltas[x], e)
      BY <2>1 DEF AtKey
    <3>2. Fine(t, R, e) /\ (IF x \in DOMAIN tiles THEN t = tiles[x] ELSE t.lastPendingId = 0)
      BY <1>4, <2>6, <3>1, NewTileFine DEF Held
    <3>3. <<R, S>> \in MsgHop(m, x)
      BY <2>2, <2>4 DEF MsgHops
    <3>4. PICK f : f = IF hydrate THEN S ELSE e
      OBVIOUS
    <3>5. Emitted(r, pendingDeltas[x], e, S, tiles'[x], pendingDeltas'[x], f)
      BY <1>6, <1>7, <2>6, <3>4 DEF Emitted
    <3>6. m.key = x /\ x \in DOMAIN tiles'
      BY <1>6, <2>6 DEF k
    <3>7. UNCHANGED <<workers, workerError, newest[x], outbox, workerImages, inbox,
                      bitmapPromises, imageCache>>
      BY <1>1, <1>10
    <3>8. AtKey(x, S)'
      BY <1>3, <1>7, <1>8, <3>1, <3>2, <3>3, <3>5, <3>6, <3>7, ReceivedLine
    <3> QED
      BY <2>3, <3>8 DEF KeyOK
  <2> QED
    BY <2>5, <2>6
<1> QED
  BY <1>10, <1>11, <1>12, <1>13 DEF ImagesInv

\* A tile that redraw() has created.
Fresh(k, ts) ==
    k \in DOMAIN ts =>
      ts[k].current /\ ts[k].rawDeltas = <<>> /\ ts[k].lastPendingId = 0

\* After redraw() what waits for the main thread is for a tile that has nothing
\* else yet, or for no tile.
LEMMA RedrawnWaiting ==
  ASSUME NEW k \in Keys, NEW sound \in BOOLEAN, NEW less \in BOOLEAN, less => sound,
         NEW ds \in Seq(Delta), \A i \in 1..Len(ds) : ds[i].wireMessage,
         NEW ts, NEW c, NEW e, Waiting(k, sound, ds, ts, c, e), NEW us,
         Fresh(k, us), less /\ ds # <<>> => k \in DOMAIN us
  PROVE  Waiting(k, less, ds, us, c, e)
<1>1. /\ Leads(ds, DeltaHops(FALSE), c, e)
      /\ \A i \in 1..Len(ds) : ds[i].ids[2] # 0
  BY DEF Waiting
<1>2. k \in DOMAIN us =>
        us[k].current /\ us[k].rawDeltas = <<>> /\ us[k].lastPendingId = 0
  BY DEF Fresh
<1>3. ASSUME less, ds # <<>> PROVE \E m \in 0..Len(ds) : Usable(us[k], ds, m, c)
  <2> DEFINE n == Len(ds)
  <2>1. n \in 0..Len(ds) /\ n # 0 /\ \A i \in (n + 1)..Len(ds) : FALSE
    BY <1>3
  <2>2. Usable(us[k], ds, n, c)
    BY <1>2, <1>3, <2>1 DEF Usable
  <2> HIDE DEF n
  <2> QED
    BY <2>1, <2>2
<1> QED
  BY <1>1, <1>2, <1>3 DEF Waiting

\* canonicalidchange: redraw() removes all tiles.
LEMMA EmitCanonicalImages ==
  ASSUME TInv, ImagesInv, Recorded, EmitCanonical
  PROVE  ImagesInv'
<1>1. PICK area \in Areas(view) : OnCanonicalIdChange(area) /\ UNCHANGED tileCache
  BY DEF EmitCanonical
<1> DEFINE m == Head(slurpQueue)
<1>2. /\ emitting /\ slurpQueue # <<>> /\ m.type = "canonicalidchange"
      /\ tiles' = RedrawnTiles(area) /\ imageCache' = ForgetImages(tiles, Keys)
      /\ slurpQueue' = Tail(slurpQueue)
      /\ UNCHANGED <<toClient, emitting, pendingDeltas>> /\ UNCHANGED tileCache
      /\ UNCHANGED <<workers, workerError, outbox, workerImages, inbox, bitmapPromises>>
  BY <1>1 DEF OnCanonicalIdChange, wire
<1>3. /\ pendingDeltas \in [Keys -> Seq(Delta)] /\ bitmapPromises \in Seq([Keys -> Image])
      /\ slurpQueue \in Seq(ServerMsg)
  BY Types
<1>4. m \in ServerMsg /\ m.type # "tile"
  <2>1. m \in ServerMsg
    BY <1>2, <1>3, TailItems
  <2> QED
    BY <1>2, <2>1
<1>5. \A k \in Keys : imageCache'[k] \in {None, imageCache[k]}
  BY <1>2, ForgetLess
<1>6. /\ CacheFit /\ OwnWork /\ ModeOK /\ \A k \in Keys : KeyOK(k) /\ ImageOK(k)
      /\ orphaned \subseteq orphaned'
  BY DEF ImagesInv, Recorded
<1>7. /\ DOMAIN tiles' = area
      /\ \A k \in DOMAIN tiles' : tiles'[k] = NewTile(TRUE)
  BY <1>2 DEF RedrawnTiles
<1>8. ASSUME NEW k \in Keys PROVE newest'[k] = newest[k] /\ ImageOK(k)'
  <2>1. k \in DOMAIN tiles' => tiles'[k].image = None
    BY <1>7 DEF NewTile
  <2> QED
    BY <1>6, <2>1, QuietHistory
<1>9. CacheFit' /\ OwnWork'
  BY <1>2, <1>6, SameCache, SameWork
<1>10. ModeOK'
  <2>1. ASSUME workers # {} PROVE imageCache' = NoBitmaps
    <3>1. \A k \in Keys : imageCache'[k] = None
      BY <1>5, <1>6, <2>1 DEF ModeOK, NoBitmaps
    <3>2. imageCache' \in [Keys -> Image]
      BY <1>2, ForgetLess
    <3> QED
      BY <3>1, <3>2 DEF NoBitmaps
  <2> QED
    BY <1>2, <1>6, <2>1 DEF ModeOK
<1>11. ASSUME NEW k \in Keys, NEW R \in WireId, AtKey(k, R) PROVE AtKey(k, R)'
  <2>1. PICK e \in WireId :
          e <= R /\ Held(k, tiles, R, e) /\ Line(k, tiles, pendingDeltas[k], e)
    BY <1>11 DEF AtKey
  <2>2. Held(k, tiles', R, e)
    <3>1. PICK c \in BOOLEAN : c = TRUE
      OBVIOUS
    <3>2. Fine(NewTile(c), R, e)
      BY NewTileFine
    <3> QED
      BY <1>7, <3>1, <3>2 DEF Held
  <2>3. CASE workers # {}
    <3>1. Line(k, tiles, pendingDeltas[k], e)'
      BY <1>2, <1>8, <2>1, <2>3 DEF Line
    <3> QED
      BY <2>1, <2>2, <3>1 DEF AtKey
  <2>4. CASE workers = {}
    <3>0. PICK less \in BOOLEAN, sound \in BOOLEAN :
            less = (k \notin orphaned') /\ sound = (k \notin orphaned)
      OBVIOUS
    <3>1. MainLine(k, sound, newest[k], bitmapPromises, imageCache[k], pendingDeltas[k],
                   tiles, e)
      BY <2>1, <2>4, <3>0 DEF Line
    <3>2. less => sound
      BY <1>6, <3>0
    <3>3. PICK a \in WireId, b \in WireId, c \in WireId :
            /\ newest[k] <= a /\ Leads(bitmapPromises, PromiseHops(k, sound), a, b)
            /\ b <= c /\ (sound => imageCache[k] \in {None, c})
            /\ Waiting(k, sound, pendingDeltas[k], tiles, c, e)
      BY <3>1 DEF MainLine
    <3>4. PICK us : us = tiles'
      OBVIOUS
    <3>5. less /\ pendingDeltas[k] # <<>> => k \in DOMAIN us
      BY <2>4, <3>0, <3>4 DEF Recorded, Orphans
    <3>6. \A i \in 1..Len(pendingDeltas[k]) : pendingDeltas[k][i].wireMessage
      BY <1>6 DEF ModeOK
    <3>7. Fresh(k, us)
      BY <1>7, <3>4 DEF Fresh, NewTile
    <3>8. pendingDeltas[k] \in Seq(Delta)
      BY <1>3
    <3>9. Waiting(k, less, pendingDeltas[k], us, c, e)
      BY <3>2, <3>3, <3>5, <3>6, <3>7, <3>8, RedrawnWaiting
    <3>10. Leads(bitmapPromises, PromiseHops(k, less), a, b)
      BY <1>3, <3>2, <3>3, HopsLoose, LeadsWeaker
    <3>11. less => imageCache'[k] \in {None, c}
      BY <1>5, <3>2, <3>3
    <3>12. MainLine(k, less, newest[k], bitmapPromises, imageCache'[k], pendingDeltas[k],
                    us, e)
      BY <3>3, <3>9, <3>10, <3>11 DEF MainLine
    <3>13. Line(k, tiles, pendingDeltas[k], e)'
      BY <1>2, <1>8, <2>4, <3>0, <3>4, <3>12 DEF Line
    <3> QED
      BY <2>1, <2>2, <3>13 DEF AtKey
  <2> QED
    BY <2>3, <2>4
<1>12. ASSUME NEW k \in Keys PROVE KeyOK(k)'
  <2>1. PICK R \in WireId :
          Stream(k, slurpQueue, toClient, lastSent[k], cache[k].last, R) /\ AtKey(k, R)
    BY <1>6 DEF KeyOK
  <2>2. PICK S \in WireId :
          /\ <<R, S>> \in MsgHops(k)[m]
          /\ Stream(k, Tail(slurpQueue), toClient, lastSent[k], cache[k].last, S)
    BY <1>2, <2>1, EmittedStream DEF m
  <2>3. R = S
    BY <1>4, <2>2, OtherMsgOnly
  <2>4. Stream(k, slurpQueue', toClient', lastSent'[k], cache'[k].last, R)
    BY <1>2, <2>2, <2>3 DEF tileCache
  <2> QED
    BY <1>11, <2>1, <2>4 DEF KeyOK
<1> QED
  BY <1>8, <1>9, <1>10, <1>12 DEF ImagesInv

\* Where redraw() is called without anything that waits.
LEMMA RedrawnHeld ==
  ASSUME NEW area, NEW us, us = RedrawnTiles(area), NEW k, NEW R, NEW e
  PROVE  /\ Held(k, us, R, e)
         /\ k \in DOMAIN us => us[k].image = None /\ us[k].lastPendingId = 0
<1>1. PICK c \in BOOLEAN : c = TRUE
  OBVIOUS
<1>2. Fine(NewTile(c), R, e) /\ NewTile(c).image = None /\ NewTile(c).lastPendingId = 0
  BY NewTileFine
<1>3. k \in DOMAIN us => us[k] = NewTile(c)
  BY <1>1 DEF RedrawnTiles
<1> QED
  BY <1>2, <1>3 DEF Held

\* onWorkerError: the workers are terminated.
LEMMA WorkersFailImages ==
  ASSUME TInv, ImagesInv, Recorded, WorkersFail
  PROVE  ImagesInv'
<1>1. PICK area \in Areas(view) : OnWorkerError(area) /\ UNCHANGED tileCache
  BY DEF WorkersFail
<1>2. /\ ~emitting /\ workerError /\ workers' = {} /\ workerError' = FALSE
      /\ inbox' = [w \in Workers |-> <<>>] /\ outbox' = [w \in Workers |-> <<>>]
      /\ tiles' = RedrawnTiles(area) /\ imageCache' = ForgetImages(tiles, Keys)
      /\ pendingDeltas' = NoDeltas
      /\ UNCHANGED <<toClient, slurpQueue, emitting, workerImages, bitmapPromises>>
      /\ UNCHANGED tileCache
  BY <1>1 DEF OnWorkerError
<1>3. /\ CacheFit /\ OwnWork /\ ModeOK /\ \A k \in Keys : KeyOK(k) /\ ImageOK(k)
      /\ orphaned \subseteq orphaned'
  BY DEF ImagesInv, Recorded
<1>4. workers # {} /\ imageCache = NoBitmaps /\ bitmapPromises = <<>>
      /\ pendingDeltas = NoDeltas
  BY <1>2, <1>3 DEF ModeOK
<1>5. \A k \in Keys : imageCache'[k] = None
  <2>1. \A k \in Keys : imageCache'[k] \in {None, imageCache[k]}
    BY <1>2, ForgetLess
  <2> QED
    BY <1>4, <2>1 DEF NoBitmaps
<1>6. ASSUME NEW k \in Keys PROVE newest'[k] = newest[k] /\ ImageOK(k)'
  <2>1. k \in DOMAIN tiles' => tiles'[k].image = None
    BY <1>2, RedrawnHeld
  <2> QED
    BY <1>3, <2>1, QuietHistory
<1>7. CacheFit'
  BY <1>2, <1>3, SameCache
<1>8. OwnWork'
  <2>1. <<>> \in Seq({})
    OBVIOUS
  <2>2. \A w \in Workers : inbox'[w] = <<>> /\ outbox'[w] = <<>>
    BY <1>2
  <2>3. \A S : <<>> \in Seq(S)
    OBVIOUS
  <2> QED
    BY <1>2, <1>3, <2>2, <2>3 DEF OwnWork
<1>9. ModeOK'
  <2>1. \A k \in Keys : Len(NoDeltas[k]) = 0
    BY DEF NoDeltas
  <2> QED
    BY <1>2, <2>1 DEF ModeOK
<1>10. ASSUME NEW k \in Keys, NEW R \in WireId, AtKey(k, R) PROVE AtKey(k, R)'
  <2>1. PICK e \in WireId :
          e <= R /\ Held(k, tiles, R, e) /\ Line(k, tiles, pendingDeltas[k], e)
    BY <1>10 DEF AtKey
  <2>2. WorkerLine(k, FALSE, newest[k], outbox[WorkerOf[k]],
                   workerImages[WorkerOf[k]][k], inbox[WorkerOf[k]], pendingDeltas[k], e)
    BY <1>2, <1>4, <2>1 DEF Line
  <2>3. /\ newest[k] \in WireId /\ outbox[WorkerOf[k]] \in Seq(Answered)
        /\ inbox[WorkerOf[k]] \in Seq(Task) /\ pendingDeltas[k] \in Seq(Delta)
    BY <1>4, Types
  <2>4. newest[k] <= e
    <3>1. PICK x \in BOOLEAN : x = FALSE
      OBVIOUS
    <3>2. WorkerLine(k, x, newest[k], outbox[WorkerOf[k]],
                   workerImages[WorkerOf[k]][k], inbox[WorkerOf[k]], pendingDeltas[k], e)
      BY <2>2, <3>1
    <3> QED
      BY <2>3, <3>2, WorkerForward
  <2>5. PICK us : us = tiles'
    OBVIOUS
  <2>6. Held(k, us, R, e) /\ (k \in DOMAIN us => us[k].lastPendingId = 0)
    BY <1>2, <2>5, RedrawnHeld
  <2>7. \A sound : Waiting(k, sound, <<>>, us, e, e)
    <3>1. Leads(<<>>, DeltaHops(FALSE), e, e)
      BY LeadsNowhere
    <3>2. \A i \in 1..Len(<<>>) : FALSE
      OBVIOUS
    <3> QED
      BY <2>6, <3>1, <3>2 DEF Waiting
  <2>8. PICK less \in BOOLEAN : less = (k \notin orphaned')
    OBVIOUS
  <2>9. MainLine(k, less, newest[k], <<>>, imageCache'[k], <<>>, us, e)
    <3>1. Leads(<<>>, PromiseHops(k, less), e, e)
      BY LeadsNowhere
    <3>2. e <= e
      BY Types
    <3> QED
      BY <1>5, <2>4, <2>7, <3>1, <3>2 DEF MainLine
  <2>10. Line(k, tiles, pendingDeltas[k], e)'
    BY <1>2, <1>4, <1>6, <2>5, <2>8, <2>9 DEF Line, NoDeltas
  <2> QED
    BY <2>1, <2>5, <2>6, <2>10 DEF AtKey
<1>11. \A k \in Keys : KeyOK(k)'
  BY <1>2, <1>3, <1>10, SameStream
<1> QED
  BY <1>6, <1>7, <1>8, <1>9, <1>11 DEF ImagesInv

\* A worker handles a task, or throws in the middle of one.
LEMMA WorkerImages ==
  ASSUME TInv, ImagesInv, Recorded, NEW w \in Workers, WorkerStep(w)
  PROVE  ImagesInv'
<1> DEFINE task == Head(inbox[w])
           kept == Kept(w, task)
           throwing == Throwing(w, task)
           bitmaps == [k \in Keys |-> Images(kept[k], task.deltas[k])]
           images == [k \in Keys |-> IF bitmaps[k] = <<>> THEN kept[k]
                                     ELSE bitmaps[k][Len(bitmaps[k])]]
           answer == [deltas |-> task.deltas, bitmaps |-> bitmaps]
<1>1. /\ w \in workers /\ inbox[w] # <<>>
      /\ inbox' = [inbox EXCEPT ![w] = Tail(@)]
      /\ IF throwing # {}
         THEN /\ \E partial \in [Keys -> Image] :
                   /\ \A k \in Keys :
                        partial[k] \in {kept[k]} \cup
                          (IF k \in throwing THEN {} ELSE Range(bitmaps[k]))
                   /\ workerImages' = [workerImages EXCEPT ![w] = partial]
              /\ workerError' = TRUE
              /\ outbox' = outbox
         ELSE /\ workerImages' = [workerImages EXCEPT ![w] = images]
              /\ outbox' = [outbox EXCEPT ![w] = Append(@, answer)]
              /\ workerError' = workerError
      /\ UNCHANGED <<wire, tiles, view, pendingDeltas, drawing, slurping, fetching,
                     nPendingWorkerTasks, cachedTiles, imageCache, workers,
                     bitmapPromises>>
      /\ UNCHANGED tileCache
  BY DEF WorkerStep, WorkerMessage
<1>2. /\ UNCHANGED <<toClient, slurpQueue, emitting, tiles, pendingDeltas, imageCache,
                     workers, bitmapPromises>>
      /\ UNCHANGED tileCache
  BY <1>1 DEF wire, slurping
<1>3. /\ CacheFit /\ OwnWork /\ ModeOK /\ \A k \in Keys : KeyOK(k) /\ ImageOK(k)
  BY DEF ImagesInv
<1>4. /\ inbox \in [Workers -> Seq(Task)] /\ outbox \in [Workers -> Seq(Answered)]
      /\ workerImages \in [Workers -> [Keys -> Image]]
      /\ workerError \in BOOLEAN
      /\ inbox[w] \in Seq(OwnTask(w)) /\ outbox[w] \in Seq(OwnAnswer(w))
      /\ \A k \in Keys : WorkerOf[k] # w => workerImages[w][k] = None
      /\ \A k \in Keys : WorkerOf[k] \in Workers
  BY <1>1, <1>3, Types DEF OwnWork
<1>5. /\ task \in OwnTask(w) /\ Tail(inbox[w]) \in Seq(OwnTask(w))
      /\ Tail(inbox[w]) \in Seq(Task)
  <2>1. inbox[w] \in Seq(Task)
    BY <1>4
  <2> QED
    BY <1>1, <1>4, <2>1, TailItems
<1>6. /\ task.deltas \in [Keys -> Seq(Delta)]
      /\ \A k \in Keys : WorkerOf[k] # w => task.deltas[k] = <<>>
  BY <1>5 DEF OwnTask, Task
<1>7. /\ kept \in [Keys -> Image]
      /\ \A k \in Keys : kept[k] \in {None, workerImages[w][k]}
  <2>1. None \in Image
    BY WireAssumption DEF None, Image, WireId
  <2> QED
    BY <1>4, <2>1 DEF Kept
<1>8. \A k \in Keys \ throwing :
        task.deltas[k] # <<>> /\ ~task.deltas[k][1].isKeyframe => kept[k] # None
  BY DEF Throwing
<1> HIDE DEF task, kept, throwing
<1>9. ASSUME NEW k \in Keys
      PROVE  /\ bitmaps[k] = Images(kept[k], task.deltas[k])
             /\ bitmaps[k] \in Seq(Image) /\ Len(bitmaps[k]) = Len(task.deltas[k])
  <2>1. kept[k] \in Image /\ task.deltas[k] \in Seq(Delta)
    BY <1>6, <1>7
  <2>2. /\ Images(kept[k], task.deltas[k]) \in Seq(Image)
        /\ Len(Images(kept[k], task.deltas[k])) = Len(task.deltas[k])
    BY <2>1, ImagesType
  <2> QED
    BY <2>2
<1>10. bitmaps \in [Keys -> Seq(Image)]
  BY <1>9
<1> HIDE DEF bitmaps
<1>11. ASSUME NEW k \in Keys, WorkerOf[k] # w
       PROVE  bitmaps[k] = <<>> /\ kept[k] = None
  <2>1. Len(bitmaps[k]) = 0 /\ bitmaps[k] \in Seq(Image)
    BY <1>6, <1>9, <1>11
  <2> QED
    BY <1>4, <1>7, <1>11, <2>1
<1>12. images \in [Keys -> Image]
  <2>1. ASSUME NEW k \in Keys
        PROVE  (IF bitmaps[k] = <<>> THEN kept[k] ELSE bitmaps[k][Len(bitmaps[k])]) \in Image
    <3>1. bitmaps[k] \in Seq(Image) /\ kept[k] \in Image
      BY <1>7, <1>9
    <3> QED
      BY <3>1
  <2> QED
    BY <2>1
<1>13. \A k \in Keys : images[k] = IF bitmaps[k] = <<>> THEN kept[k]
                                   ELSE bitmaps[k][Len(bitmaps[k])]
  OBVIOUS
<1> HIDE DEF images
<1>14. answer \in OwnAnswer(w) /\ answer \in Answered /\ answer.bitmaps = bitmaps
  BY <1>6, <1>9, <1>10 DEF OwnAnswer, Answered, Answer
<1> HIDE DEF answer
<1>15. inbox' \in [Workers -> Seq(Task)]
       /\ \A v \in Workers : inbox'[v] = IF v = w THEN Tail(inbox[w]) ELSE inbox[v]
  BY <1>1, <1>4, <1>5
<1>16. ASSUME throwing # {}
       PROVE  /\ workerError' = TRUE /\ outbox' = outbox
              /\ workerImages' \in [Workers -> [Keys -> Image]]
              /\ \A v \in Workers \ {w} : workerImages'[v] = workerImages[v]
              /\ \A k \in Keys : WorkerOf[k] # w => workerImages'[w][k] = None
  <2>1. PICK partial \in [Keys -> Image] :
          /\ \A k \in Keys :
               partial[k] \in {kept[k]} \cup
                 (IF k \in throwing THEN {} ELSE Range(bitmaps[k]))
          /\ workerImages' = [workerImages EXCEPT ![w] = partial]
    BY <1>1, <1>16
  <2>2. Range(<<>>) = {}
    BY DEF Range
  <2>3. \A k \in Keys : WorkerOf[k] # w => partial[k] = None
    BY <1>11, <2>1, <2>2
  <2> QED
    BY <1>1, <1>4, <1>16, <2>1, <2>3
<1>17. ASSUME throwing = {}
       PROVE  /\ workerError' = workerError
              /\ outbox' \in [Workers -> Seq(Answered)]
              /\ Append(outbox[w], answer) \in Seq(OwnAnswer(w))
              /\ \A v \in Workers :
                   /\ outbox'[v] = IF v = w THEN Append(outbox[w], answer) ELSE outbox[v]
                   /\ workerImages'[v] = IF v = w THEN images ELSE workerImages[v]
              /\ \A k \in Keys : WorkerOf[k] # w => workerImages'[w][k] = None
  <2>1. Append(outbox[w], answer) \in Seq(OwnAnswer(w))
    BY <1>4, <1>14, AppendItems
  <2>2. outbox[w] \in Seq(Answered)
    BY <1>4
  <2>3. Append(outbox[w], answer) \in Seq(Answered)
    BY <1>14, <2>2, AppendItems
  <2>4. /\ workerImages' = [workerImages EXCEPT ![w] = images]
        /\ outbox' = [outbox EXCEPT ![w] = Append(@, answer)]
        /\ workerError' = workerError
    BY <1>1, <1>17
  <2>5. \A v \in Workers :
          /\ outbox'[v] = IF v = w THEN Append(outbox[w], answer) ELSE outbox[v]
          /\ workerImages'[v] = IF v = w THEN images ELSE workerImages[v]
    BY <1>4, <2>4
  <2>6. outbox' \in [Workers -> Seq(Answered)]
    BY <1>4, <2>3, <2>4
  <2>7. \A k \in Keys : WorkerOf[k] # w => images[k] = None
    BY <1>11, <1>13
  <2> QED
    BY <2>1, <2>4, <2>5, <2>6, <2>7
<1>18. CacheFit'
  BY <1>2, <1>3, SameCache
<1>19. OwnWork'
  <2>1. ASSUME NEW v \in Workers
        PROVE  /\ inbox'[v] \in Seq(OwnTask(v)) /\ outbox'[v] \in Seq(OwnAnswer(v))
               /\ \A k \in Keys : WorkerOf[k] # v => workerImages'[v][k] = None
    <3>1. /\ inbox[v] \in Seq(OwnTask(v)) /\ outbox[v] \in Seq(OwnAnswer(v))
          /\ \A k \in Keys : WorkerOf[k] # v => workerImages[v][k] = None
      BY <1>3 DEF OwnWork
    <3>2. inbox'[v] \in Seq(OwnTask(v))
      BY <1>5, <1>15, <3>1
    <3>3. CASE throwing # {}
      BY <1>16, <3>1, <3>2, <3>3
    <3>4. CASE throwing = {}
      BY <1>17, <3>1, <3>2, <3>4
    <3> QED
      BY <3>3, <3>4
  <2> QED
    BY <2>1 DEF OwnWork
<1>20. ModeOK'
  BY <1>1, <1>2, <1>3 DEF ModeOK
<1>21. ASSUME NEW k \in Keys PROVE newest'[k] = newest[k] /\ ImageOK(k)'
  <2>1. workerError => workerError'
    BY <1>16, <1>17
  <2>2. Sound(k)' => Sound(k)
    BY <1>1, <1>2, <2>1 DEF Sound
  <2>3. k \in DOMAIN tiles' => k \in DOMAIN tiles /\ tiles'[k].image = tiles[k].image
    BY <1>2
  <2> QED
    BY <1>3, <2>2, <2>3, QuietHistory
<1>22. ASSUME NEW k \in Keys, NEW R \in WireId, AtKey(k, R) PROVE AtKey(k, R)'
  <2>1. PICK e \in WireId :
          e <= R /\ Held(k, tiles, R, e) /\ Line(k, tiles, pendingDeltas[k], e)
    BY <1>22 DEF AtKey
  <2>2. PICK sound \in BOOLEAN, less \in BOOLEAN, v \in Workers :
          sound = (~workerError) /\ less = (~workerError') /\ v = WorkerOf[k]
    BY <1>4
  <2>3. WorkerLine(k, sound, newest[k], outbox[v], workerImages[v][k], inbox[v],
                   pendingDeltas[k], e)
    BY <1>1, <2>1, <2>2 DEF Line
  <2>4. /\ pendingDeltas[k] \in Seq(Delta) /\ outbox[v] \in Seq(Answered)
        /\ inbox[v] \in Seq(Task)
    BY <1>4, Types
  <2>5. CASE throwing # {}
    <3>1. less = FALSE /\ outbox'[v] = outbox[v]
      BY <1>16, <2>2, <2>5
    <3>2. PICK rest : rest = inbox'[v]
      OBVIOUS
    <3>3. rest = inbox[v] \/ (inbox[v] # <<>> /\ rest = Tail(inbox[v]))
      BY <1>1, <1>15, <3>2
    <3>4. WorkerLine(k, FALSE, newest[k], outbox[v], workerImages'[v][k], rest,
                     pendingDeltas[k], e)
      BY <2>3, <2>4, <3>3, ThrowOne
    <3> QED
      BY <1>1, <1>2, <1>21, <2>1, <2>2, <3>1, <3>2, <3>4 DEF AtKey, Line
  <2>6. CASE throwing = {} /\ v = w
    <3>1. /\ less = sound /\ outbox'[v] = Append(outbox[v], answer)
          /\ workerImages'[v][k] = images[k] /\ inbox'[v] = Tail(inbox[v])
      BY <1>15, <1>17, <2>2, <2>6
    <3>2. PICK kp, now, todo : kp = kept[k] /\ now = images[k] /\ todo = task.deltas[k]
      OBVIOUS
    <3>3. /\ kp \in Image /\ kp \in {None, workerImages[v][k]}
          /\ todo # <<>> /\ ~todo[1].isKeyframe => kp # None
          /\ todo = Head(inbox[v]).deltas[k] /\ inbox[v] # <<>>
      BY <1>1, <1>7, <1>8, <2>6, <3>2 DEF task
    <3>4. /\ answer \in Answered /\ answer.bitmaps[k] = Images(kp, todo)
          /\ now = IF answer.bitmaps[k] = <<>> THEN kp
                   ELSE answer.bitmaps[k][Len(answer.bitmaps[k])]
      BY <1>9, <1>13, <1>14, <3>2
    <3>5. WorkerLine(k, sound, newest[k], Append(outbox[v], answer), now, Tail(inbox[v]),
                     pendingDeltas[k], e)
      BY <2>3, <2>4, <3>3, <3>4, WorkOne
    <3> QED
      BY <1>1, <1>2, <1>21, <2>1, <2>2, <3>1, <3>2, <3>5 DEF AtKey, Line
  <2>7. CASE throwing = {} /\ v # w
    <3>1. /\ less = sound /\ outbox'[v] = outbox[v]
          /\ workerImages'[v] = workerImages[v] /\ inbox'[v] = inbox[v]
      BY <1>15, <1>17, <2>2, <2>7
    <3> QED
      BY <1>1, <1>2, <1>21, <2>1, <2>2, <2>3, <3>1 DEF AtKey, Line
  <2> QED
    BY <2>5, <2>6, <2>7
<1>23. \A k \in Keys : KeyOK(k)'
  BY <1>2, <1>3, <1>22, SameStream
<1> QED
  BY <1>18, <1>19, <1>20, <1>21, <1>23 DEF ImagesInv

-----------------------------------------------------------------------------
(* The bitmaps come back.                                                  *)

\* A tile gets its bitmap.
LEMMA WithBitmapsLighter ==
  ASSUME NEW ts, TilesMap(ts), NEW b \in [Keys -> Image], NEW k \in DOMAIN ts
  PROVE  /\ k \in DOMAIN WithBitmaps(ts, b)
         /\ Lighter(ts[k], WithBitmaps(ts, b)[k])
         /\ WithBitmaps(ts, b)[k].image = IF b[k] = None THEN ts[k].image ELSE b[k]
         /\ WithBitmaps(ts, b)[k].lastPendingId = ts[k].lastPendingId
         /\ WithBitmaps(ts, b)[k].decompressedId = ts[k].decompressedId
<1>1. k \in Keys /\ ts[k] \in Tile /\ b[k] \in Image
  BY DEF TilesMap
<1> DEFINE t == [ts[k] EXCEPT !.image = b[k]]
<1>2. /\ t \in Tile /\ t.image = b[k]
      /\ t.rawDeltas = ts[k].rawDeltas /\ t.deltaId = ts[k].deltaId
      /\ t.lastPendingId = ts[k].lastPendingId
      /\ t.decompressedId = ts[k].decompressedId
  BY <1>1 DEF Tile
<1>3. WithBitmaps(ts, b)[k] = IF b[k] = None THEN ts[k]
                              ELSE IF IsReady(t) THEN TileReady(t) ELSE t
  BY DEF WithBitmaps
<1>4. k \in DOMAIN WithBitmaps(ts, b)
  BY DEF WithBitmaps
<1> HIDE DEF t
<1>5. PICK u : u = WithBitmaps(ts, b)[k]
  OBVIOUS
<1>6. CASE b[k] = None
  <2>1. u = ts[k]
    BY <1>3, <1>5, <1>6
  <2>2. Lighter(ts[k], ts[k])
    BY <1>1, SameRaw
  <2> QED
    BY <1>4, <1>5, <1>6, <2>1, <2>2
<1>7. CASE b[k] # None /\ ~IsReady(t)
  <2>1. u = t
    BY <1>3, <1>5, <1>7
  <2>2. Lighter(ts[k], t)
    BY <1>1, <1>2, SameRaw
  <2> QED
    BY <1>2, <1>4, <1>5, <1>7, <2>1, <2>2
<1>8. CASE b[k] # None /\ IsReady(t)
  <2>1. u = TileReady(t)
    BY <1>3, <1>5, <1>8
  <2>2. /\ Lighter(t, u) /\ u.image = t.image /\ u.lastPendingId = t.lastPendingId
        /\ u.decompressedId = t.decompressedId
    BY <1>2, <2>1, TileReadyLighter
  <2>3. Lighter(ts[k], u)
    BY <1>1, <1>2, <2>2 DEF Lighter
  <2> QED
    BY <1>2, <1>4, <1>5, <1>8, <2>2, <2>3
<1> QED
  BY <1>6, <1>7, <1>8

\* What is left of tile k when the bitmap b has come and memory was reclaimed.
Handed(k, ts, us, b) ==
    k \in DOMAIN us =>
      /\ k \in DOMAIN ts
      /\ us[k].image \in {None, IF b = None THEN ts[k].image ELSE b}
      /\ \A R, e : Fine(ts[k], R, e) => Fine(us[k], R, e)
      /\ us[k].lastPendingId # 0 => /\ ts[k].lastPendingId # 0
                                    /\ us[k].decompressedId = ts[k].decompressedId

LEMMA HandledTiles ==
  ASSUME NEW ts, TilesMap(ts), NEW b \in [Keys -> Image], NEW tasks,
         NEW fate \in [Keys -> Fate], HandleBitmaps(ts, b, tasks, fate), NEW k
  PROVE  Handed(k, ts, tiles', b[k])
<1> DEFINE shown == WithBitmaps(ts, b)
<1>1. tiles' = GarbageCollect(shown, fate)
  BY DEF HandleBitmaps
<1>2. TilesMap(shown)
  BY WithBitmapsType
<1>3. \A x \in DOMAIN ts :
        /\ Lighter(ts[x], shown[x])
        /\ shown[x].image = IF b[x] = None THEN ts[x].image ELSE b[x]
        /\ shown[x].lastPendingId = ts[x].lastPendingId
        /\ shown[x].decompressedId = ts[x].decompressedId
  BY WithBitmapsLighter
<1>4. DOMAIN shown = DOMAIN ts
  BY DEF WithBitmaps
<1> HIDE DEF shown
<1>5. PICK us : us = GarbageCollect(shown, fate)
  OBVIOUS
<1>6. ASSUME k \in DOMAIN us
      PROVE  k \in DOMAIN ts /\ Lighter(shown[k], us[k]) /\ Milder(shown[k], us[k])
  BY <1>2, <1>4, <1>5, <1>6, CollectedLighter
<1>7. ASSUME k \in DOMAIN us, NEW R, NEW e, Fine(ts[k], R, e) PROVE Fine(us[k], R, e)
  <2>1. Fine(shown[k], R, e)
    BY <1>3, <1>6, <1>7, LighterFine
  <2> QED
    BY <1>6, <1>7, <2>1, LighterFine
<1>8. ASSUME k \in DOMAIN us
      PROVE  /\ us[k].image \in {None, IF b[k] = None THEN ts[k].image ELSE b[k]}
             /\ us[k].lastPendingId # 0 => /\ ts[k].lastPendingId # 0
                                           /\ us[k].decompressedId = ts[k].decompressedId
  BY <1>3, <1>6, <1>8 DEF Lighter, Milder
<1> QED
  BY <1>1, <1>5, <1>6, <1>7, <1>8 DEF Handed

\* The tiles when a worker's deltas are known to be decompressed.
LEMMA DecompressedHanded ==
  ASSUME NEW ts, TilesMap(ts), NEW deltas \in [Keys -> Seq(Delta)], NEW us, NEW b, NEW k,
         Handed(k, AllDecompressed(ts, deltas), us, b)
  PROVE  k \in DOMAIN us =>
           /\ k \in DOMAIN ts
           /\ us[k].image \in {None, IF b = None THEN ts[k].image ELSE b}
           /\ \A R, e : Fine(ts[k], R, e) => Fine(us[k], R, e)
<1> SUFFICES ASSUME k \in DOMAIN us
             PROVE  /\ k \in DOMAIN ts
                    /\ us[k].image \in {None, IF b = None THEN ts[k].image ELSE b}
                    /\ \A R, e : Fine(ts[k], R, e) => Fine(us[k], R, e)
  OBVIOUS
<1> DEFINE d == AllDecompressed(ts, deltas)
<1>1. k \in DOMAIN ts /\ k \in Keys
  BY DEF Handed, AllDecompressed, TilesMap
<1>2. d[k] = Decompressed(ts[k], deltas[k])
  BY <1>1 DEF AllDecompressed
<1>3. TilesMap(d) /\ DOMAIN d = DOMAIN ts
  BY AllDecompressedType DEF AllDecompressed
<1> HIDE DEF d
<1>4. ts[k] \in Tile /\ d[k] \in Tile
  BY <1>1, <1>3 DEF TilesMap
<1>5. /\ d[k].rawDeltas = ts[k].rawDeltas /\ d[k].deltaId = ts[k].deltaId
      /\ d[k].lastPendingId = ts[k].lastPendingId /\ d[k].image = ts[k].image
  BY <1>2, <1>4 DEF Decompressed, Tile
<1>6. Lighter(ts[k], d[k])
  BY <1>4, <1>5, SameRaw
<1>7. \A R, e : Fine(ts[k], R, e) => Fine(d[k], R, e)
  BY <1>6, LighterFine
<1> QED
  BY <1>1, <1>5, <1>7 DEF Handed, d

\* A bitmap between what the tile has shown and rendering x: the history is
\* not ahead of x.
LEMMA ShownHistory ==
  ASSUME TInv, Recorded, NEW k \in Keys, ImageOK(k),
         NEW x \in WireId, newest[k] <= x, NEW sound \in BOOLEAN,
         Sound(k)' => Sound(k) /\ sound,
         NEW b, b = None \/ Between(b, <<newest[k], x>>, sound), b \in Image,
         k \in DOMAIN tiles' =>
           \/ tiles'[k].image \in {None, b}
           \/ b = None /\ k \in DOMAIN tiles /\ tiles'[k].image = tiles[k].image
  PROVE  newest'[k] \in WireId /\ newest'[k] <= x /\ ImageOK(k)'
<1>1. newest[k] \in WireId /\ newest[k] \in Nat /\ x \in Nat
  BY Types
<1>2. CASE k \in DOMAIN tiles' /\ tiles'[k].image = b /\ b # None
  <2>1. newest'[k] = IF b > newest[k] THEN b ELSE newest[k]
    BY <1>2 DEF Recorded, Newest
  <2>2. (newest[k] <= b /\ b <= x) \/ (~sound /\ b = Broken)
    BY <1>2 DEF Between
  <2>3. CASE newest[k] <= b /\ b <= x /\ b # Broken
    <3>1. b \in WireId /\ b \in Nat
      BY <2>3, Types DEF Image
    <3>2. newest'[k] = b
      BY <1>1, <2>1, <2>3, <3>1
    <3> QED
      BY <1>2, <2>3, <3>1, <3>2 DEF ImageOK
  <2>4. CASE b = Broken
    <3>1. ~(b > newest[k])
      BY <1>1, <2>4 DEF Broken
    <3>2. newest'[k] = newest[k]
      BY <2>1, <3>1
    <3>3. ~(newest[k] <= b)
      BY <1>1, <2>4 DEF Broken
    <3>4. ~Sound(k)'
      BY <2>2, <3>3
    <3>5. tiles'[k].image = Broken
      BY <1>2, <2>4
    <3> QED
      BY <1>1, <3>2, <3>4, <3>5 DEF ImageOK
  <2> QED
    BY <2>2, <2>3, <2>4
<1>3. CASE ~(k \in DOMAIN tiles' /\ tiles'[k].image = b /\ b # None)
  <2>1. k \in DOMAIN tiles' =>
           \/ tiles'[k].image = None
           \/ k \in DOMAIN tiles /\ tiles'[k].image = tiles[k].image
    BY <1>3
  <2>2. newest'[k] = newest[k] /\ ImageOK(k)'
    BY <2>1, QuietHistory
  <2> QED
    BY <1>1, <2>2
<1> QED
  BY <1>2, <1>3

\* The bitmap that tile k gets is one of the answer's images.
LEMMA BitmapIsImage ==
  ASSUME NEW a \in Answered, NEW k \in Keys,
         BitmapsOf(tiles, a.deltas, a.bitmaps)[k] # None
  PROVE  /\ a.deltas[k] # <<>>
         /\ \E i \in 1..Len(a.bitmaps[k]) :
              BitmapsOf(tiles, a.deltas, a.bitmaps)[k] = a.bitmaps[k][i]
<1> DEFINE shown == Shown(tiles[k], a.deltas[k])
           n == Len(a.deltas[k])
<1>1. shown # {} /\ BitmapsOf(tiles, a.deltas, a.bitmaps)[k] = a.bitmaps[k][LastOf(shown)]
  BY DEF BitmapsOf
<1>2. n \in Nat /\ n = Len(a.bitmaps[k])
  <2>1. a.deltas[k] \in Seq(Delta)
    BY DEF Answered, Answer
  <2> QED
    BY <2>1 DEF Answered
<1>3. shown \in SUBSET (1..n)
  BY DEF Shown
<1> HIDE DEF shown, n
<1>4. \E i \in shown : \A j \in shown : j <= i
  <2>1. shown \in SUBSET (0..n)
    BY <1>2, <1>3
  <2> QED
    BY <1>1, <1>2, <2>1, Greatest
<1>5. LastOf(shown) \in shown
  BY <1>4 DEF LastOf
<1>6. LastOf(shown) \in 1..n
  BY <1>3, <1>5
<1>7. a.deltas[k] # <<>>
  BY <1>2, <1>6 DEF n
<1> QED
  BY <1>1, <1>2, <1>6, <1>7

\* onWorkerEndTransaction.
LEMMA AnswerImages ==
  ASSUME TInv, ImagesInv, Recorded, NEW w \in Workers, AnswerOf(w)
  PROVE  ImagesInv'
<1>1. PICK fate \in [Keys -> Fate] :
        OnWorkerEndTransaction(w, fate) /\ UNCHANGED tileCache
  BY DEF AnswerOf
<1> DEFINE a == Head(outbox[w])
           left == nPendingWorkerTasks - 1
           decompressed == AllDecompressed(tiles, a.deltas)
           bitmaps == BitmapsOf(tiles, a.deltas, a.bitmaps)
<1>2. /\ ~emitting /\ w \in workers /\ outbox[w] # <<>>
      /\ outbox' = [outbox EXCEPT ![w] = Tail(@)]
      /\ IF bitmaps # NoBitmaps
         THEN HandleBitmaps(decompressed, bitmaps, left, fate)
         ELSE /\ tiles' = decompressed
              /\ UNCHANGED <<toServer, fetching, drawing, slurping, imageCache>>
      /\ UNCHANGED <<toClient, view, pendingDeltas, workers, inbox, workerImages,
                     workerError, bitmapPromises>>
      /\ UNCHANGED tileCache
  BY <1>1 DEF OnWorkerEndTransaction
<1>3. /\ CacheFit /\ OwnWork /\ ModeOK /\ \A k \in Keys : KeyOK(k) /\ ImageOK(k)
  BY DEF ImagesInv
<1>4. /\ TilesMap(tiles) /\ imageCache \in [Keys -> Image]
      /\ outbox \in [Workers -> Seq(Answered)] /\ outbox[w] \in Seq(OwnAnswer(w))
      /\ \A k \in Keys : WorkerOf[k] \in Workers
  BY <1>2, <1>3, Types DEF OwnWork
<1>5. a \in OwnAnswer(w) /\ Tail(outbox[w]) \in Seq(OwnAnswer(w))
  BY <1>2, <1>4, TailItems
<1>6. Tail(outbox[w]) \in Seq(Answered)
  <2>1. outbox[w] \in Seq(Answered)
    BY <1>4
  <2> QED
    BY <1>2, <2>1, TailItems
<1> HIDE DEF a
<1>7. /\ a \in Answered /\ a.deltas \in [Keys -> Seq(Delta)]
      /\ a.bitmaps \in [Keys -> Seq(Image)]
      /\ \A k \in Keys : Len(a.bitmaps[k]) = Len(a.deltas[k])
      /\ \A k \in Keys : WorkerOf[k] # w => a.deltas[k] = <<>>
  BY <1>5 DEF OwnAnswer, Answered, Answer
<1>8. bitmaps \in [Keys -> Image]
  <2>1. \A k \in Keys \cap DOMAIN tiles : /\ a.bitmaps[k] \in Seq(Image)
                                          /\ Len(a.bitmaps[k]) = Len(a.deltas[k])
    BY <1>7
  <2> QED
    BY <1>7, <2>1, BitmapsOfType
<1>9. \A k \in Keys : bitmaps[k] # None =>
        /\ a.deltas[k] # <<>>
        /\ \E i \in 1..Len(a.bitmaps[k]) : bitmaps[k] = a.bitmaps[k][i]
  <2>1. a \in Answered
    BY <1>7
  <2>2. ASSUME NEW k \in Keys, bitmaps[k] # None
        PROVE  /\ a.deltas[k] # <<>>
               /\ \E i \in 1..Len(a.bitmaps[k]) : bitmaps[k] = a.bitmaps[k][i]
    <3>1. BitmapsOf(tiles, a.deltas, a.bitmaps)[k] # None
      BY <2>2
    <3> HIDE DEF bitmaps
    <3>2. /\ a.deltas[k] # <<>>
          /\ \E i \in 1..Len(a.bitmaps[k]) :
               BitmapsOf(tiles, a.deltas, a.bitmaps)[k] = a.bitmaps[k][i]
      BY ONLY <2>1, <3>1, BitmapIsImage
    <3> USE DEF bitmaps
    <3> QED
      BY <3>2
  <2> QED
    BY <2>2
<1>10. TilesMap(decompressed)
  BY <1>4, <1>7, AllDecompressedType
<1> HIDE DEF bitmaps, left
<1>11. \A k \in Keys : Handed(k, decompressed, tiles', bitmaps[k])
  <2>1. CASE bitmaps # NoBitmaps
    <3> HIDE DEF decompressed
    <3>1. HandleBitmaps(decompressed, bitmaps, left, fate)
      BY <1>2, <2>1
    <3> QED
      BY <1>8, <1>10, <3>1, HandledTiles
  <2>2. CASE bitmaps = NoBitmaps
    <3>1. tiles' = decompressed /\ \A k \in Keys : bitmaps[k] = None
      BY <1>2, <2>2 DEF NoBitmaps
    <3> HIDE DEF decompressed
    <3> QED
      BY <3>1 DEF Handed
  <2> QED
    BY <2>1, <2>2
<1>12. \A k \in Keys : k \in DOMAIN tiles' =>
         /\ k \in DOMAIN tiles
         /\ tiles'[k].image \in {None, IF bitmaps[k] = None THEN tiles[k].image
                                       ELSE bitmaps[k]}
         /\ \A R, e : Fine(tiles[k], R, e) => Fine(tiles'[k], R, e)
  <2> TAKE k \in Keys
  <2>1. PICK us, b : us = tiles' /\ b = bitmaps[k]
    OBVIOUS
  <2>2. Handed(k, AllDecompressed(tiles, a.deltas), us, b)
    BY <1>11, <2>1
  <2>3. k \in DOMAIN us =>
           /\ k \in DOMAIN tiles
           /\ us[k].image \in {None, IF b = None THEN tiles[k].image ELSE b}
           /\ \A R, e : Fine(tiles[k], R, e) => Fine(us[k], R, e)
    BY <1>4, <1>7, <2>2, DecompressedHanded
  <2> QED
    BY <2>1, <2>3
<1> HIDE DEF decompressed
<1>13. /\ UNCHANGED slurpQueue /\ UNCHANGED emitting
       /\ imageCache' \in [Keys -> Image]
       /\ \A k \in Keys : imageCache'[k] \in {None, imageCache[k]}
  <2>1. CASE bitmaps # NoBitmaps
    <3>1. /\ UNCHANGED slurpQueue /\ UNCHANGED emitting
          /\ \E ts, S : imageCache' = ForgetImages(ts, S)
      BY <1>2, <2>1 DEF HandleBitmaps
    <3> QED
      BY <3>1, ForgetLess
  <2>2. CASE bitmaps = NoBitmaps
    BY <1>2, <1>4, <2>2 DEF slurping
  <2> QED
    BY <2>1, <2>2
<1>14. workers # {} /\ imageCache = NoBitmaps /\ imageCache' = NoBitmaps
  <2>1. workers # {} /\ imageCache = NoBitmaps
    BY <1>2, <1>3 DEF ModeOK
  <2>2. \A k \in Keys : imageCache'[k] = None
    BY <1>13, <2>1 DEF NoBitmaps
  <2> QED
    BY <1>13, <2>1, <2>2 DEF NoBitmaps
<1>15. /\ outbox' \in [Workers -> Seq(Answered)]
       /\ \A v \in Workers : outbox'[v] = IF v = w THEN Tail(outbox[w]) ELSE outbox[v]
  BY <1>2, <1>4, <1>6
<1>16. CacheFit'
  BY <1>2, <1>3, SameCache
<1>17. OwnWork'
  BY <1>2, <1>3, <1>5, <1>15 DEF OwnWork
<1>18. ModeOK'
  BY <1>2, <1>3, <1>13, <1>14 DEF ModeOK
<1>19. \A k \in Keys : Sound(k)' = Sound(k)
  BY <1>2, <1>14 DEF Sound
<1>20. ASSUME NEW k \in Keys, NEW R \in WireId, AtKey(k, R)
       PROVE  ImageOK(k)' /\ AtKey(k, R)'
  <2>1. PICK e \in WireId :
          e <= R /\ Held(k, tiles, R, e) /\ Line(k, tiles, pendingDeltas[k], e)
    BY <1>20 DEF AtKey
  <2>2. PICK sound \in BOOLEAN, v \in Workers :
          sound = (~workerError) /\ v = WorkerOf[k]
    BY <1>4
  <2>3. WorkerLine(k, sound, newest[k], outbox[v], workerImages[v][k], inbox[v],
                   pendingDeltas[k], e)
    BY <1>14, <2>1, <2>2 DEF Line
  <2>4. /\ newest[k] \in WireId /\ outbox[v] \in Seq(Answered)
    BY <1>4, Types
  <2>5. PICK us, b : us = tiles' /\ b = bitmaps[k]
    OBVIOUS
  <2>6. Held(k, us, R, e)
    BY <1>12, <2>1, <2>5 DEF Held
  <2>7. Sound(k)' => Sound(k) /\ sound
    BY <1>14, <1>19, <2>2 DEF Sound
  <2>8. CASE v = w
    <3>1. PICK x \in WireId :
           /\ newest[k] <= x
           /\ \A i \in 1..Len(Head(outbox[v]).bitmaps[k]) :
                Between(Head(outbox[v]).bitmaps[k][i], <<newest[k], x>>, sound)
           /\ \A s \in WireId : s <= x =>
                WorkerLine(k, sound, s, Tail(outbox[v]), workerImages[v][k], inbox[v],
                           pendingDeltas[k], e)
      BY <1>2, <2>3, <2>4, <2>8, AnswerOne
    <3>2. b \in Image /\ (b = None \/ Between(b, <<newest[k], x>>, sound))
      BY <1>8, <1>9, <2>5, <2>8, <3>1 DEF a
    <3>3. k \in DOMAIN tiles' =>
           \/ tiles'[k].image \in {None, b}
           \/ b = None /\ k \in DOMAIN tiles /\ tiles'[k].image = tiles[k].image
      BY <1>12, <2>5
    <3>4. newest'[k] \in WireId /\ newest'[k] <= x /\ ImageOK(k)'
      BY <1>3, <2>7, <3>1, <3>2, <3>3, ShownHistory
    <3>5. WorkerLine(k, sound, newest'[k], Tail(outbox[v]), workerImages[v][k], inbox[v],
                     pendingDeltas[k], e)
      BY <3>1, <3>4
    <3>6. outbox'[v] = Tail(outbox[v])
      BY <1>15, <2>8
    <3>7. Line(k, tiles, pendingDeltas[k], e)'
      BY <1>2, <1>14, <2>2, <3>5, <3>6 DEF Line
    <3> QED
      BY <2>1, <2>5, <2>6, <3>4, <3>7 DEF AtKey
  <2>9. CASE v # w
    <3>1. bitmaps[k] = None
      BY <1>7, <1>9, <2>2, <2>9
    <3>2. k \in DOMAIN tiles' =>
           \/ tiles'[k].image = None
           \/ k \in DOMAIN tiles /\ tiles'[k].image = tiles[k].image
      BY <1>12, <3>1
    <3>3. newest'[k] = newest[k] /\ ImageOK(k)'
      BY <1>3, <1>19, <3>2, QuietHistory
    <3>4. outbox'[v] = outbox[v]
      BY <1>15, <2>9
    <3>5. Line(k, tiles, pendingDeltas[k], e)'
      BY <1>2, <1>14, <2>2, <2>3, <3>3, <3>4 DEF Line
    <3> QED
      BY <2>1, <2>5, <2>6, <3>3, <3>5 DEF AtKey
  <2> QED
    BY <2>8, <2>9
<1>21. \A k \in Keys : KeyOK(k)'
  BY <1>2, <1>3, <1>13, <1>20, SameStream
<1>22. \A k \in Keys : ImageOK(k)'
  BY <1>3, <1>20 DEF KeyOK
<1> QED
  BY <1>16, <1>17, <1>18, <1>21, <1>22 DEF ImagesInv

\* The promises of createImageBitmap resolve.
LEMMA PromiseImages ==
  ASSUME TInv, ImagesInv, Recorded, Promise
  PROVE  ImagesInv'
<1>1. PICK fate \in [Keys -> Fate] : BitmapsResolve(fate) /\ UNCHANGED tileCache
  BY DEF Promise
<1> DEFINE bitmaps == Head(bitmapPromises)
<1>2. /\ ~emitting /\ bitmapPromises # <<>> /\ bitmapPromises' = Tail(bitmapPromises)
      /\ HandleBitmaps(tiles, bitmaps, nPendingWorkerTasks, fate)
      /\ UNCHANGED <<toClient, view, pendingDeltas, workers, inbox, outbox,
                     workerImages, workerError>>
      /\ UNCHANGED tileCache
  BY <1>1 DEF BitmapsResolve
<1>3. /\ CacheFit /\ OwnWork /\ ModeOK /\ \A k \in Keys : KeyOK(k) /\ ImageOK(k)
  BY DEF ImagesInv
<1>4. TilesMap(tiles) /\ bitmapPromises \in Seq([Keys -> Image])
  BY Types
<1>5. bitmaps \in [Keys -> Image]
  BY <1>2, <1>4, TailItems
<1>6. workers = {}
  BY <1>2, <1>3 DEF ModeOK
<1>7. /\ orphaned' = orphaned /\ \A k \in Keys : pendingDeltas[k] = <<>>
  BY <1>2, <1>3, NoOrphans
<1>8. \A k \in Keys : Handed(k, tiles, tiles', bitmaps[k])
  <2> HIDE DEF bitmaps
  <2> QED
    BY <1>2, <1>4, <1>5, HandledTiles
<1>9. /\ UNCHANGED slurpQueue /\ UNCHANGED emitting
      /\ \A k \in Keys : imageCache'[k] \in {None, imageCache[k]}
  <2>1. /\ UNCHANGED slurpQueue /\ UNCHANGED emitting
        /\ \E ts, S : imageCache' = ForgetImages(ts, S)
    BY <1>2 DEF HandleBitmaps
  <2> QED
    BY <2>1, ForgetLess
<1>10. CacheFit'
  BY <1>2, <1>3, SameCache
<1>11. OwnWork'
  BY <1>2, <1>3, SameWork
<1>12. ModeOK'
  BY <1>2, <1>3, <1>6, <1>9 DEF ModeOK
<1>13. \A k \in Keys : Sound(k)' = Sound(k)
  BY <1>2, <1>7 DEF Sound
<1>14. ASSUME NEW k \in Keys, NEW R \in WireId, AtKey(k, R)
       PROVE  ImageOK(k)' /\ AtKey(k, R)'
  <2>1. PICK e \in WireId :
          e <= R /\ Held(k, tiles, R, e) /\ Line(k, tiles, pendingDeltas[k], e)
    BY <1>14 DEF AtKey
  <2>2. PICK sound \in BOOLEAN : sound = (k \notin orphaned)
    OBVIOUS
  <2>3. MainLine(k, sound, newest[k], bitmapPromises, imageCache[k], <<>>, tiles, e)
    BY <1>6, <1>7, <2>1, <2>2 DEF Line
  <2>4. newest[k] \in WireId
    BY Types
  <2>5. PICK us, b : us = tiles' /\ b = bitmaps[k]
    OBVIOUS
  <2>6. Handed(k, tiles, us, b)
    BY <1>8, <2>5
  <2>7. Held(k, us, R, e)
    BY <2>1, <2>6 DEF Held, Handed
  <2>8. Sound(k)' => Sound(k) /\ sound
    BY <1>6, <1>13, <2>2 DEF Sound
  <2>9. PICK x \in WireId :
           /\ newest[k] <= x
           /\ \/ Head(bitmapPromises)[k] = None
              \/ Between(Head(bitmapPromises)[k], <<newest[k], x>>, sound)
           /\ \A s \in WireId : s <= x =>
                MainLine(k, sound, s, Tail(bitmapPromises), imageCache[k], <<>>, tiles, e)
    BY <1>2, <1>4, <2>3, <2>4, PromiseOne
  <2>10. b \in Image /\ (b = None \/ Between(b, <<newest[k], x>>, sound))
    BY <1>5, <2>5, <2>9
  <2>11. k \in DOMAIN tiles' =>
           \/ tiles'[k].image \in {None, b}
           \/ b = None /\ k \in DOMAIN tiles /\ tiles'[k].image = tiles[k].image
    BY <2>5, <2>6 DEF Handed
  <2>12. newest'[k] \in WireId /\ newest'[k] <= x /\ ImageOK(k)'
    BY <1>3, <2>8, <2>9, <2>10, <2>11, ShownHistory
  <2>13. MainLine(k, sound, newest'[k], Tail(bitmapPromises), imageCache[k], <<>>, tiles, e)
    BY <2>9, <2>12
  <2>14. MainLine(k, sound, newest'[k], Tail(bitmapPromises), imageCache'[k], <<>>, us, e)
    <3>1. PICK p \in WireId, q \in WireId, c \in WireId :
            /\ newest'[k] <= p /\ Leads(Tail(bitmapPromises), PromiseHops(k, sound), p, q)
            /\ q <= c /\ (sound => imageCache[k] \in {None, c})
            /\ Waiting(k, sound, <<>>, tiles, c, e)
      BY <2>13 DEF MainLine
    <3>2. Waiting(k, sound, <<>>, us, c, e)
      BY <2>6, <3>1 DEF Waiting, Handed
    <3>3. sound => imageCache'[k] \in {None, c}
      BY <1>9, <3>1
    <3> QED
      BY <3>1, <3>2, <3>3 DEF MainLine
  <2>15. Line(k, tiles, pendingDeltas[k], e)'
    BY <1>2, <1>6, <1>7, <2>2, <2>5, <2>14 DEF Line
  <2> QED
    BY <2>1, <2>5, <2>7, <2>12, <2>15 DEF AtKey
<1>15. \A k \in Keys : KeyOK(k)'
  BY <1>2, <1>3, <1>9, <1>14, SameStream
<1>16. \A k \in Keys : ImageOK(k)'
  BY <1>3, <1>14 DEF KeyOK
<1> QED
  BY <1>10, <1>11, <1>12, <1>15, <1>16 DEF ImagesInv

-----------------------------------------------------------------------------
(* The theorems.                                                           *)

\* At first there is nothing: no tile has content, and nothing is on its way.
LEMMA InitImages ==
  ASSUME Init
  PROVE  ImagesInv
<1>1. TInv /\ 0 \in WireId /\ 0 <= 0
  BY InitSystem, WireAssumption DEF WireId
<1>2. /\ toClient = <<>> /\ slurpQueue = <<>> /\ requested = <<>> /\ wid = 0
      /\ cache = [k \in Keys |-> NoTileData] /\ lastSent = [k \in Keys |-> 0]
      /\ view = FirstView /\ tiles = [k \in view |-> NewTile(TRUE)]
      /\ imageCache = NoBitmaps /\ pendingDeltas = NoDeltas
      /\ workers = Workers /\ workerError = FALSE /\ bitmapPromises = <<>>
      /\ inbox = [w \in Workers |-> <<>>] /\ outbox = [w \in Workers |-> <<>>]
      /\ workerImages = [w \in Workers |-> NoBitmaps]
      /\ newest = [k \in Keys |-> None] /\ orphaned = {}
  BY DEF Init, ManagerInit, CacheInit
<1>3. \A S : <<>> \in Seq(S) /\ Len(<<>>) = 0
  OBVIOUS
<1>4. CacheFit
  <2>1. /\ NoTileData.last = 0 /\ NoTileData.valid = FALSE
    BY DEF NoTileData
  <2>2. Injective(requested)
    BY <1>2 DEF Injective
  <2> QED
    BY <1>1, <1>2, <2>1, <2>2 DEF CacheFit
<1>5. OwnWork
  <2>1. \A w \in Workers : inbox[w] = <<>> /\ outbox[w] = <<>>
    BY <1>2
  <2>2. \A w \in Workers : \A k \in Keys : workerImages[w][k] = None
    BY <1>2 DEF NoBitmaps
  <2> QED
    BY <1>3, <2>1, <2>2 DEF OwnWork
<1>6. ModeOK
  <2>1. \A k \in Keys : Len(pendingDeltas[k]) = 0
    BY <1>2, <1>3 DEF NoDeltas
  <2> QED
    BY <1>2, <2>1 DEF ModeOK
<1>7. ASSUME NEW k \in Keys PROVE KeyOK(k) /\ ImageOK(k)
  <2>1. PICK c \in BOOLEAN : c = TRUE
    OBVIOUS
  <2>2. /\ Fine(NewTile(c), 0, 0) /\ NewTile(c).image = None
        /\ NewTile(c).lastPendingId = 0
    BY NewTileFine
  <2>3. k \in DOMAIN tiles => tiles[k] = NewTile(c)
    BY <1>2, <2>1
  <2>4. ImageOK(k)
    BY <2>2, <2>3 DEF ImageOK, None, Broken
  <2>5. Held(k, tiles, 0, 0)
    BY <2>2, <2>3 DEF Held
  <2>6. \A h : Leads(<<>>, h, 0, 0)
    BY <1>1, LeadsNowhere
  <2>7. newest[k] = 0 /\ imageCache[k] = None /\ pendingDeltas[k] = <<>>
    BY <1>2 DEF None, NoBitmaps, NoDeltas
  <2>8. Line(k, tiles, <<>>, 0)
    <3>1. CASE workers # {}
      <4>1. WorkerOf[k] \in Workers
        BY <1>1, <3>1, Types
      <4>2. /\ outbox[WorkerOf[k]] = <<>> /\ inbox[WorkerOf[k]] = <<>>
            /\ workerImages[WorkerOf[k]][k] = None
        BY <1>2, <4>1 DEF NoBitmaps
      <4>3. \A sound : WorkerLine(k, sound, 0, <<>>, None, <<>>, <<>>, 0)
        BY <1>1, <2>6 DEF WorkerLine
      <4> QED
        BY <2>7, <3>1, <4>2, <4>3 DEF Line
    <3>2. CASE workers = {}
      <4>1. \A sound : Waiting(k, sound, <<>>, tiles, 0, 0)
        <5>1. \A i \in 1..Len(<<>>) : FALSE
          OBVIOUS
        <5> QED
          BY <2>2, <2>3, <2>6, <5>1 DEF Waiting
      <4>2. \A sound : MainLine(k, sound, 0, <<>>, None, <<>>, tiles, 0)
        BY <1>1, <2>6, <4>1 DEF MainLine
      <4> QED
        BY <1>2, <2>7, <3>2, <4>2 DEF Line
    <3> QED
      BY <3>1, <3>2
  <2>9. AtKey(k, 0)
    BY <1>1, <2>5, <2>7, <2>8 DEF AtKey
  <2>10. Stream(k, slurpQueue, toClient, lastSent[k], cache[k].last, 0)
    <3>1. lastSent[k] = 0 /\ cache[k].last = 0
      BY <1>2 DEF NoTileData
    <3> QED
      BY <1>1, <1>2, <2>6, <3>1 DEF Stream
  <2> QED
    BY <1>1, <2>4, <2>9, <2>10 DEF KeyOK
<1> QED
  BY <1>4, <1>5, <1>6, <1>7 DEF ImagesInv

\* A step of the users, the browser, the workers, coolwsd or the Kit.
LEMMA StepImages ==
  ASSUME TInv, ImagesInv, Recorded, Step
  PROVE  ImagesInv'
<1>1. CASE Edit
  BY <1>1, EditImages
<1>2. CASE CanonicalIdChange
  BY <1>2, CanonicalIdChangeImages
<1>3. CASE Scroll
  BY <1>3, ScrollImages
<1>4. CASE PreFetch
  BY <1>4, PreFetchImages
<1>5. CASE Blur
  BY <1>5, BlurImages
<1>6. CASE MainThread
  <2>1. CASE Flush
    BY <2>1, FlushImages
  <2>2. CASE Redraw
    BY <2>2, RedrawImages
  <2>3. CASE Slurp
    BY <2>3, SlurpImages
  <2>4. CASE Timer
    BY <2>4, TimerImages
  <2>5. CASE EmitTile
    BY <2>5, EmitTileImages
  <2>6. CASE EmitCanonical
    BY <2>6, EmitCanonicalImages
  <2>7. CASE EmitEnd
    BY <2>7, EmitEndImages
  <2>8. CASE \E w \in Workers : AnswerOf(w)
    BY <2>8, AnswerImages
  <2>9. CASE Promise
    BY <2>9, PromiseImages
  <2>10. CASE WorkersFail
    BY <2>10, WorkersFailImages
  <2> QED
    BY <1>6, <2>1, <2>2, <2>3, <2>4, <2>5, <2>6, <2>7, <2>8, <2>9, <2>10 DEF MainThread
<1>7. CASE Coolwsd
  BY <1>7, RequestImages, ProcessedImages, VisibleAreaImages DEF Coolwsd
<1>8. CASE \E w \in Workers : WorkerStep(w)
  BY <1>8, WorkerImages
<1>9. CASE \E k \in Keys : Render(k)
  BY <1>9, RenderImages
<1> QED
  BY <1>1, <1>2, <1>3, <1>4, <1>5, <1>6, <1>7, <1>8, <1>9 DEF Step, Progress

\* Every step keeps the invariant.
LEMMA ImagesKept ==
  ASSUME TInv, ImagesInv, [Next]_vars
  PROVE  ImagesInv'
<1>1. CASE Next
  BY <1>1, StepImages DEF Next, Recorded
<1>2. CASE UNCHANGED vars
  <2>1. /\ UNCHANGED <<tiles, pendingDeltas, emitting, imageCache, workers, inbox, outbox,
                       workerImages, workerError, bitmapPromises, newest, orphaned>>
        /\ UNCHANGED toClient /\ UNCHANGED slurpQueue /\ UNCHANGED tileCache
    BY <1>2 DEF vars, system, wire, browser, slurping, working
  <2>2. /\ CacheFit /\ OwnWork /\ ModeOK /\ \A k \in Keys : KeyOK(k) /\ ImageOK(k)
    BY DEF ImagesInv
  <2>3. CacheFit' /\ OwnWork'
    BY <2>1, <2>2, SameCache, SameWork
  <2>4. ModeOK'
    BY <2>1, <2>2 DEF ModeOK
  <2>5. \A k \in Keys : ImageOK(k)'
    BY <2>1, <2>2 DEF ImageOK, Sound
  <2>6. \A k \in Keys : \A R \in WireId : AtKey(k, R) => AtKey(k, R)'
    BY <2>1 DEF AtKey, Line
  <2>7. \A k \in Keys : KeyOK(k)'
    BY <2>1, <2>2, <2>6, SameStream
  <2> QED
    BY <2>3, <2>4, <2>5, <2>7 DEF ImagesInv
<1> QED
  BY <1>1, <1>2

\* No image is broken where it may be relied on.
LEMMA ImagesWhole ==
  ASSUME TInv, ImagesInv
  PROVE  NoBrokenImage
<1>1. SUFFICES ASSUME NEW k \in Keys, Sound(k)
               PROVE  /\ k \in DOMAIN tiles => tiles[k].image # Broken
                      /\ imageCache[k] # Broken
                      /\ \A w \in workers : workerImages[w][k] # Broken
  BY DEF NoBrokenImage
<1>2. /\ OwnWork /\ ModeOK /\ KeyOK(k) /\ ImageOK(k)
      /\ None # Broken /\ \A x \in WireId : x # Broken
  BY Types DEF ImagesInv, None, Broken
<1>3. k \in DOMAIN tiles => tiles[k].image # Broken
  BY <1>1, <1>2 DEF ImageOK
<1>4. PICK e \in WireId : Line(k, tiles, pendingDeltas[k], e)
  BY <1>2 DEF KeyOK, AtKey
<1>5. CASE workers # {}
  <2>1. imageCache[k] # Broken
    BY <1>2, <1>5 DEF ModeOK, NoBitmaps
  <2>2. ASSUME NEW w \in workers PROVE workerImages[w][k] # Broken
    <3>1. w \in Workers
      BY Types
    <3>2. CASE WorkerOf[k] # w
      BY <1>2, <3>1, <3>2 DEF OwnWork
    <3>3. CASE WorkerOf[k] = w
      BY <1>1, <1>2, <1>4, <1>5, <3>3 DEF Line, Sound, WorkerLine
    <3> QED
      BY <3>2, <3>3
  <2> QED
    BY <1>3, <2>1, <2>2
<1>6. CASE workers = {}
  <2>1. imageCache[k] # Broken
    BY <1>1, <1>2, <1>4, <1>6 DEF Line, Sound, MainLine
  <2> QED
    BY <1>3, <1>6, <2>1
<1> QED
  BY <1>5, <1>6

\* What a tile shows is the newest that it has shown.
LEMMA ImagesNewest ==
  ASSUME TInv, ImagesInv
  PROVE  NoOlderImage
<1>1. \A k \in DOMAIN tiles : k \in Keys
  BY Types DEF TilesMap
<1> QED
  BY <1>1 DEF NoOlderImage, ImagesInv, ImageOK

\* Every delta that the workers or the main thread decompress is applied to
\* the rendering it was made for, whatever tiles, bitmaps and raw deltas the
\* browser has dropped and whatever coolwsd and the Kit have sent in the
\* meantime, but for a worker that has thrown and for a tile that redraw()
\* removed while deltas of it waited.
THEOREM TilesWhole == Spec => []NoBrokenImage
<1>1. Init => TInv /\ ImagesInv
  BY InitSystem, InitImages
<1>2. TInv /\ ImagesInv /\ [Next]_vars => (TInv /\ ImagesInv)'
  BY TInvKept, ImagesKept
<1>3. TInv /\ ImagesInv => NoBrokenImage
  BY ImagesWhole
<1> QED
  BY <1>1, <1>2, <1>3, PTL DEF Spec

\* No bitmap that comes back from the workers, or from createImageBitmap, and
\* none that is built anew from raw deltas takes a tile back to an older
\* rendering.
THEOREM TilesAdvance == Spec => []NoOlderImage
<1>1. Init => TInv /\ ImagesInv
  BY InitSystem, InitImages
<1>2. TInv /\ ImagesInv /\ [Next]_vars => (TInv /\ ImagesInv)'
  BY TInvKept, ImagesKept
<1>3. TInv /\ ImagesInv => NoOlderImage
  BY ImagesNewest
<1> QED
  BY <1>1, <1>2, <1>3, PTL DEF Spec
=============================================================================
