----------------------------- MODULE SramProofs -----------------------------
(***************************************************************************)
(* Proofs about Sram, for any number of inputs and any width of the tiles. *)
(***************************************************************************)
EXTENDS Sram, FiniteSetTheorems, WellFoundedInduction, TLAPS

\* The tile an input falls into.
TileOf(j) == j \div TileW

\* Division by the width of a tile.
LEMMA Quotient ==
  ASSUME NEW a \in Nat
  PROVE  /\ a \div TileW \in Nat
         /\ TileBase(a \div TileW) <= a
         /\ a < TileBase(a \div TileW) + TileW
<1>1. TileW \in Nat \ {0} /\ TileW \in Nat /\ TileW > 0
  BY SramAssumption
<1>2. a \div TileW \in Nat
  BY <1>1
<1>3. PICK q \in Int : q = a \div TileW
  BY <1>2
<1>4. TileW * q <= a /\ a < TileW * q + TileW
  BY <1>1, <1>3
<1>5. q * TileW = TileW * q
  BY <1>1
<1> QED  BY <1>2, <1>3, <1>4, <1>5 DEF TileBase

\* Multiplication is monotonic.
LEMMA Bases ==
  ASSUME NEW s \in Int, NEW t \in Int, s < t
  PROVE  TileBase(s) + TileW <= TileBase(t)
<1>1. TileW \in Nat /\ TileW > 0
  BY SramAssumption
<1>2. PICK d \in Nat : t = s + 1 + d
  <2>1. t - s - 1 \in Nat /\ t = s + 1 + (t - s - 1)
    OBVIOUS
  <2> QED  BY <2>1
<1>3. t * TileW = s * TileW + TileW + d * TileW
  BY <1>1, <1>2
<1>4. d * TileW >= 0
  BY <1>1
<1>5. s * TileW \in Int /\ t * TileW \in Int /\ d * TileW \in Int
  BY <1>1
<1> QED  BY <1>1, <1>3, <1>4, <1>5 DEF TileBase

\* compute_in_memory multiplies every input once and reads none that is not
\* there: each index below NN_IN_SIZE is in exactly one of the tiles, and no tile
\* has another, whether the width divides the number of inputs or not.
THEOREM TilesPartition ==
    /\ \A j \in Input : \E t \in 0 .. TilesIn - 1 :
         /\ j \in Tile(t)
         /\ \A s \in 0 .. TilesIn - 1 : j \in Tile(s) => s = t
    /\ \A t \in 0 .. TilesIn - 1 : Tile(t) # {} /\ Tile(t) \subseteq Input
<1>1. InSize \in Nat /\ TileW \in Nat /\ TileW > 0
  BY SramAssumption
<1>2. /\ TilesIn \in Nat
      /\ TileBase(TilesIn) <= InSize + TileW - 1
      /\ InSize + TileW - 1 < TileBase(TilesIn) + TileW
  BY <1>1, Quotient DEF TilesIn
<1>3. \A t \in Int : TileBase(t) \in Int
  BY <1>1 DEF TileBase
<1>4. ASSUME NEW j \in Input
      PROVE  \E t \in 0 .. TilesIn - 1 :
               /\ j \in Tile(t)
               /\ \A s \in 0 .. TilesIn - 1 : j \in Tile(s) => s = t
  <2>1. j \in Nat /\ j < InSize
    BY <1>1 DEF Input
  <2>2. /\ TileOf(j) \in Nat /\ TileBase(TileOf(j)) <= j
        /\ j < TileBase(TileOf(j)) + TileW
    BY <2>1, Quotient DEF TileOf
  <2>3. TileOf(j) < TilesIn
    <3>1. SUFFICES ASSUME TilesIn <= TileOf(j) PROVE FALSE
      BY <1>2, <2>2
    <3>2. TileBase(TilesIn) <= TileBase(TileOf(j))
      <4>1. CASE TilesIn = TileOf(j)
        BY <1>3, <2>2, <4>1
      <4>2. CASE TilesIn < TileOf(j)
        BY <1>1, <1>2, <1>3, <2>2, <4>2, Bases
      <4> QED  BY <1>2, <2>2, <3>1, <4>1, <4>2
    <3> QED  BY <1>1, <1>2, <1>3, <2>1, <2>2, <3>2
  <2>4. j \in Tile(TileOf(j))
    BY <1>1, <1>3, <2>1, <2>2 DEF Tile, TileEnd
  <2>5. ASSUME NEW s \in 0 .. TilesIn - 1, j \in Tile(s) PROVE s = TileOf(j)
    <3>1. s \in Int /\ TileBase(s) <= j /\ j < TileBase(s) + TileW
      BY <1>1, <1>2, <1>3, <2>1, <2>5 DEF Tile, TileEnd
    <3>2. ~(s < TileOf(j))
      BY <1>1, <1>3, <2>1, <2>2, <3>1, Bases
    <3>3. ~(TileOf(j) < s)
      BY <1>1, <1>3, <2>1, <2>2, <3>1, Bases
    <3> QED  BY <2>2, <3>1, <3>2, <3>3
  <2> QED  BY <1>2, <2>2, <2>3, <2>4, <2>5
<1>5. ASSUME NEW t \in 0 .. TilesIn - 1 PROVE Tile(t) # {} /\ Tile(t) \subseteq Input
  <2>1. t \in Nat /\ t < TilesIn
    BY <1>2
  <2>2. TileBase(t) + TileW <= TileBase(TilesIn)
    BY <1>2, <2>1, Bases
  <2>3. TileBase(t) \in Nat /\ TileBase(t) < InSize
    <3>1. TileBase(t) >= 0
      BY <1>1, <2>1 DEF TileBase
    <3> QED  BY <1>1, <1>2, <1>3, <2>1, <2>2, <3>1
  <2>4. TileBase(t) \in Tile(t)
    BY <1>1, <2>3 DEF Tile, TileEnd
  <2>5. Tile(t) \subseteq Input
    BY <1>1, <2>3 DEF Tile, TileEnd, Input
  <2> QED  BY <2>4, <2>5
<1> QED  BY <1>4, <1>5

\* One input moves the accumulator by 120 at most, whatever bytes the host has
\* stored.
LEMMA ProductsAreSmall ==
  ASSUME NEW x \in Int, NEW w \in Int
  PROVE  ClampU4(x) * ClampS4(w) \in -120 .. 105
<1>1. ClampU4(x) \in 0 .. 15 /\ ClampS4(w) \in -8 .. 7
  BY DEF ClampU4, ClampS4
<1> DEFINE u == ClampU4(x)  s == ClampS4(w)
<1>2. \A a \in 0 .. 15, c \in -8 .. 7 : a * c \in -120 .. 105
  OBVIOUS
<1> HIDE DEF u, s
<1> QED  BY <1>1, <1>2

-----------------------------------------------------------------------------
(* Induction, in a form without predicates: on sets of numbers.            *)

LEMMA LeastNatural ==
    ASSUME NEW T \in SUBSET Nat, T # {}
    PROVE  \E m \in T : \A k \in T : m <= k
<1> DEFINE R == OpToRel(<, Nat)
<1>1. IsWellFoundedOn(R, Nat)
  BY NatLessThanWellFounded
<1>2. \A x, y \in Nat : y < x => <<y, x>> \in R
  BY DEF OpToRel
<1> HIDE DEF R
<1>3. \E x \in T : \A y \in T : ~ (<<y, x>> \in R)
  BY <1>1, WFMin
<1>4. PICK m \in T : \A k \in T : ~ (<<k, m>> \in R)
  BY <1>3
<1>5. ASSUME NEW k \in T
      PROVE  m <= k
  <2>1. m \in Nat /\ k \in Nat /\ ~ (k < m)
    BY <1>2, <1>4
  <2>2. QED
    BY <2>1
<1>6. QED
  BY <1>5

LEMMA Induction ==
    ASSUME NEW S \in SUBSET Nat, 0 \in S, \A n \in S : n + 1 \in S
    PROVE  S = Nat
<1>1. SUFFICES ASSUME Nat \ S # {}
               PROVE  FALSE
  OBVIOUS
<1>2. PICK m \in Nat \ S : \A k \in Nat \ S : m <= k
  BY <1>1, LeastNatural
<1>3. m - 1 \in Nat
  BY <1>2
<1>4. m - 1 \in S
  BY <1>2, <1>3
<1>5. QED
  BY <1>2, <1>3, <1>4

-----------------------------------------------------------------------------
(* Running sums.                                                           *)

\* p[n] is c and the first n terms of d.
IsSum(p, N, c, d) ==
    /\ p \in [0 .. N -> Int]
    /\ p[0] = c
    /\ \A n \in 1 .. N : p[n] = p[n - 1] + d[n - 1]

LEMMA SumExists ==
    ASSUME NEW N \in Nat, NEW c \in Int, NEW d \in [0 .. N - 1 -> Int]
    PROVE  \E p : IsSum(p, N, c, d)
<1> DEFINE K == {n \in Nat : n <= N => \E p : IsSum(p, n, c, d)}
<1>1. 0 \in K
  <2>1. IsSum([i \in 0 .. 0 |-> c], 0, c, d)
    BY DEF IsSum
  <2>2. QED
    BY <2>1
<1>2. ASSUME NEW n \in K
      PROVE  n + 1 \in K
  <2>1. n \in Nat
    OBVIOUS
  <2>2. SUFFICES ASSUME n + 1 <= N
                 PROVE  \E p : IsSum(p, n + 1, c, d)
    BY <2>1
  <2>3. PICK p : IsSum(p, n, c, d)
    BY <2>1, <2>2
  <2> DEFINE q == [i \in 0 .. n + 1 |-> IF i = n + 1 THEN p[n] + d[n] ELSE p[i]]
  <2>4. p \in [0 .. n -> Int] /\ d[n] \in Int
    BY <2>1, <2>2, <2>3 DEF IsSum
  <2>5. q \in [0 .. n + 1 -> Int]
    BY <2>1, <2>4
  <2>6. q[0] = c
    BY <2>1, <2>3 DEF IsSum
  <2>7. ASSUME NEW i \in 1 .. n + 1
        PROVE  q[i] = q[i - 1] + d[i - 1]
    <3>1. i \in Nat /\ i - 1 \in 0 .. n /\ i - 1 # n + 1 /\ i \in 0 .. n + 1 /\ i - 1 \in 0 .. n + 1
      BY <2>1
    <3>2. q[i - 1] = p[i - 1]
      BY <3>1
    <3>3. CASE i = n + 1
      <4>1. i - 1 = n /\ q[i] = p[n] + d[n]
        BY <2>1, <3>1, <3>3
      <4>2. QED
        BY <3>2, <4>1
    <3>4. CASE i # n + 1
      <4>1. i \in 1 .. n
        BY <2>1, <3>4
      <4>2. p[i] = p[i - 1] + d[i - 1]
        BY <2>3, <4>1 DEF IsSum
      <4>3. q[i] = p[i]
        BY <3>1, <3>4
      <4>4. QED
        BY <3>2, <4>2, <4>3
    <3>5. QED
      BY <3>3, <3>4
  <2>8. IsSum(q, n + 1, c, d)
    BY <2>5, <2>6, <2>7 DEF IsSum
  <2>9. QED
    BY <2>8
<1>3. K = Nat
  <2> HIDE DEF K
  <2>1. K \in SUBSET Nat
    BY DEF K
  <2>2. QED
    BY <1>1, <1>2, <2>1, Induction
<1>4. N \in K
  <2> HIDE DEF K
  <2>1. QED
    BY <1>3
<1>5. QED
  BY <1>4

\* From a to e, p adds the terms of d.
Adds(p, a, e, d) == \A n \in a + 1 .. e : p[n] = p[n - 1] + d[n - 1]

\* Two sums that start alike and have the same terms are the same.
LEMMA SumUnique ==
    ASSUME NEW a \in Nat, NEW e \in Nat, NEW p, NEW q, NEW d, p[a] = q[a],
           Adds(p, a, e, d), Adds(q, a, e, d)
    PROVE  \A n \in a .. e : p[n] = q[n]
<1> DEFINE K == {n \in Nat : n \in a .. e => p[n] = q[n]}
<1>1. 0 \in K
  <2>1. 0 \in a .. e => a = 0
    OBVIOUS
  <2>2. QED
    BY <2>1
<1>2. ASSUME NEW n \in K
      PROVE  n + 1 \in K
  <2>1. n \in Nat
    OBVIOUS
  <2>2. SUFFICES ASSUME n + 1 \in a .. e
                 PROVE  p[n + 1] = q[n + 1]
    BY <2>1
  <2>3. CASE n + 1 = a
    BY <2>3
  <2>4. CASE n + 1 # a
    <3>1. n + 1 \in a + 1 .. e /\ n \in a .. e /\ (n + 1) - 1 = n
      BY <2>1, <2>2, <2>4
    <3>2. p[n] = q[n]
      BY <3>1
    <3>3. p[n + 1] = p[n] + d[n] /\ q[n + 1] = q[n] + d[n]
      BY <3>1 DEF Adds
    <3>4. QED
      BY <3>2, <3>3
  <2>5. QED
    BY <2>3, <2>4
<1>3. K = Nat
  <2> HIDE DEF K
  <2>1. K \in SUBSET Nat
    BY DEF K
  <2>2. QED
    BY <1>1, <1>2, <2>1, Induction
<1>4. QED
  BY <1>3

-----------------------------------------------------------------------------
(* The loops of compute_in_memory.                                         *)

Products(x, w) == [j \in Input |-> ClampU4(x[j]) * ClampS4(w[j])]

LEMMA ProductsType ==
    ASSUME NEW x \in [Input -> Int], NEW w \in [Input -> Int]
    PROVE  Products(x, w) \in [Input -> -120 .. 105]
<1>1. ASSUME NEW j \in Input
      PROVE  ClampU4(x[j]) * ClampS4(w[j]) \in -120 .. 105
  BY ProductsAreSmall
<1>2. QED
  BY <1>1 DEF Products

\* Tile t ends where the next one begins, the last one with the inputs.
LEMMA TileBounds ==
    ASSUME NEW t \in 0 .. TilesIn - 1
    PROVE  /\ TileBase(t) \in Nat /\ TileEnd(t) \in Nat
           /\ TileBase(t) < TileEnd(t) /\ TileEnd(t) <= InSize
           /\ TileEnd(t) = IF t + 1 = TilesIn THEN InSize ELSE TileBase(t + 1)
<1>1. InSize \in Nat /\ TileW \in Nat /\ TileW > 0
  BY SramAssumption
<1>2. /\ TilesIn \in Nat /\ TileBase(TilesIn) \in Int
      /\ TileBase(TilesIn) <= InSize + TileW - 1
      /\ InSize + TileW - 1 < TileBase(TilesIn) + TileW
  BY <1>1, Quotient DEF TilesIn, TileBase
<1>3. t \in Nat /\ t < TilesIn
  BY <1>2
<1>4. TileBase(t) \in Nat
  BY <1>1, <1>3 DEF TileBase
<1>5. TileBase(t + 1) = TileBase(t) + TileW
  BY <1>1, <1>3 DEF TileBase
<1>6. TileBase(t) + TileW <= TileBase(TilesIn)
  BY <1>2, <1>3, Bases
<1>7. TileBase(t) < TileEnd(t) /\ TileEnd(t) <= InSize /\ TileEnd(t) \in Nat
  BY <1>1, <1>2, <1>4, <1>6 DEF TileEnd
<1>8. CASE t + 1 = TilesIn
  BY <1>1, <1>2, <1>4, <1>5, <1>7, <1>8 DEF TileEnd
<1>9. CASE t + 1 # TilesIn
  <2>1. t + 1 \in Int /\ t + 1 < TilesIn
    BY <1>2, <1>3, <1>9
  <2>2. TileBase(t + 1) + TileW <= TileBase(TilesIn)
    BY <1>2, <2>1, Bases
  <2>3. TileBase(t) + TileW < InSize
    BY <1>1, <1>2, <1>4, <1>5, <2>2
  <2>4. QED
    BY <1>4, <1>5, <1>7, <1>9, <2>3 DEF TileEnd
<1>10. QED
  BY <1>4, <1>7, <1>8, <1>9

\* The inner loop adds the products of its tile.
LEMMA TileAdds ==
    ASSUME NEW x \in [Input -> Int], NEW w \in [Input -> Int], NEW b \in Int,
           NEW p, IsSum(p, InSize, b, Products(x, w)), NEW t \in 0 .. TilesIn - 1
    PROVE  AfterTile(p[TileBase(t)], x, w, t) = p[TileEnd(t)]
<1> DEFINE a == TileBase(t)
           e == TileEnd(t)
           Body(g) == [j \in a .. e |->
                         IF j = a THEN p[a]
                         ELSE g[j - 1] + ClampU4(x[j - 1]) * ClampS4(w[j - 1])]
           after == CHOOSE g : g = Body(g)
           sum == [j \in a .. e |-> p[j]]
<1>1. AfterTile(p[a], x, w, t) = after[e]
  BY DEF AfterTile
<1>2. a \in Nat /\ e \in Nat /\ a < e /\ e <= InSize
  BY TileBounds
<1>3. ASSUME NEW n \in a + 1 .. e
      PROVE  p[n] = p[n - 1] + ClampU4(x[n - 1]) * ClampS4(w[n - 1])
  <2>1. n \in 1 .. InSize /\ n - 1 \in Input
    BY <1>2, SramAssumption DEF Input
  <2>2. QED
    BY <2>1 DEF IsSum, Products
<1>4. sum = Body(sum)
  <2>1. ASSUME NEW j \in a .. e, j # a
        PROVE  sum[j] = sum[j - 1] + ClampU4(x[j - 1]) * ClampS4(w[j - 1])
    <3>1. j \in a + 1 .. e /\ j - 1 \in a .. e
      BY <1>2, <2>1
    <3>2. QED
      BY <1>3, <3>1
  <2>2. QED
    BY <2>1
<1>5. after = Body(after)
  BY <1>4
<1> HIDE DEF after, a, e
<1>6. ASSUME NEW n \in a + 1 .. e
      PROVE  after[n] = after[n - 1] + Products(x, w)[n - 1]
  <2>1. n \in a .. e /\ n # a /\ n - 1 \in Input
    BY <1>2, SramAssumption DEF Input
  <2>2. QED
    BY <1>5, <2>1 DEF Products
<1>7. after[a] = p[a]
  BY <1>2, <1>5
<1>8. ASSUME NEW n \in a + 1 .. e
      PROVE  p[n] = p[n - 1] + Products(x, w)[n - 1]
  <2>1. n \in 1 .. InSize
    BY <1>2, SramAssumption
  <2>2. QED
    BY <2>1 DEF IsSum
<1>9. \A n \in a .. e : after[n] = p[n]
  <2>1. Adds(after, a, e, Products(x, w)) /\ Adds(p, a, e, Products(x, w))
    BY <1>6, <1>8 DEF Adds
  <2>2. QED
    BY <1>2, <1>7, <2>1, SumUnique
<1>10. after[e] = p[e]
  BY <1>2, <1>9
<1>11. QED
  BY <1>1, <1>10 DEF a, e

\* The outer loop goes through all of them.
LEMMA LogitIsSum ==
    ASSUME NEW x \in [Input -> Int], NEW w \in [Input -> Int], NEW b \in Int,
           NEW p, IsSum(p, InSize, b, Products(x, w))
    PROVE  Logit(b, x, w) = p[InSize]
<1> DEFINE Start(t) == IF t = TilesIn THEN InSize ELSE TileBase(t)
           Body(g) == [t \in 0 .. TilesIn |->
                         IF t = 0 THEN b ELSE AfterTile(g[t - 1], x, w, t - 1)]
           after == CHOOSE g : g = Body(g)
           sum == [t \in 0 .. TilesIn |-> p[Start(t)]]
<1>1. Logit(b, x, w) = after[TilesIn]
  BY DEF Logit
<1>2. InSize \in Nat /\ TileW \in Nat /\ TileW > 0 /\ TilesIn \in Nat
  BY SramAssumption, Quotient DEF TilesIn
<1>3. Start(0) = 0
  <2>1. CASE TilesIn = 0
    <3>1. InSize + TileW - 1 < TileBase(TilesIn) + TileW
      BY <1>2, Quotient DEF TilesIn
    <3>2. TileBase(TilesIn) = 0
      BY <1>2, <2>1 DEF TileBase
    <3>3. InSize = 0
      BY <1>2, <3>1, <3>2
    <3>4. QED
      BY <2>1, <3>3
  <2>2. CASE TilesIn # 0
    BY <1>2, <2>2 DEF TileBase
  <2>3. QED
    BY <2>1, <2>2
<1>4. ASSUME NEW t \in 1 .. TilesIn
      PROVE  AfterTile(p[Start(t - 1)], x, w, t - 1) = p[Start(t)]
  <2>1. t - 1 \in 0 .. TilesIn - 1 /\ t - 1 # TilesIn /\ (t - 1) + 1 = t
    BY <1>2
  <2>2. TileEnd(t - 1) = Start(t)
    BY <2>1, TileBounds
  <2>3. AfterTile(p[TileBase(t - 1)], x, w, t - 1) = p[TileEnd(t - 1)]
    BY <2>1, TileAdds
  <2>4. QED
    BY <2>1, <2>2, <2>3
<1>5. sum[0] = b
  <2>1. 0 \in 0 .. TilesIn
    BY <1>2
  <2>2. QED
    BY <1>3, <2>1 DEF IsSum
<1> HIDE DEF Start
<1>6. sum = Body(sum)
  <2>1. ASSUME NEW t \in 0 .. TilesIn, t # 0
        PROVE  sum[t] = AfterTile(sum[t - 1], x, w, t - 1)
    <3>1. t \in 1 .. TilesIn /\ t - 1 \in 0 .. TilesIn
      BY <1>2, <2>1
    <3>2. QED
      BY <1>4, <3>1
  <2>2. QED
    BY <1>5, <2>1
<1>7. after = Body(after)
  BY <1>6
<1> HIDE DEF after, sum
<1> DEFINE K == {t \in Nat : t \in 0 .. TilesIn => after[t] = sum[t]}
<1>8. 0 \in K
  BY <1>2, <1>5, <1>7
<1>9. ASSUME NEW t \in K
      PROVE  t + 1 \in K
  <2>1. SUFFICES ASSUME t + 1 \in 0 .. TilesIn
                 PROVE  after[t + 1] = sum[t + 1]
    OBVIOUS
  <2>2. t \in 0 .. TilesIn /\ t + 1 # 0 /\ (t + 1) - 1 = t
    BY <1>2, <2>1
  <2>3. after[t] = sum[t]
    BY <2>2
  <2>4. after[t + 1] = AfterTile(after[t], x, w, t)
    BY <1>7, <2>1, <2>2
  <2>5. sum[t + 1] = AfterTile(sum[t], x, w, t)
    BY <1>6, <2>1, <2>2
  <2>6. QED
    BY <2>3, <2>4, <2>5
<1>10. K = Nat
  <2> HIDE DEF K
  <2>1. K \in SUBSET Nat
    BY DEF K
  <2>2. QED
    BY <1>8, <1>9, <2>1, Induction
<1>11. after[TilesIn] = sum[TilesIn]
  BY <1>2, <1>10
<1>12. sum[TilesIn] = p[InSize]
  BY <1>2 DEF sum, Start
<1>13. QED
  BY <1>1, <1>11, <1>12

-----------------------------------------------------------------------------
(* The sum the comment on the loops writes down.                           *)

\* The terms of d at the indices in s.
Masked(d, s) == [j \in Input |-> IF j \in s THEN d[j] ELSE 0]

LEMMA MaskedType ==
    ASSUME NEW d \in [Input -> Int], NEW s
    PROVE  Masked(d, s) \in [0 .. InSize - 1 -> Int]
  BY DEF Masked, Input

\* The sum of the terms of d at the indices in s, in ascending order.
SumOver(d, s) == (CHOOSE p : IsSum(p, InSize, 0, Masked(d, s)))[InSize]

LEMMA SumOverIsSum ==
    ASSUME NEW d \in [Input -> Int], NEW s
    PROVE  \E p : IsSum(p, InSize, 0, Masked(d, s)) /\ SumOver(d, s) = p[InSize]
<1> DEFINE p == CHOOSE q : IsSum(q, InSize, 0, Masked(d, s))
<1>1. \E q : IsSum(q, InSize, 0, Masked(d, s))
  BY MaskedType, SumExists, SramAssumption
<1>2. IsSum(p, InSize, 0, Masked(d, s))
  BY <1>1
<1>3. SumOver(d, s) = p[InSize]
  BY DEF SumOver
<1>4. QED
  BY <1>2, <1>3

LEMMA SumAdds ==
    ASSUME NEW N \in Nat, NEW c, NEW d, NEW p, IsSum(p, N, c, d)
    PROVE  Adds(p, 0, N, d)
  BY DEF IsSum, Adds

LEMMA SumOverNone ==
    ASSUME NEW d \in [Input -> Int]
    PROVE  SumOver(d, {}) = 0
<1> DEFINE zero == [n \in 0 .. InSize |-> 0]
<1>1. PICK p : IsSum(p, InSize, 0, Masked(d, {})) /\ SumOver(d, {}) = p[InSize]
  BY SumOverIsSum
<1>2. InSize \in Nat
  BY SramAssumption
<1>3. Adds(zero, 0, InSize, Masked(d, {}))
  <2>1. ASSUME NEW n \in 0 + 1 .. InSize
        PROVE  zero[n] = zero[n - 1] + Masked(d, {})[n - 1]
    <3>1. n \in 0 .. InSize /\ n - 1 \in 0 .. InSize /\ n - 1 \in Input
      BY <1>2 DEF Input
    <3>2. Masked(d, {})[n - 1] = 0
      BY <3>1 DEF Masked
    <3>3. QED
      BY <3>1, <3>2
  <2>2. QED
    BY <2>1 DEF Adds
<1>4. Adds(p, 0, InSize, Masked(d, {}))
  BY <1>1, <1>2, SumAdds
<1>5. p[0] = zero[0]
  BY <1>1, <1>2 DEF IsSum
<1> HIDE DEF zero
<1>6. \A n \in 0 .. InSize : p[n] = zero[n]
  BY <1>2, <1>3, <1>4, <1>5, SumUnique
<1>7. QED
  BY <1>1, <1>2, <1>6 DEF zero

\* Any term may be added last.
LEMMA SumOverSplit ==
    ASSUME NEW d \in [Input -> Int], NEW s \in SUBSET Input, NEW x \in s
    PROVE  SumOver(d, s) = d[x] + SumOver(d, s \ {x})
<1>1. PICK p : IsSum(p, InSize, 0, Masked(d, s)) /\ SumOver(d, s) = p[InSize]
  BY SumOverIsSum
<1>2. PICK q : /\ IsSum(q, InSize, 0, Masked(d, s \ {x}))
               /\ SumOver(d, s \ {x}) = q[InSize]
  BY SumOverIsSum
<1> DEFINE r == [n \in 0 .. InSize |-> IF n > x THEN d[x] + q[n] ELSE q[n]]
<1>3. InSize \in Nat /\ x \in Nat /\ x < InSize /\ d[x] \in Int
  BY SramAssumption DEF Input
<1>4. q \in [0 .. InSize -> Int]
  BY <1>2 DEF IsSum
<1>5. Adds(r, 0, InSize, Masked(d, s))
  <2>1. ASSUME NEW n \in 0 + 1 .. InSize
        PROVE  r[n] = r[n - 1] + Masked(d, s)[n - 1]
    <3>1. n \in Nat /\ n \in 0 .. InSize /\ n - 1 \in 0 .. InSize /\ n - 1 \in Input
      BY <1>3 DEF Input
    <3>2. q[n] = q[n - 1] + Masked(d, s \ {x})[n - 1]
      BY <1>2, <1>3, SumAdds DEF Adds
    <3>3. q[n] \in Int /\ q[n - 1] \in Int
      BY <1>4, <3>1
    <3>4. CASE n - 1 = x
      <4>1. n > x /\ ~ (n - 1 > x)
        BY <1>3, <3>1, <3>4
      <4>2. Masked(d, s \ {x})[n - 1] = 0 /\ Masked(d, s)[n - 1] = d[x]
        BY <3>1, <3>4 DEF Masked
      <4>3. r[n] = d[x] + q[n] /\ r[n - 1] = q[n - 1]
        BY <3>1, <4>1
      <4>4. QED
        BY <1>3, <3>2, <3>3, <4>2, <4>3
    <3>5. CASE n - 1 # x
      <4>1. Masked(d, s \ {x})[n - 1] = Masked(d, s)[n - 1]
        BY <3>1, <3>5 DEF Masked
      <4>2. Masked(d, s)[n - 1] \in Int
        BY <3>1, MaskedType DEF Input
      <4>3. n > x <=> n - 1 > x
        BY <1>3, <3>1, <3>5
      <4>4. CASE n > x
        <5>1. r[n] = d[x] + q[n] /\ r[n - 1] = d[x] + q[n - 1]
          BY <3>1, <4>3, <4>4
        <5>2. QED
          BY <1>3, <3>2, <3>3, <4>1, <4>2, <5>1
      <4>5. CASE ~ (n > x)
        <5>1. r[n] = q[n] /\ r[n - 1] = q[n - 1]
          BY <3>1, <4>3, <4>5
        <5>2. QED
          BY <3>2, <4>1, <5>1
      <4>6. QED
        BY <4>4, <4>5
    <3>6. QED
      BY <3>4, <3>5
  <2>2. QED
    BY <2>1 DEF Adds
<1>6. Adds(p, 0, InSize, Masked(d, s))
  BY <1>1, <1>3, SumAdds
<1>7. p[0] = r[0]
  BY <1>1, <1>2, <1>3 DEF IsSum
<1>8. r[InSize] = d[x] + q[InSize]
  BY <1>3
<1> HIDE DEF r
<1>9. \A n \in 0 .. InSize : p[n] = r[n]
  BY <1>3, <1>5, <1>6, <1>7, SumUnique
<1>10. QED
  BY <1>1, <1>2, <1>3, <1>8, <1>9

\* The order in which a fold takes the inputs does not matter.
LEMMA FoldIsSumOver ==
    ASSUME NEW d \in [Input -> Int], NEW iter,
           iter = [s \in SUBSET Input |->
                     IF s = {} THEN 0
                     ELSE d[CHOOSE j \in s : TRUE] + iter[s \ {CHOOSE j \in s : TRUE}]]
    PROVE  \A s \in SUBSET Input : iter[s] = SumOver(d, s)
<1> DEFINE K == {n \in Nat : \A s \in SUBSET Input :
                               Cardinality(s) = n => iter[s] = SumOver(d, s)}
<1>1. \A s \in SUBSET Input : IsFiniteSet(s) /\ Cardinality(s) \in Nat
  <2>1. 0 \in Int /\ InSize - 1 \in Int
    BY SramAssumption
  <2>2. IsFiniteSet(Input)
    BY <2>1, FS_Interval DEF Input
  <2>3. \A s \in SUBSET Input : IsFiniteSet(s)
    BY <2>2, FS_Subset
  <2>4. QED
    BY <2>3, FS_CardinalityType
<1>2. iter[{}] = SumOver(d, {})
  BY SumOverNone
<1>3. 0 \in K
  <2>1. \A s \in SUBSET Input : Cardinality(s) = 0 => s = {}
    BY <1>1, FS_EmptySet
  <2>2. QED
    BY <1>2, <2>1
<1>4. ASSUME NEW n \in K
      PROVE  n + 1 \in K
  <2>1. SUFFICES ASSUME NEW s \in SUBSET Input, Cardinality(s) = n + 1
                 PROVE  iter[s] = SumOver(d, s)
    <3>1. n + 1 \in Nat
      OBVIOUS
    <3>2. QED
      BY <3>1
  <2> DEFINE j == CHOOSE i \in s : TRUE
  <2>2. s # {}
    <3>1. n + 1 # 0
      OBVIOUS
    <3>2. QED
      BY <2>1, <3>1, FS_EmptySet
  <2>3. j \in s
    BY <2>2
  <2>4. iter[s] = d[j] + iter[s \ {j}]
    BY <2>2
  <2> HIDE DEF j
  <2>5. s \ {j} \in SUBSET Input /\ Cardinality(s \ {j}) = n
    <3>1. Cardinality(s \ {j}) = Cardinality(s) - 1
      BY <1>1, <2>1, <2>3, FS_RemoveElement
    <3>2. n + 1 - 1 = n
      OBVIOUS
    <3>3. QED
      BY <2>1, <3>1, <3>2
  <2>6. iter[s \ {j}] = SumOver(d, s \ {j})
    BY <2>5
  <2>7. QED
    BY <2>3, <2>4, <2>6, SumOverSplit
<1>5. K = Nat
  <2> HIDE DEF K
  <2>1. K \in SUBSET Nat
    BY DEF K
  <2>2. QED
    BY <1>3, <1>4, <2>1, Induction
<1>6. QED
  BY <1>1, <1>5

LEMMA DotProductIsSum ==
    ASSUME NEW x \in [Input -> Int], NEW w \in [Input -> Int], NEW b \in Int
    PROVE  DotProduct(b, x, w) = b + SumOver(Products(x, w), Input)
<1> DEFINE Body(g) == [s \in SUBSET Input |->
                         IF s = {} THEN 0
                         ELSE ClampU4(x[CHOOSE j \in s : TRUE]) * ClampS4(w[CHOOSE j \in s : TRUE])
                              + g[s \ {CHOOSE j \in s : TRUE}]]
           iter == CHOOSE g : g = Body(g)
           d == Products(x, w)
           sums == [s \in SUBSET Input |-> SumOver(d, s)]
<1>1. DotProduct(b, x, w) = b + iter[Input]
  BY DEF DotProduct, MapThenSumSet, MapThenFoldSet
<1>2. d \in [Input -> Int]
  BY ProductsType
<1>3. \A j \in Input : d[j] = ClampU4(x[j]) * ClampS4(w[j])
  BY DEF Products
<1> HIDE DEF d
<1>4. sums = Body(sums)
  <2>1. ASSUME NEW s \in SUBSET Input
        PROVE  sums[s] = Body(sums)[s]
    <3>1. CASE s = {}
      BY <1>2, <3>1, SumOverNone
    <3>2. CASE s # {}
      <4>1. PICK j : j = CHOOSE i \in s : TRUE
        OBVIOUS
      <4>2. j \in s /\ s \ {j} \in SUBSET Input
        BY <3>2, <4>1
      <4>3. SumOver(d, s) = d[j] + SumOver(d, s \ {j})
        BY <1>2, <4>2, SumOverSplit
      <4>4. Body(sums)[s] = ClampU4(x[j]) * ClampS4(w[j]) + sums[s \ {j}]
        BY <3>2, <4>1
      <4>5. QED
        BY <1>3, <4>2, <4>3, <4>4
    <3>3. QED
      BY <3>1, <3>2
  <2>2. QED
    BY <2>1
<1>5. iter = Body(iter)
  BY <1>4
<1> HIDE DEF iter
<1>6. iter = [s \in SUBSET Input |->
                IF s = {} THEN 0
                ELSE d[CHOOSE j \in s : TRUE] + iter[s \ {CHOOSE j \in s : TRUE}]]
  <2>1. ASSUME NEW s \in SUBSET Input, s # {}
        PROVE  d[CHOOSE j \in s : TRUE]
                 = ClampU4(x[CHOOSE j \in s : TRUE]) * ClampS4(w[CHOOSE j \in s : TRUE])
    BY <1>3, <2>1
  <2>2. QED
    BY <1>5, <2>1
<1>7. iter[Input] = SumOver(d, Input)
  BY <1>2, <1>6, FoldIsSumOver
<1>8. QED
  BY <1>1, <1>7 DEF d

\* Whatever the number of inputs and the width of the tiles, whatever bytes the
\* host has stored: the loops of compute_in_memory leave what the comment above
\* them promises, y[i] = b[i] + sum_j x[j] * W[i][j], over the clamped operands.
THEOREM TiledSumIsDotProduct ==
    \A b \in Int, x \in [Input -> Int], w \in [Input -> Int] :
        Logit(b, x, w) = DotProduct(b, x, w)
<1> SUFFICES ASSUME NEW b \in Int, NEW x \in [Input -> Int], NEW w \in [Input -> Int]
             PROVE  Logit(b, x, w) = DotProduct(b, x, w)
  OBVIOUS
<1> DEFINE d == Products(x, w)
<1>1. d \in [Input -> Int] /\ Masked(d, Input) = d
  BY ProductsType DEF Masked
<1>2. PICK p : IsSum(p, InSize, 0, d) /\ SumOver(d, Input) = p[InSize]
  BY <1>1, SumOverIsSum
<1> DEFINE r == [n \in 0 .. InSize |-> b + p[n]]
<1>3. InSize \in Nat /\ p \in [0 .. InSize -> Int]
  BY <1>2, SramAssumption DEF IsSum
<1>4. IsSum(r, InSize, b, d)
  <2>1. ASSUME NEW n \in 1 .. InSize
        PROVE  r[n] = r[n - 1] + d[n - 1]
    <3>1. n \in 0 .. InSize /\ n - 1 \in 0 .. InSize /\ n - 1 \in Input
      BY <1>3 DEF Input
    <3>2. p[n] = p[n - 1] + d[n - 1]
      BY <1>2 DEF IsSum
    <3>3. p[n] \in Int /\ p[n - 1] \in Int /\ d[n - 1] \in Int
      BY <1>1, <1>3, <3>1
    <3>4. r[n] = b + p[n] /\ r[n - 1] = b + p[n - 1]
      BY <3>1
    <3> HIDE DEF r, d
    <3>5. QED
      BY <3>2, <3>3, <3>4
  <2>2. r \in [0 .. InSize -> Int]
    BY <1>3
  <2>3. r[0] = b
    BY <1>2, <1>3 DEF IsSum
  <2>4. QED
    BY <2>1, <2>2, <2>3 DEF IsSum
<1>5. r[InSize] = b + p[InSize]
  BY <1>3
<1> HIDE DEF r
<1>6. Logit(b, x, w) = r[InSize]
  BY <1>4, LogitIsSum
<1>7. QED
  BY <1>2, <1>5, <1>6, DotProductIsSum

-----------------------------------------------------------------------------
(* How far the accumulator goes.                                           *)

LEMMA SumStaysClose ==
    ASSUME NEW d \in [Input -> -120 .. 105], NEW b \in Int, NEW p, IsSum(p, InSize, b, d)
    PROVE  \A n \in 0 .. InSize : p[n] \in b - 120 * n .. b + 105 * n
<1> DEFINE K == {n \in Nat : n \in 0 .. InSize => p[n] \in b - 120 * n .. b + 105 * n}
<1>1. InSize \in Nat /\ p \in [0 .. InSize -> Int] /\ p[0] = b
  BY SramAssumption DEF IsSum
<1>2. 0 \in K
  BY <1>1
<1>3. ASSUME NEW n \in K
      PROVE  n + 1 \in K
  <2>1. n \in Nat /\ n + 1 \in Nat
    OBVIOUS
  <2>2. SUFFICES ASSUME n + 1 \in 0 .. InSize
                 PROVE  p[n + 1] \in b - 120 * (n + 1) .. b + 105 * (n + 1)
    BY <2>1
  <2>3. n \in 0 .. InSize /\ n \in Input /\ n + 1 \in 1 .. InSize /\ (n + 1) - 1 = n
    BY <1>1, <2>1, <2>2 DEF Input
  <2>4. p[n + 1] = p[n] + d[n]
    BY <2>3 DEF IsSum
  <2>5. p[n] \in Int /\ b - 120 * n <= p[n] /\ p[n] <= b + 105 * n
    BY <1>1, <2>1, <2>3
  <2>6. d[n] \in -120 .. 105
    BY <2>3
  <2>7. QED
    BY <2>1, <2>4, <2>5, <2>6
<1>4. K = Nat
  <2> HIDE DEF K
  <2>1. K \in SUBSET Nat
    BY DEF K
  <2>2. QED
    BY <1>2, <1>3, <2>1, Induction
<1>5. \A n \in 0 .. InSize : n \in Nat
  BY <1>1
<1>6. QED
  BY <1>4, <1>5

\* The accumulator of compute_in_memory is 32 bits wide.  With 1024 inputs at most,
\* the larger of the two sizes of neural_network.h, and a bias that leaves room
\* for 1024 times the least and the greatest product, no partial sum is cut,
\* neither inside a tile nor between two.
THEOREM AccumulatorIsNotCut ==
    ASSUME InSize <= 1024,
           NEW b \in Int, -2^31 + 1024 * 120 <= b, b <= 2^31 - 1 - 1024 * 105,
           NEW x \in [Input -> Int], NEW w \in [Input -> Int]
    PROVE  /\ \A p, n : IsSum(p, InSize, b, Products(x, w)) /\ n \in 0 .. InSize
                          => p[n] \in -2^31 .. 2^31 - 1
           /\ Logit(b, x, w) \in -2^31 .. 2^31 - 1
<1>1. 2^31 = 2147483648
  OBVIOUS
<1>2. -2147483648 + 1024 * 120 <= b /\ b <= 2147483648 - 1 - 1024 * 105
  BY <1>1
<1>3. InSize \in Nat
  BY SramAssumption
<1>4. Products(x, w) \in [Input -> -120 .. 105]
  BY ProductsType
<1>5. ASSUME NEW p, NEW n \in 0 .. InSize, IsSum(p, InSize, b, Products(x, w))
      PROVE  p[n] \in -2^31 .. 2^31 - 1
  <2>1. p[n] \in b - 120 * n .. b + 105 * n
    BY <1>2, <1>4, <1>5, SumStaysClose
  <2>2. n \in Nat /\ n <= 1024
    BY <1>3
  <2>3. QED
    BY <1>1, <1>2, <2>1, <2>2
<1>6. \E p : IsSum(p, InSize, b, Products(x, w))
  <2>1. Products(x, w) \in [0 .. InSize - 1 -> Int]
    <3>1. \A j \in Input : Products(x, w)[j] \in Int
      BY <1>4
    <3>2. QED
      BY <1>4, <3>1 DEF Input
  <2>2. QED
    BY <1>3, <2>1, SumExists
<1>7. Logit(b, x, w) \in -2^31 .. 2^31 - 1
  <2>1. PICK p : IsSum(p, InSize, b, Products(x, w))
    BY <1>6
  <2>2. Logit(b, x, w) = p[InSize]
    BY <1>2, <2>1, LogitIsSum
  <2>3. InSize \in 0 .. InSize
    BY <1>3
  <2>4. QED
    BY <1>5, <2>1, <2>2, <2>3
<1>8. QED
  BY <1>5, <1>7

=============================================================================
